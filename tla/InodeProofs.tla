---------------------------- MODULE InodeProofs -----------------------------
(***************************************************************************)
(* Theorems about the references and locks of inodes, for any number of    *)
(* processes, inodes, names and calls: the disk, the inode cache and the   *)
(* calls keep their types (TypeOK), references and locks balance, and the  *)
(* last reference is never given back of a locked inode (CacheBalanced).   *)
(*                                                                         *)
(* Most lemmas speak of a call a with the directory c and the file f of    *)
(* its process, and of the call b that a step makes of it.                 *)
(***************************************************************************)
EXTENDS InodeInv, FiniteSetTheorems, FunctionTheorems, SequenceTheorems, TLAPS

USE DEF None

SameBut(a, b) ==
    /\ b.pc = a.pc /\ b.call = a.call /\ b.names = a.names /\ b.name = a.name
    /\ b.ip = a.ip /\ b.other = a.other /\ b.then = a.then

-----------------------------------------------------------------------------
(* What a call has locked before each of its micro-steps.                  *)

LEMMA HeldAt ==
  ASSUME NEW a, a.todo \in Seq(Step), NEW k \in 1..Len(a.todo), NEW i
  PROVE  HeldFrom(a, k, i) <=>
             \/ Releases(a.todo[k], i)
             \/ ~Takes(a.todo[k], i) /\ HeldFrom(a, k + 1, i)
<1> DEFINE n == Len(a.todo)
<1>0. n \in Nat  BY LenProperties
<1> HIDE DEF n
<1>k. k \in 1..n  BY DEF n
<1>1. ASSUME HeldFrom(a, k, i), ~Releases(a.todo[k], i)
      PROVE  ~Takes(a.todo[k], i) /\ HeldFrom(a, k + 1, i)
  <2>1. CASE \E m \in k..n : Releases(a.todo[m], i) /\ \A j \in k..m - 1 : ~Takes(a.todo[j], i)
    <3>1. PICK m \in k..n : Releases(a.todo[m], i) /\ \A j \in k..m - 1 : ~Takes(a.todo[j], i)
      BY <2>1
    <3>2. m # k  BY <3>1, <1>1
    <3>3. m \in k + 1..n /\ k \in k..m - 1  BY <3>1, <3>2, <1>0, <1>k
    <3>4. \A j \in k + 1..m - 1 : j \in k..m - 1  BY <1>k
    <3>5. ~Takes(a.todo[k], i)  BY <3>1, <3>3
    <3>6. \A j \in k + 1..m - 1 : ~Takes(a.todo[j], i)  BY <3>1, <3>4
    <3> QED  BY <3>1, <3>3, <3>5, <3>6 DEF HeldFrom, n
  <2>2. CASE LockedAt(a, i) /\ \A j \in k..n : ~Takes(a.todo[j], i)
    <3>1. \A j \in k + 1..n : j \in k..n  BY <1>k
    <3>2. k \in k..n  BY <1>k
    <3> QED  BY <2>2, <3>1, <3>2 DEF HeldFrom, n
  <2> QED  BY <1>1, <2>1, <2>2 DEF HeldFrom, n
<1>2. ASSUME Releases(a.todo[k], i)  PROVE HeldFrom(a, k, i)
  <2>1. k \in k..n /\ k..k - 1 = {}  BY <1>k
  <2> QED  BY <1>2, <2>1 DEF HeldFrom, n
<1>3. ASSUME ~Takes(a.todo[k], i), HeldFrom(a, k + 1, i)  PROVE HeldFrom(a, k, i)
  <2>1. CASE \E m \in k + 1..n :
                 Releases(a.todo[m], i) /\ \A j \in k + 1..m - 1 : ~Takes(a.todo[j], i)
    <3>1. PICK m \in k + 1..n :
                 Releases(a.todo[m], i) /\ \A j \in k + 1..m - 1 : ~Takes(a.todo[j], i)
      BY <2>1
    <3>2. m \in k..n  BY <1>k
    <3>3. \A j \in k..m - 1 : j = k \/ j \in k + 1..m - 1  BY <1>k
    <3>4. \A j \in k..m - 1 : ~Takes(a.todo[j], i)  BY <3>1, <3>3, <1>3
    <3> QED  BY <3>1, <3>2, <3>4 DEF HeldFrom, n
  <2>2. CASE LockedAt(a, i) /\ \A j \in k + 1..n : ~Takes(a.todo[j], i)
    <3>1. \A j \in k..n : j = k \/ j \in k + 1..n  BY <1>k
    <3>2. \A j \in k..n : ~Takes(a.todo[j], i)  BY <2>2, <3>1, <1>3
    <3> QED  BY <2>2, <3>2 DEF HeldFrom, n
  <2> QED  BY <1>3, <2>1, <2>2 DEF HeldFrom, n
<1> QED  BY <1>1, <1>2, <1>3

LEMMA HeldEnd ==
  ASSUME NEW a, a.todo \in Seq(Step), NEW i
  PROVE  HeldFrom(a, Len(a.todo) + 1, i) <=> LockedAt(a, i)
<1>0. Len(a.todo) \in Nat  BY LenProperties
<1>1. (Len(a.todo) + 1)..Len(a.todo) = {}  BY <1>0
<1> QED  BY <1>1 DEF HeldFrom

\* The same micro-steps at other places.
LEMMA Shift ==
  ASSUME NEW a, NEW b, a.todo \in Seq(Step), b.todo \in Seq(Step), SameBut(a, b),
         NEW d \in Int, Len(b.todo) = Len(a.todo) + d,
         NEW k \in Nat \ {0}, k + d > 0,
         \A j \in k..Len(a.todo) : b.todo[j + d] = a.todo[j],
         NEW i
  PROVE  HeldFrom(b, k + d, i) <=> HeldFrom(a, k, i)
<1> DEFINE n == Len(a.todo)
<1>0. n \in Nat  BY LenProperties
<1>n. Len(b.todo) = n + d  OBVIOUS
<1>j. \A j \in k..n : b.todo[j + d] = a.todo[j]  OBVIOUS
<1> HIDE DEF n
<1>1. LockedAt(b, i) <=> LockedAt(a, i)  BY DEF SameBut, LockedAt
<1>2. ASSUME HeldFrom(a, k, i)  PROVE HeldFrom(b, k + d, i)
  <2>1. CASE \E m \in k..n : Releases(a.todo[m], i) /\ \A j \in k..m - 1 : ~Takes(a.todo[j], i)
    <3>1. PICK m \in k..n : Releases(a.todo[m], i) /\ \A j \in k..m - 1 : ~Takes(a.todo[j], i)
      BY <2>1
    <3>2. m + d \in k + d..n + d  BY <1>0
    <3>3. \A j \in k + d..(m + d) - 1 : j - d \in k..m - 1 /\ j - d \in k..n /\ (j - d) + d = j
      BY <1>0
    <3>4. \A j \in k + d..(m + d) - 1 : b.todo[j] = a.todo[j - d]  BY <3>3, <1>j
    <3>5. \A j \in k + d..(m + d) - 1 : ~Takes(b.todo[j], i)  BY <3>1, <3>3, <3>4
    <3> QED  BY <3>1, <3>2, <3>5, <1>j, <1>n DEF HeldFrom
  <2>2. CASE LockedAt(a, i) /\ \A j \in k..n : ~Takes(a.todo[j], i)
    <3>1. \A j \in k + d..n + d : j - d \in k..n /\ (j - d) + d = j  BY <1>0
    <3>2. \A j \in k + d..n + d : b.todo[j] = a.todo[j - d]  BY <3>1, <1>j
    <3> QED  BY <2>2, <1>1, <1>n, <3>1, <3>2 DEF HeldFrom
  <2> QED  BY <1>2, <2>1, <2>2 DEF HeldFrom, n
<1>3. ASSUME HeldFrom(b, k + d, i)  PROVE HeldFrom(a, k, i)
  <2>1. CASE \E m \in k + d..n + d :
                 Releases(b.todo[m], i) /\ \A j \in k + d..m - 1 : ~Takes(b.todo[j], i)
    <3>1. PICK m \in k + d..n + d :
                 Releases(b.todo[m], i) /\ \A j \in k + d..m - 1 : ~Takes(b.todo[j], i)
      BY <2>1
    <3>2. m - d \in k..n /\ (m - d) + d = m  BY <1>0
    <3>3. \A j \in k..(m - d) - 1 : j + d \in k + d..m - 1 /\ j \in k..n  BY <1>0
    <3>4. \A j \in k..(m - d) - 1 : ~Takes(a.todo[j], i)  BY <3>1, <3>3, <1>j
    <3>5. a.todo[m - d] = b.todo[m]  BY <3>2, <1>j
    <3> QED  BY <3>1, <3>2, <3>4, <3>5 DEF HeldFrom, n
  <2>2. CASE LockedAt(b, i) /\ \A j \in k + d..n + d : ~Takes(b.todo[j], i)
    <3>1. \A j \in k..n : j + d \in k + d..n + d  BY <1>0
    <3>2. \A j \in k..n : ~Takes(a.todo[j], i)  BY <2>2, <3>1, <1>j
    <3> QED  BY <2>2, <3>2, <1>1 DEF HeldFrom, n
  <2> QED  BY <1>3, <2>1, <2>2, <1>n DEF HeldFrom
<1> QED  BY <1>2, <1>3

-----------------------------------------------------------------------------
(* What micro-steps to come give back.                                     *)

LEMMA GivesFinite ==
  ASSUME NEW s \in Seq(Step), NEW i
  PROVE  IsFiniteSet(GivesOf(s, i)) /\ Cardinality(GivesOf(s, i)) \in Nat
<1>1. Len(s) \in Nat /\ DOMAIN s = 1..Len(s)  BY LenProperties
<1>2. IsFiniteSet(1..Len(s))  BY <1>1, FS_Interval
<1>3. GivesOf(s, i) \in SUBSET (1..Len(s))  BY <1>1 DEF GivesOf
<1> QED  BY <1>2, <1>3, FS_Subset, FS_CardinalityType

LEMMA GivesSome ==
  ASSUME NEW s \in Seq(Step), NEW i
  PROVE  Cardinality(GivesOf(s, i)) > 0 <=> \E k \in 1..Len(s) : Gives(s[k], i)
<1>1. DOMAIN s = 1..Len(s)  BY LenProperties
<1>2. GivesOf(s, i) = {} <=> ~\E k \in 1..Len(s) : Gives(s[k], i)  BY <1>1 DEF GivesOf
<1>3. IsFiniteSet(GivesOf(s, i)) /\ Cardinality(GivesOf(s, i)) \in Nat  BY GivesFinite
<1>4. Cardinality(GivesOf(s, i)) = 0 <=> GivesOf(s, i) = {}  BY <1>3, FS_EmptySet
<1> QED  BY <1>2, <1>3, <1>4

\* t is s with the step x before it.
LEMMA GivesCons ==
  ASSUME NEW s \in Seq(Step), NEW t \in Seq(Step), NEW x, NEW i,
         Len(t) = Len(s) + 1, t[1] = x, \A k \in 1..Len(s) : t[k + 1] = s[k]
  PROVE  Cardinality(GivesOf(t, i)) = Cardinality(GivesOf(s, i)) + One(Gives(x, i))
<1> DEFINE S == GivesOf(s, i)
           T == GivesOf(t, i) \ {1}
           F == [k \in S |-> k + 1]
<1>1. /\ Len(s) \in Nat /\ DOMAIN s = 1..Len(s) /\ DOMAIN t = 1..Len(t)
  BY LenProperties
<1>2. \A k : k \in S <=> k \in 1..Len(s) /\ Gives(s[k], i)  BY <1>1 DEF GivesOf
<1>3. \A k : k \in T <=> k \in 1..Len(s) + 1 /\ k # 1 /\ Gives(t[k], i)  BY <1>1 DEF GivesOf
<1>4. 1 \in GivesOf(t, i) <=> Gives(x, i)  BY <1>1 DEF GivesOf
<1>f. IsFiniteSet(S) /\ Cardinality(S) \in Nat /\ IsFiniteSet(GivesOf(t, i))
      /\ Cardinality(GivesOf(t, i)) \in Nat
  BY GivesFinite
<1> HIDE DEF S, T
<1>5. \A k \in S : k + 1 \in T
  <2> TAKE k \in S
  <2>1. k \in 1..Len(s) /\ Gives(s[k], i)  BY <1>2
  <2>2. k + 1 \in 1..Len(s) + 1 /\ k + 1 # 1  BY <2>1, <1>1
  <2> QED  BY <2>1, <2>2, <1>3
<1>6. \A k \in T : k - 1 \in S /\ (k - 1) + 1 = k
  <2> TAKE k \in T
  <2>1. k \in 1..Len(s) + 1 /\ k # 1 /\ Gives(t[k], i)  BY <1>3
  <2>2. k - 1 \in 1..Len(s) /\ (k - 1) + 1 = k  BY <2>1, <1>1
  <2>3. t[k] = s[k - 1]  BY <2>2
  <2> QED  BY <2>1, <2>2, <2>3, <1>2
<1>7. F \in Bijection(S, T)
  <2>1. F \in [S -> T]  BY <1>5
  <2>2. \A j, k \in S : j \in Int /\ k \in Int  BY <1>2, <1>1
  <2>3. \A j, k \in S : F[j] = F[k] => j = k  BY <2>2
  <2>4. \A k \in T : \E j \in S : F[j] = k  BY <1>6
  <2> QED  BY <2>1, <2>3, <2>4, Fun_IsBij
<1>8. Cardinality(T) = Cardinality(S)
  BY <1>7, <1>f, FS_Bijection, Fun_ExistsBij
<1>9. Cardinality(T) = IF 1 \in GivesOf(t, i) THEN Cardinality(GivesOf(t, i)) - 1
                       ELSE Cardinality(GivesOf(t, i))
  BY <1>f, FS_RemoveElement DEF T
<1>10. Cardinality(GivesOf(t, i)) = Cardinality(S) + One(Gives(x, i))
  BY <1>f, <1>4, <1>8, <1>9 DEF One
<1> QED  BY <1>10 DEF S

-----------------------------------------------------------------------------
(* Micro-steps that a call is given at its points: none to four.           *)

LEMMA GivesNone ==
  ASSUME NEW i
  PROVE  <<>> \in Seq(Step) /\ Cardinality(GivesOf(<<>>, i)) = 0
<1>1. <<>> \in Seq(Step) /\ Len(<<>>) = 0  BY EmptySeq
<1>2. Cardinality(GivesOf(<<>>, i)) \in Nat  BY <1>1, GivesFinite
<1>3. 1..Len(<<>>) = {}  BY <1>1
<1>4. ~(Cardinality(GivesOf(<<>>, i)) > 0)  BY <1>1, <1>3, GivesSome
<1> QED  BY <1>1, <1>2, <1>4

LEMMA Plan0 ==
  ASSUME NEW a, a.todo = <<>>, NEW i
  PROVE  /\ a.todo \in Seq(Step) /\ Len(a.todo) = 0
         /\ HeldFrom(a, 1, i) <=> LockedAt(a, i)
         /\ Cardinality(GivesOf(a.todo, i)) = 0
<1>1. <<>> \in Seq(Step) /\ Len(<<>>) = 0  BY EmptySeq
<1>2. Cardinality(GivesOf(<<>>, i)) = 0  BY GivesNone
<1>3. a.todo \in Seq(Step) /\ Len(a.todo) = 0  BY <1>1
<1>4. HeldFrom(a, Len(a.todo) + 1, i) <=> LockedAt(a, i)  BY <1>3, HeldEnd
<1> QED  BY <1>2, <1>3, <1>4

LEMMA Gives1 ==
  ASSUME NEW x \in Step, NEW i
  PROVE  Cardinality(GivesOf(<<x>>, i)) = One(Gives(x, i))
<1> DEFINE s == <<>>
           t == <<x>>
<1>1. s \in Seq(Step) /\ Len(s) = 0 /\ Cardinality(GivesOf(s, i)) = 0
  BY GivesNone, EmptySeq
<1>2. t \in Seq(Step) /\ Len(t) = 1 /\ t[1] = x  OBVIOUS
<1> HIDE DEF s, t
<1>3. Len(t) = Len(s) + 1 /\ \A k \in 1..Len(s) : t[k + 1] = s[k]  BY <1>1, <1>2
<1>4. Cardinality(GivesOf(t, i)) = Cardinality(GivesOf(s, i)) + One(Gives(x, i))
  <2>1. s \in Seq(Step) /\ t \in Seq(Step) /\ t[1] = x  BY <1>1, <1>2
  <2> QED  BY <1>3, <2>1, GivesCons
<1>5. Cardinality(GivesOf(t, i)) = One(Gives(x, i))  BY <1>1, <1>4 DEF One
<1> QED  BY <1>5 DEF t

LEMMA Plan1 ==
  ASSUME NEW a, NEW x \in Step, a.todo = <<x>>, NEW i
  PROVE  /\ a.todo \in Seq(Step) /\ Len(a.todo) = 1 /\ a.todo[1] = x
         /\ HeldFrom(a, 2, i) <=> LockedAt(a, i)
         /\ HeldFrom(a, 1, i) <=> Releases(x, i) \/ (~Takes(x, i) /\ HeldFrom(a, 2, i))
         /\ Cardinality(GivesOf(a.todo, i)) = One(Gives(x, i))
<1>1. a.todo \in Seq(Step) /\ Len(a.todo) = 1 /\ a.todo[1] = x  OBVIOUS
<1>2. HeldFrom(a, Len(a.todo) + 1, i) <=> LockedAt(a, i)  BY <1>1, HeldEnd
<1>3. 1 \in 1..Len(a.todo)  BY <1>1
<1>4. HeldFrom(a, 1, i) <=> Releases(x, i) \/ (~Takes(x, i) /\ HeldFrom(a, 1 + 1, i))
  BY <1>1, <1>3, HeldAt
<1>5. Cardinality(GivesOf(a.todo, i)) = One(Gives(x, i))  BY Gives1
<1> QED  BY <1>1, <1>2, <1>4, <1>5

LEMMA Gives2 ==
  ASSUME NEW x \in Step, NEW y \in Step, NEW i
  PROVE  Cardinality(GivesOf(<<x, y>>, i)) = One(Gives(x, i)) + One(Gives(y, i))
<1> DEFINE s == <<y>>
           t == <<x, y>>
<1>1. s \in Seq(Step) /\ t \in Seq(Step) /\ Len(t) = Len(s) + 1 /\ t[1] = x  OBVIOUS
<1>2. \A k \in 1..Len(s) : t[k + 1] = s[k]  OBVIOUS
<1>3. Cardinality(GivesOf(s, i)) = One(Gives(y, i))  BY Gives1
<1> HIDE DEF s, t
<1>4. Cardinality(GivesOf(t, i)) = Cardinality(GivesOf(s, i)) + One(Gives(x, i))
  BY <1>1, <1>2, GivesCons
<1>5. Cardinality(GivesOf(t, i)) = One(Gives(x, i)) + One(Gives(y, i))  BY <1>3, <1>4 DEF One
<1> QED  BY <1>5 DEF t

LEMMA Gives3 ==
  ASSUME NEW x \in Step, NEW y \in Step, NEW z \in Step, NEW i
  PROVE  Cardinality(GivesOf(<<x, y, z>>, i)) =
             One(Gives(x, i)) + One(Gives(y, i)) + One(Gives(z, i))
<1> DEFINE s == <<y, z>>
           t == <<x, y, z>>
<1>1. s \in Seq(Step) /\ t \in Seq(Step) /\ Len(t) = Len(s) + 1 /\ t[1] = x  OBVIOUS
<1>2. \A k \in 1..Len(s) : t[k + 1] = s[k]  OBVIOUS
<1>3. Cardinality(GivesOf(s, i)) = One(Gives(y, i)) + One(Gives(z, i))  BY Gives2
<1> HIDE DEF s, t
<1>4. Cardinality(GivesOf(t, i)) = Cardinality(GivesOf(s, i)) + One(Gives(x, i))
  BY <1>1, <1>2, GivesCons
<1>5. Cardinality(GivesOf(t, i)) = One(Gives(x, i)) + One(Gives(y, i)) + One(Gives(z, i))
  BY <1>3, <1>4 DEF One
<1> QED  BY <1>5 DEF t

LEMMA Gives4 ==
  ASSUME NEW w \in Step, NEW x \in Step, NEW y \in Step, NEW z \in Step, NEW i
  PROVE  Cardinality(GivesOf(<<w, x, y, z>>, i)) =
             One(Gives(w, i)) + One(Gives(x, i)) + One(Gives(y, i)) + One(Gives(z, i))
<1> DEFINE s == <<x, y, z>>
           t == <<w, x, y, z>>
<1>1. s \in Seq(Step) /\ t \in Seq(Step) /\ Len(t) = Len(s) + 1 /\ t[1] = w  OBVIOUS
<1>2. \A k \in 1..Len(s) : t[k + 1] = s[k]  OBVIOUS
<1>3. Cardinality(GivesOf(s, i)) = One(Gives(x, i)) + One(Gives(y, i)) + One(Gives(z, i))
  BY Gives3
<1> HIDE DEF s, t
<1>4. Cardinality(GivesOf(t, i)) = Cardinality(GivesOf(s, i)) + One(Gives(w, i))
  BY <1>1, <1>2, GivesCons
<1>5. Cardinality(GivesOf(t, i)) =
          One(Gives(w, i)) + One(Gives(x, i)) + One(Gives(y, i)) + One(Gives(z, i))
  BY <1>3, <1>4 DEF One
<1> QED  BY <1>5 DEF t

LEMMA Plan2 ==
  ASSUME NEW a, NEW x \in Step, NEW y \in Step, a.todo = <<x, y>>, NEW i
  PROVE  /\ a.todo \in Seq(Step) /\ Len(a.todo) = 2 /\ a.todo[1] = x /\ a.todo[2] = y
         /\ HeldFrom(a, 3, i) <=> LockedAt(a, i)
         /\ HeldFrom(a, 2, i) <=> Releases(y, i) \/ (~Takes(y, i) /\ HeldFrom(a, 3, i))
         /\ HeldFrom(a, 1, i) <=> Releases(x, i) \/ (~Takes(x, i) /\ HeldFrom(a, 2, i))
         /\ Cardinality(GivesOf(a.todo, i)) = One(Gives(x, i)) + One(Gives(y, i))
<1>1. a.todo \in Seq(Step) /\ Len(a.todo) = 2 /\ a.todo[1] = x /\ a.todo[2] = y  OBVIOUS
<1>2. HeldFrom(a, Len(a.todo) + 1, i) <=> LockedAt(a, i)  BY <1>1, HeldEnd
<1>3. \A k \in {1, 2} : k \in 1..Len(a.todo)  BY <1>1
<1>4. HeldFrom(a, 1, i) <=> Releases(x, i) \/ (~Takes(x, i) /\ HeldFrom(a, 1 + 1, i))
  BY <1>1, <1>3, HeldAt
<1>5. HeldFrom(a, 2, i) <=> Releases(y, i) \/ (~Takes(y, i) /\ HeldFrom(a, 2 + 1, i))
  BY <1>1, <1>3, HeldAt
<1>6. Cardinality(GivesOf(a.todo, i)) = One(Gives(x, i)) + One(Gives(y, i))  BY Gives2
<1> QED  BY <1>1, <1>2, <1>4, <1>5, <1>6

LEMMA Plan3 ==
  ASSUME NEW a, NEW x \in Step, NEW y \in Step, NEW z \in Step, a.todo = <<x, y, z>>, NEW i
  PROVE  /\ a.todo \in Seq(Step) /\ Len(a.todo) = 3
         /\ a.todo[1] = x /\ a.todo[2] = y /\ a.todo[3] = z
         /\ HeldFrom(a, 4, i) <=> LockedAt(a, i)
         /\ HeldFrom(a, 3, i) <=> Releases(z, i) \/ (~Takes(z, i) /\ HeldFrom(a, 4, i))
         /\ HeldFrom(a, 2, i) <=> Releases(y, i) \/ (~Takes(y, i) /\ HeldFrom(a, 3, i))
         /\ HeldFrom(a, 1, i) <=> Releases(x, i) \/ (~Takes(x, i) /\ HeldFrom(a, 2, i))
         /\ Cardinality(GivesOf(a.todo, i)) =
                One(Gives(x, i)) + One(Gives(y, i)) + One(Gives(z, i))
<1>1. /\ a.todo \in Seq(Step) /\ Len(a.todo) = 3
      /\ a.todo[1] = x /\ a.todo[2] = y /\ a.todo[3] = z
  OBVIOUS
<1>2. HeldFrom(a, Len(a.todo) + 1, i) <=> LockedAt(a, i)  BY <1>1, HeldEnd
<1>3. \A k \in {1, 2, 3} : k \in 1..Len(a.todo)  BY <1>1
<1>4. HeldFrom(a, 1, i) <=> Releases(x, i) \/ (~Takes(x, i) /\ HeldFrom(a, 1 + 1, i))
  BY <1>1, <1>3, HeldAt
<1>5. HeldFrom(a, 2, i) <=> Releases(y, i) \/ (~Takes(y, i) /\ HeldFrom(a, 2 + 1, i))
  BY <1>1, <1>3, HeldAt
<1>6. HeldFrom(a, 3, i) <=> Releases(z, i) \/ (~Takes(z, i) /\ HeldFrom(a, 3 + 1, i))
  BY <1>1, <1>3, HeldAt
<1>7. Cardinality(GivesOf(a.todo, i)) = One(Gives(x, i)) + One(Gives(y, i)) + One(Gives(z, i))
  BY Gives3
<1> QED  BY <1>1, <1>2, <1>4, <1>5, <1>6, <1>7

LEMMA Plan4 ==
  ASSUME NEW a, NEW w \in Step, NEW x \in Step, NEW y \in Step, NEW z \in Step,
         a.todo = <<w, x, y, z>>, NEW i
  PROVE  /\ a.todo \in Seq(Step) /\ Len(a.todo) = 4
         /\ a.todo[1] = w /\ a.todo[2] = x /\ a.todo[3] = y /\ a.todo[4] = z
         /\ HeldFrom(a, 5, i) <=> LockedAt(a, i)
         /\ HeldFrom(a, 4, i) <=> Releases(z, i) \/ (~Takes(z, i) /\ HeldFrom(a, 5, i))
         /\ HeldFrom(a, 3, i) <=> Releases(y, i) \/ (~Takes(y, i) /\ HeldFrom(a, 4, i))
         /\ HeldFrom(a, 2, i) <=> Releases(x, i) \/ (~Takes(x, i) /\ HeldFrom(a, 3, i))
         /\ HeldFrom(a, 1, i) <=> Releases(w, i) \/ (~Takes(w, i) /\ HeldFrom(a, 2, i))
         /\ Cardinality(GivesOf(a.todo, i)) =
                One(Gives(w, i)) + One(Gives(x, i)) + One(Gives(y, i)) + One(Gives(z, i))
<1>1. /\ a.todo \in Seq(Step) /\ Len(a.todo) = 4
      /\ a.todo[1] = w /\ a.todo[2] = x /\ a.todo[3] = y /\ a.todo[4] = z
  OBVIOUS
<1>2. HeldFrom(a, Len(a.todo) + 1, i) <=> LockedAt(a, i)  BY <1>1, HeldEnd
<1>3. \A k \in {1, 2, 3, 4} : k \in 1..Len(a.todo)  BY <1>1
<1>4. HeldFrom(a, 1, i) <=> Releases(w, i) \/ (~Takes(w, i) /\ HeldFrom(a, 1 + 1, i))
  BY <1>1, <1>3, HeldAt
<1>5. HeldFrom(a, 2, i) <=> Releases(x, i) \/ (~Takes(x, i) /\ HeldFrom(a, 2 + 1, i))
  BY <1>1, <1>3, HeldAt
<1>6. HeldFrom(a, 3, i) <=> Releases(y, i) \/ (~Takes(y, i) /\ HeldFrom(a, 3 + 1, i))
  BY <1>1, <1>3, HeldAt
<1>7. HeldFrom(a, 4, i) <=> Releases(z, i) \/ (~Takes(z, i) /\ HeldFrom(a, 4 + 1, i))
  BY <1>1, <1>3, HeldAt
<1>8. Cardinality(GivesOf(a.todo, i)) =
          One(Gives(w, i)) + One(Gives(x, i)) + One(Gives(y, i)) + One(Gives(z, i))
  BY Gives4
<1> QED  BY <1>1, <1>2, <1>4, <1>5, <1>6, <1>7, <1>8

\* What each kind of micro-step does to the lock and the references of an inode.
LEMMA Ops ==
  ASSUME NEW i \in Ino, NEW j \in Ino
  PROVE  /\ Lock(i) \in Step /\ Unlock(i) \in Step /\ Put(i) \in Step /\ Update(i) \in Step
         /\ Takes(Lock(i), j) <=> i = j
         /\ ~Releases(Lock(i), j) /\ ~Gives(Lock(i), j)
         /\ Releases(Unlock(i), j) <=> i = j
         /\ ~Takes(Unlock(i), j) /\ ~Gives(Unlock(i), j)
         /\ Gives(Put(i), j) <=> i = j
         /\ ~Takes(Put(i), j) /\ ~Releases(Put(i), j)
         /\ ~Takes(Update(i), j) /\ ~Releases(Update(i), j) /\ ~Gives(Update(i), j)
BY DEF Lock, Unlock, Put, Update, Step, Takes, Releases, Gives

LEMMA RightLock ==
  ASSUME NEW a, NEW c, NEW f, NEW k, NEW i \in Ino, a.todo[k] = Lock(i), HeldFrom(a, k + 1, i)
  PROVE  StepRight(a, c, f, k)
BY DEF StepRight, Lock, Unlock, Put, Update

LEMMA RightUpdate ==
  ASSUME NEW a, NEW c, NEW f, NEW k, NEW i \in Ino, a.todo[k] = Update(i), HeldFrom(a, k + 1, i)
  PROVE  StepRight(a, c, f, k)
BY DEF StepRight, Lock, Unlock, Put, Update

LEMMA RightPut ==
  ASSUME NEW a, NEW c, NEW f, NEW k, NEW i \in Ino, a.todo[k] = Put(i)
  PROVE  StepRight(a, c, f, k)
BY DEF StepRight, Lock, Unlock, Put, Update

LEMMA RightUnlock ==
  ASSUME NEW a, NEW c, NEW f, NEW k, NEW i \in Ino, a.todo[k] = Unlock(i), ~HeldFrom(a, k + 1, i),
         Keeps(a, c, f, i) > 0 \/ \E m \in k + 1..Len(a.todo) : Gives(a.todo[m], i)
  PROVE  StepRight(a, c, f, k)
BY DEF StepRight, Lock, Unlock, Put, Update

-----------------------------------------------------------------------------
(* What a call has at each of its points.                                  *)

LEMMA OneIs ==
  /\ \A P, Q \in BOOLEAN : (P <=> Q) => One(P) = One(Q)
  /\ \A P \in BOOLEAN : One(P) \in 0..1 /\ (P => One(P) = 1) /\ (~P => One(P) = 0)
BY DEF One

LEMMA Apart ==
  /\ AtIp \cap AtOther = {} /\ AtIp \cap AtBoth = {} /\ AtOther \cap AtBoth = {}
  /\ \A pc \in {"user", "renamed", "panic"} : pc \notin AtIp \cup AtOther \cup AtBoth
BY DEF AtIp, AtOther, AtBoth

LEMMA PointIp ==
  ASSUME NEW a, a.pc \in AtIp, NEW c, NEW f, NEW i
  PROVE  /\ LockedAt(a, i) <=> a.ip = i
         /\ ~Twice(a, i)
         /\ Keeps(a, c, f, i) = One(c = i) + One(f = i) + One(a.ip = i)
                                + One(a.call = "newname" /\ a.other = i)
<1>1. a.pc \notin AtOther /\ a.pc \notin AtBoth /\ a.pc # "renamed"
  BY Apart
<1>2. a.pc \in AtIp \cup AtBoth /\ a.pc \notin AtOther \cup AtBoth \cup {"renamed"}
  BY <1>1
<1>3. One(a.pc \in AtIp \cup AtBoth /\ a.ip = i) = One(a.ip = i)  BY <1>2
<1>4. One((a.pc \in AtOther \cup AtBoth \cup {"renamed"} \/ a.call = "newname") /\ a.other = i)
      = One(a.call = "newname" /\ a.other = i)
  BY <1>2
<1> QED  BY <1>1, <1>2, <1>3, <1>4 DEF LockedAt, Twice, Keeps

LEMMA PointOther ==
  ASSUME NEW a, a.pc \in AtOther, NEW c, NEW f, NEW i
  PROVE  /\ LockedAt(a, i) <=> a.other = i
         /\ ~Twice(a, i)
         /\ Keeps(a, c, f, i) = One(c = i) + One(f = i) + One(a.other = i)
<1>1. a.pc \notin AtIp /\ a.pc \notin AtBoth  BY Apart
<1>2. a.pc \notin AtIp \cup AtBoth /\ a.pc \in AtOther \cup AtBoth \cup {"renamed"}
  BY <1>1
<1>3. One(a.pc \in AtIp \cup AtBoth /\ a.ip = i) = 0  BY <1>2 DEF One
<1>4. One((a.pc \in AtOther \cup AtBoth \cup {"renamed"} \/ a.call = "newname") /\ a.other = i)
      = One(a.other = i)
  BY <1>2
<1>5. One(c = i) \in 0..1 /\ One(f = i) \in 0..1 /\ One(a.other = i) \in 0..1  BY DEF One
<1>6. Keeps(a, c, f, i) = One(c = i) + One(f = i) + 0 + One(a.other = i)
  BY <1>3, <1>4 DEF Keeps
<1>7. Keeps(a, c, f, i) = One(c = i) + One(f = i) + One(a.other = i)  BY <1>5, <1>6
<1> QED  BY <1>1, <1>7 DEF LockedAt, Twice

LEMMA PointBoth ==
  ASSUME NEW a, a.pc \in AtBoth, NEW c, NEW f, NEW i
  PROVE  /\ LockedAt(a, i) <=> a.ip = i \/ a.other = i
         /\ Twice(a, i) <=> a.ip = i /\ a.other = i
         /\ Keeps(a, c, f, i) = One(c = i) + One(f = i) + One(a.ip = i) + One(a.other = i)
<1>2. a.pc \in AtIp \cup AtBoth /\ a.pc \in AtOther \cup AtBoth \cup {"renamed"}
  OBVIOUS
<1>3. One(a.pc \in AtIp \cup AtBoth /\ a.ip = i) = One(a.ip = i)  BY <1>2
<1>4. One((a.pc \in AtOther \cup AtBoth \cup {"renamed"} \/ a.call = "newname") /\ a.other = i)
      = One(a.other = i)
  BY <1>2
<1> QED  BY <1>2, <1>3, <1>4 DEF LockedAt, Twice, Keeps

LEMMA PointRenamed ==
  ASSUME NEW a, a.pc = "renamed", NEW c, NEW f, NEW i
  PROVE  /\ ~LockedAt(a, i) /\ ~Twice(a, i)
         /\ Keeps(a, c, f, i) = One(c = i) + One(f = i) + One(a.other = i)
<1>1. a.pc \notin AtIp /\ a.pc \notin AtBoth /\ a.pc \notin AtOther  BY Apart
<1>3. One(a.pc \in AtIp \cup AtBoth /\ a.ip = i) = 0  BY <1>1 DEF One
<1>4. One((a.pc \in AtOther \cup AtBoth \cup {"renamed"} \/ a.call = "newname") /\ a.other = i)
      = One(a.other = i)
  OBVIOUS
<1>5. One(c = i) \in 0..1 /\ One(f = i) \in 0..1 /\ One(a.other = i) \in 0..1  BY DEF One
<1>6. Keeps(a, c, f, i) = One(c = i) + One(f = i) + 0 + One(a.other = i)
  BY <1>3, <1>4 DEF Keeps
<1>7. Keeps(a, c, f, i) = One(c = i) + One(f = i) + One(a.other = i)  BY <1>5, <1>6
<1> QED  BY <1>1, <1>7 DEF LockedAt, Twice

LEMMA PointUser ==
  ASSUME NEW a, a.pc = "user", a.call # "newname", NEW c, NEW f, NEW i
  PROVE  /\ ~LockedAt(a, i) /\ ~Twice(a, i)
         /\ Keeps(a, c, f, i) = One(c = i) + One(f = i)
<1>1. a.pc \notin AtIp /\ a.pc \notin AtBoth /\ a.pc \notin AtOther /\ a.pc # "renamed"
  BY Apart
<1>3. One(a.pc \in AtIp \cup AtBoth /\ a.ip = i) = 0  BY <1>1 DEF One
<1>4. One((a.pc \in AtOther \cup AtBoth \cup {"renamed"} \/ a.call = "newname") /\ a.other = i)
      = 0
  BY <1>1 DEF One
<1>5. One(c = i) \in 0..1 /\ One(f = i) \in 0..1  BY DEF One
<1>6. Keeps(a, c, f, i) = One(c = i) + One(f = i) + 0 + 0
  BY <1>3, <1>4 DEF Keeps
<1>7. Keeps(a, c, f, i) = One(c = i) + One(f = i)  BY <1>5, <1>6
<1> QED  BY <1>1, <1>7 DEF LockedAt, Twice

LEMMA KeepsNat ==
  ASSUME NEW a, NEW c, NEW f, NEW i
  PROVE  Keeps(a, c, f, i) \in Nat
BY DEF Keeps, One

LEMMA OwnsNat ==
  ASSUME NEW a, a.todo \in Seq(Step), NEW c, NEW f, NEW i
  PROVE  Owns(a, c, f, i) \in Nat
BY KeepsNat, GivesFinite DEF Owns

\* What has been locked is referred to, and there is a reference left to give
\* back when the lock is.
LEMMA HeldOwned ==
  ASSUME NEW a, a.todo \in Seq(Step), NEW c, NEW f, CallRight(a, c, f),
         NEW i \in Ino, Holds(a, i)
  PROVE  Owns(a, c, f, i) > 0
<1> DEFINE n == Len(a.todo)
<1>0. n \in Nat  BY LenProperties
<1>1. Keeps(a, c, f, i) \in Nat /\ Cardinality(GivesOf(a.todo, i)) \in Nat
  BY KeepsNat, GivesFinite
<1>2. Owns(a, c, f, i) = Keeps(a, c, f, i) + Cardinality(GivesOf(a.todo, i))  BY DEF Owns
<1>3. SUFFICES Keeps(a, c, f, i) > 0 \/ Cardinality(GivesOf(a.todo, i)) > 0
  BY <1>1, <1>2
<1>4. ASSUME LockedAt(a, i)  PROVE Keeps(a, c, f, i) > 0
  <2>1. CASE a.pc \in AtIp \cup AtBoth /\ a.ip = i  BY <2>1 DEF Keeps, One
  <2>2. CASE a.pc \in AtOther \cup AtBoth /\ a.other = i  BY <2>2 DEF Keeps, One
  <2> QED  BY <1>4, <2>1, <2>2 DEF LockedAt
<1>5. ASSUME Twice(a, i)  PROVE LockedAt(a, i)  BY <1>5 DEF Twice, LockedAt
<1>6. ASSUME NEW m \in 1..n, Releases(a.todo[m], i)
      PROVE  Keeps(a, c, f, i) > 0 \/ Cardinality(GivesOf(a.todo, i)) > 0
  <2>1. CASE a.todo[m] = <<"drop", i>>
    <3>1. Gives(a.todo[m], i)  BY <2>1 DEF Gives
    <3> QED  BY <3>1, GivesSome
  <2>2. CASE a.todo[m] = Unlock(i) /\ ~(Keeps(a, c, f, i) > 0)
    <3>1. StepRight(a, c, f, m)  BY DEF CallRight
    <3>2. PICK k \in m + 1..n : Gives(a.todo[k], i)  BY <2>2, <3>1 DEF StepRight
    <3>3. k \in 1..n  BY <3>2, <1>0
    <3> QED  BY <3>2, <3>3, GivesSome
  <2> QED  BY <1>6, <2>1, <2>2 DEF Releases
<1>7. \A m \in 1..n : Releases(a.todo[m], i) =>
          Keeps(a, c, f, i) > 0 \/ Cardinality(GivesOf(a.todo, i)) > 0
  BY <1>6
<1> QED  BY <1>4, <1>5, <1>7 DEF Holds, HeldFrom

-----------------------------------------------------------------------------
(* A micro-step is done, or an iput() finds that it has to free the inode. *)

LEMMA SameHere ==
  ASSUME NEW a, NEW b, SameBut(a, b), NEW c, NEW f, NEW i
  PROVE  /\ Keeps(b, c, f, i) = Keeps(a, c, f, i)
         /\ LockedAt(b, i) <=> LockedAt(a, i)
         /\ Twice(b, i) <=> Twice(a, i)
BY DEF SameBut, Keeps, LockedAt, Twice

LEMMA TailIs ==
  ASSUME NEW s \in Seq(Step), s # <<>>
  PROVE  /\ Tail(s) \in Seq(Step) /\ Len(s) \in Nat \ {0} /\ Len(Tail(s)) = Len(s) - 1
         /\ \A k \in 1..Len(s) - 1 : Tail(s)[k] = s[k + 1]
         /\ Head(s) = s[1] /\ Head(s) \in Step
BY HeadTailProperties, EmptySeq

LEMMA GivesTail ==
  ASSUME NEW s \in Seq(Step), s # <<>>, NEW i
  PROVE  Cardinality(GivesOf(s, i)) = Cardinality(GivesOf(Tail(s), i)) + One(Gives(Head(s), i))
<1> DEFINE t == Tail(s)
<1>1. t \in Seq(Step) /\ Len(s) = Len(t) + 1 /\ s[1] = Head(s) /\ \A k \in 1..Len(t) : s[k + 1] = t[k]
  BY TailIs
<1> HIDE DEF t
<1>2. Cardinality(GivesOf(s, i)) = Cardinality(GivesOf(t, i)) + One(Gives(Head(s), i))
  BY <1>1, GivesCons
<1> QED  BY <1>2 DEF t

LEMMA TailHeld ==
  ASSUME NEW a, NEW b, a.todo \in Seq(Step), a.todo # <<>>, SameBut(a, b),
         b.todo = Tail(a.todo), NEW i, NEW k \in 1..Len(a.todo)
  PROVE  HeldFrom(b, k, i) <=> HeldFrom(a, k + 1, i)
<1>1. /\ b.todo \in Seq(Step) /\ Len(a.todo) \in Nat \ {0} /\ Len(b.todo) = Len(a.todo) + (-1)
      /\ \A j \in 1..Len(a.todo) - 1 : b.todo[j] = a.todo[j + 1]
  BY TailIs
<1>2. k + 1 \in Nat \ {0} /\ (k + 1) + (-1) = k /\ k > 0 /\ -1 \in Int  BY <1>1
<1>3. \A j \in k + 1..Len(a.todo) : j + (-1) \in 1..Len(a.todo) - 1 /\ (j + (-1)) + 1 = j
  BY <1>1
<1>4. \A j \in k + 1..Len(a.todo) : b.todo[j + (-1)] = a.todo[j]  BY <1>1, <1>3
<1> DEFINE m == k + 1
           d == -1
<1>5. /\ m \in Nat \ {0} /\ d \in Int /\ m + d > 0 /\ Len(b.todo) = Len(a.todo) + d
      /\ \A j \in m..Len(a.todo) : b.todo[j + d] = a.todo[j]
  BY <1>1, <1>2, <1>4
<1> HIDE DEF m, d
<1>6. HeldFrom(b, m + d, i) <=> HeldFrom(a, m, i)  BY <1>1, <1>5, Shift
<1> QED  BY <1>2, <1>6 DEF m, d

\* The call b has done the first micro-step of a.
LEMMA TailRight ==
  ASSUME NEW a, NEW b, a.todo \in Seq(Step), a.todo # <<>>, SameBut(a, b),
         b.todo = Tail(a.todo), NEW c, NEW f, CallRight(a, c, f),
         \A i \in Ino : ~Twice(a, i)
  PROVE  CallRight(b, c, f)
<1>1. /\ b.todo \in Seq(Step) /\ Len(a.todo) \in Nat \ {0} /\ Len(b.todo) = Len(a.todo) - 1
      /\ \A j \in 1..Len(a.todo) - 1 : b.todo[j] = a.todo[j + 1]
  BY TailIs
<1>2. PointRight(b)
  <2>1. PointRight(a)  BY DEF CallRight
  <2>2. ~(b.pc \in AtBoth /\ b.ip = b.other)
    BY <2>1 DEF SameBut, PointRight, Twice
  <2> QED  BY <2>1, <2>2 DEF SameBut, PointRight
<1>3. ASSUME NEW k \in 1..Len(b.todo)  PROVE StepRight(b, c, f, k)
  <2>1. /\ k + 1 \in 1..Len(a.todo) /\ k \in 1..Len(a.todo) - 1 /\ b.todo[k] = a.todo[k + 1]
        /\ k \in Nat
    BY <1>1
  <2>2. StepRight(a, c, f, k + 1)  BY <2>1 DEF CallRight
  <2>3. \A i : HeldFrom(b, k + 1, i) <=> HeldFrom(a, (k + 1) + 1, i)  BY <2>1, TailHeld
  <2>4. \A i : Keeps(b, c, f, i) = Keeps(a, c, f, i)  BY SameHere
  <2> SUFFICES ASSUME NEW i \in Ino
      PROVE  /\ b.todo[k] \in {Lock(i), Update(i), <<"itrunc", i>>, <<"clear", i>>} =>
                    HeldFrom(b, k + 1, i)
             /\ b.todo[k] \in {Unlock(i), <<"drop", i>>} => ~HeldFrom(b, k + 1, i)
             /\ b.todo[k] = Unlock(i) =>
                    \/ Keeps(b, c, f, i) > 0
                    \/ \E m \in k + 1..Len(b.todo) : Gives(b.todo[m], i)
             /\ b.todo[k] = <<"drop", i>> =>
                    \A j \in 1..k - 1 : b.todo[j] \in {<<"itrunc", i>>, <<"clear", i>>}
             /\ b.todo[k] = <<"clear", i>> =>
                    \E m \in k + 1..Len(b.todo) : b.todo[m] = <<"drop", i>>
    BY DEF StepRight
  <2>5. b.todo[k] \in {Lock(i), Update(i), <<"itrunc", i>>, <<"clear", i>>} =>
            HeldFrom(b, k + 1, i)
    BY <2>1, <2>2, <2>3 DEF StepRight
  <2>6. b.todo[k] \in {Unlock(i), <<"drop", i>>} => ~HeldFrom(b, k + 1, i)
    BY <2>1, <2>2, <2>3 DEF StepRight
  <2>a. \A m \in (k + 1) + 1..Len(a.todo) :
            m - 1 \in k + 1..Len(b.todo) /\ a.todo[m] = b.todo[m - 1]
    <3> TAKE m \in (k + 1) + 1..Len(a.todo)
    <3>1. m - 1 \in k + 1..Len(b.todo) /\ m - 1 \in 1..Len(a.todo) - 1 /\ (m - 1) + 1 = m
      BY <1>1, <2>1
    <3> QED  BY <1>1, <3>1
  <2>7. ASSUME b.todo[k] = Unlock(i), ~(Keeps(b, c, f, i) > 0)
        PROVE  \E m \in k + 1..Len(b.todo) : Gives(b.todo[m], i)
    <3>1. \E m \in (k + 1) + 1..Len(a.todo) : Gives(a.todo[m], i)
      BY <2>1, <2>2, <2>4, <2>7 DEF StepRight
    <3> QED  BY <3>1, <2>a
  <2>8. ASSUME b.todo[k] = <<"drop", i>>
        PROVE  \A j \in 1..k - 1 : b.todo[j] \in {<<"itrunc", i>>, <<"clear", i>>}
    <3>1. \A j \in 1..(k + 1) - 1 : a.todo[j] \in {<<"itrunc", i>>, <<"clear", i>>}
      BY <2>1, <2>2, <2>8 DEF StepRight
    <3>2. \A j \in 1..k - 1 : j + 1 \in 1..(k + 1) - 1 /\ b.todo[j] = a.todo[j + 1]
      BY <1>1, <2>1
    <3> QED  BY <3>1, <3>2
  <2>9. ASSUME b.todo[k] = <<"clear", i>>
        PROVE  \E m \in k + 1..Len(b.todo) : b.todo[m] = <<"drop", i>>
    <3>1. \E m \in (k + 1) + 1..Len(a.todo) : a.todo[m] = <<"drop", i>>
      BY <2>1, <2>2, <2>9 DEF StepRight
    <3> QED  BY <3>1, <2>a
  <2> QED  BY <2>5, <2>6, <2>7, <2>8, <2>9
<1>4. b.call \in {"open", "create"} => f = None  BY DEF SameBut, CallRight
<1> QED  BY <1>2, <1>3, <1>4 DEF CallRight

LEMMA TailHas ==
  ASSUME NEW a, NEW b, a.todo \in Seq(Step), a.todo # <<>>, SameBut(a, b),
         b.todo = Tail(a.todo), \A i \in Ino : ~Twice(a, i), NEW i \in Ino, NEW c, NEW f
  PROVE  /\ Holds(b, i) <=> HeldFrom(a, 2, i)
         /\ Holds(a, i) <=> \/ Releases(Head(a.todo), i)
                            \/ ~Takes(Head(a.todo), i) /\ Holds(b, i)
         /\ Owns(b, c, f, i) = Owns(a, c, f, i) - One(Gives(Head(a.todo), i))
<1>1. /\ b.todo \in Seq(Step) /\ Len(a.todo) \in Nat \ {0} /\ Head(a.todo) = a.todo[1]
  BY TailIs
<1>2. 1 \in 1..Len(a.todo)  BY <1>1
<1>3. HeldFrom(b, 1, i) <=> HeldFrom(a, 1 + 1, i)  BY <1>2, TailHeld
<1>4. HeldFrom(a, 1, i) <=> \/ Releases(a.todo[1], i)
                            \/ ~Takes(a.todo[1], i) /\ HeldFrom(a, 1 + 1, i)
  BY <1>2, HeldAt
<1>5. ~Twice(a, i) /\ ~Twice(b, i) /\ Keeps(b, c, f, i) = Keeps(a, c, f, i)  BY SameHere
<1>6. Cardinality(GivesOf(a.todo, i)) = Cardinality(GivesOf(b.todo, i)) + One(Gives(Head(a.todo), i))
  BY GivesTail
<1>7. /\ Cardinality(GivesOf(a.todo, i)) \in Nat /\ Cardinality(GivesOf(b.todo, i)) \in Nat
      /\ Keeps(a, c, f, i) \in Nat
  BY <1>1, GivesFinite, KeepsNat
<1>8. One(Gives(Head(a.todo), i)) \in Nat  BY DEF One
<1>9. Owns(b, c, f, i) = Owns(a, c, f, i) - One(Gives(Head(a.todo), i))
  BY <1>5, <1>6, <1>7, <1>8 DEF Owns
<1> QED  BY <1>1, <1>3, <1>4, <1>5, <1>9 DEF Holds

Frees(t, s, i) == t = FreeSteps(i) \o Tail(s)

LEMMA FreeIs ==
  ASSUME NEW s \in Seq(Step), s # <<>>, NEW i \in Ino, NEW t, Frees(t, s, i)
  PROVE  /\ t \in Seq(Step) /\ Len(t) = Len(s) + 2 /\ Len(s) \in Nat \ {0}
         /\ t[1] = <<"itrunc", i>> /\ t[2] = <<"clear", i>> /\ t[3] = <<"drop", i>>
         /\ \A k \in 2..Len(s) : t[k + 2] = s[k]
<1> DEFINE u == FreeSteps(i)
           v == Tail(s)
           w == u \o v
<1>1. /\ u \in Seq(Step) /\ Len(u) = 3
      /\ u[1] = <<"itrunc", i>> /\ u[2] = <<"clear", i>> /\ u[3] = <<"drop", i>>
  BY DEF FreeSteps, Step
<1>2. /\ v \in Seq(Step) /\ Len(s) \in Nat \ {0} /\ Len(v) = Len(s) - 1
      /\ \A k \in 1..Len(s) - 1 : v[k] = s[k + 1]
  BY TailIs
<1> HIDE DEF u, v
<1>3. /\ w \in Seq(Step) /\ Len(w) = Len(u) + Len(v)
      /\ \A k \in 1..Len(u) + Len(v) : w[k] = IF k <= Len(u) THEN u[k] ELSE v[k - Len(u)]
  BY <1>1, <1>2, ConcatProperties
<1>4. t = w  BY DEF u, v, Frees
<1> HIDE DEF w
<1>5. Len(t) = Len(s) + 2 /\ t \in Seq(Step)
  <2>1. Len(w) = Len(s) + 2  BY <1>1, <1>2, <1>3
  <2> QED  BY <2>1, <1>3, <1>4
<1>6. \A k \in {1, 2, 3} : k \in 1..Len(u) + Len(v) /\ k <= Len(u)  BY <1>1, <1>2
<1>7. t[1] = u[1] /\ t[2] = u[2] /\ t[3] = u[3]  BY <1>3, <1>4, <1>6
<1>8. ASSUME NEW k \in 2..Len(s)  PROVE t[k + 2] = s[k]
  <2>1. /\ k + 2 \in 1..Len(u) + Len(v) /\ ~(k + 2 <= Len(u)) /\ (k + 2) - Len(u) = k - 1
        /\ k - 1 \in 1..Len(s) - 1 /\ (k - 1) + 1 = k
    BY <1>1, <1>2
  <2> QED  BY <1>2, <1>3, <1>4, <2>1
<1> QED  BY <1>1, <1>2, <1>5, <1>7, <1>8

LEMMA FreeOps ==
  ASSUME NEW i \in Ino, NEW j \in Ino
  PROVE  /\ ~Takes(<<"itrunc", i>>, j) /\ ~Releases(<<"itrunc", i>>, j) /\ ~Gives(<<"itrunc", i>>, j)
         /\ ~Takes(<<"clear", i>>, j) /\ ~Releases(<<"clear", i>>, j) /\ ~Gives(<<"clear", i>>, j)
         /\ ~Takes(<<"drop", i>>, j)
         /\ Releases(<<"drop", i>>, j) <=> i = j
         /\ Gives(<<"drop", i>>, j) <=> i = j
BY DEF Lock, Unlock, Put, Takes, Releases, Gives

\* The call b has to free the inode i, where a had to give it back.
LEMMA FreeHeld ==
  ASSUME NEW a, NEW b, a.todo \in Seq(Step), a.todo # <<>>, SameBut(a, b), NEW i \in Ino,
         Frees(b.todo, a.todo, i), NEW j, NEW k \in Nat \ {0, 1}
  PROVE  HeldFrom(b, k + 2, j) <=> HeldFrom(a, k, j)
<1>1. /\ b.todo \in Seq(Step) /\ Len(b.todo) = Len(a.todo) + 2 /\ Len(a.todo) \in Nat \ {0}
      /\ \A m \in 2..Len(a.todo) : b.todo[m + 2] = a.todo[m]
  <2>1. PICK s \in Seq(Step) : s = a.todo  OBVIOUS
  <2>2. PICK t : t = b.todo  OBVIOUS
  <2>3. s # <<>> /\ Frees(t, s, i)  BY <2>1, <2>2
  <2>4. /\ t \in Seq(Step) /\ Len(t) = Len(s) + 2 /\ Len(s) \in Nat \ {0}
        /\ t[1] = <<"itrunc", i>> /\ t[2] = <<"clear", i>> /\ t[3] = <<"drop", i>>
        /\ \A m \in 2..Len(s) : t[m + 2] = s[m]
    BY <2>3, FreeIs
  <2> QED  BY <2>1, <2>2, <2>4
<1>2. \A m \in k..Len(a.todo) : m \in 2..Len(a.todo)  BY <1>1
<1> DEFINE d == 2
<1>3. /\ k \in Nat \ {0} /\ d \in Int /\ k + d > 0 /\ Len(b.todo) = Len(a.todo) + d
      /\ \A m \in k..Len(a.todo) : b.todo[m + d] = a.todo[m]
  BY <1>1, <1>2
<1> HIDE DEF d
<1>4. HeldFrom(b, k + d, j) <=> HeldFrom(a, k, j)  BY <1>1, <1>3, Shift
<1> QED  BY <1>4 DEF d

LEMMA FreeHas ==
  ASSUME NEW a, NEW b, a.todo \in Seq(Step), a.todo # <<>>, SameBut(a, b), NEW i \in Ino,
         Head(a.todo) = Put(i), Frees(b.todo, a.todo, i),
         \A x \in Ino : ~Twice(a, x), NEW j \in Ino, NEW c, NEW f
  PROVE  /\ HeldFrom(b, 2, j) <=> i = j \/ Holds(a, j)
         /\ HeldFrom(b, 3, j) <=> i = j \/ Holds(a, j)
         /\ HeldFrom(b, 4, j) <=> Holds(a, j)
         /\ Holds(b, j) <=> i = j \/ Holds(a, j)
         /\ Owns(b, c, f, j) = Owns(a, c, f, j)
<1>1. /\ b.todo \in Seq(Step) /\ Len(b.todo) = Len(a.todo) + 2 /\ Len(a.todo) \in Nat \ {0}
      /\ b.todo[1] = <<"itrunc", i>> /\ b.todo[2] = <<"clear", i>> /\ b.todo[3] = <<"drop", i>>
      /\ \A m \in 2..Len(a.todo) : b.todo[m + 2] = a.todo[m]
  BY FreeIs
<1>2. a.todo[1] = Put(i) /\ 1 \in 1..Len(a.todo)  BY <1>1, TailIs
<1>3. HeldFrom(a, 1, j) <=> HeldFrom(a, 1 + 1, j)  BY <1>2, HeldAt, Ops
<1>4. ~Twice(a, j) /\ ~Twice(b, j) /\ Keeps(b, c, f, j) = Keeps(a, c, f, j)  BY SameHere
<1>5. Holds(a, j) <=> HeldFrom(a, 2, j)  BY <1>3, <1>4 DEF Holds
<1>6. HeldFrom(b, 2 + 2, j) <=> HeldFrom(a, 2, j)  BY FreeHeld
<1>7. \A k \in {1, 2, 3} : k \in 1..Len(b.todo)  BY <1>1
<1>8. HeldFrom(b, 3, j) <=> i = j \/ HeldFrom(b, 3 + 1, j)
  <2>1. 3 \in 1..Len(b.todo) /\ b.todo \in Seq(Step)  BY <1>1, <1>7
  <2>2. HeldFrom(b, 3, j) <=> Releases(b.todo[3], j)
                              \/ (~Takes(b.todo[3], j) /\ HeldFrom(b, 3 + 1, j))
    BY <2>1, HeldAt
  <2>3. b.todo[3] = <<"drop", i>>  BY <1>1
  <2>4. Releases(<<"drop", i>>, j) <=> i = j  BY FreeOps
  <2>5. ~Takes(<<"drop", i>>, j)  BY FreeOps
  <2> QED  BY <2>2, <2>3, <2>4, <2>5
<1>9. HeldFrom(b, 2, j) <=> HeldFrom(b, 2 + 1, j)
  <2>1. 2 \in 1..Len(b.todo) /\ b.todo \in Seq(Step)  BY <1>1, <1>7
  <2>2. HeldFrom(b, 2, j) <=> Releases(b.todo[2], j)
                              \/ (~Takes(b.todo[2], j) /\ HeldFrom(b, 2 + 1, j))
    BY <2>1, HeldAt
  <2>3. b.todo[2] = <<"clear", i>>  BY <1>1
  <2>4. ~Releases(<<"clear", i>>, j)   BY FreeOps
  <2>5. ~Takes(<<"clear", i>>, j)  BY FreeOps
  <2> QED  BY <2>2, <2>3, <2>4, <2>5
<1>10. HeldFrom(b, 1, j) <=> HeldFrom(b, 1 + 1, j)
  <2>1. 1 \in 1..Len(b.todo) /\ b.todo \in Seq(Step)  BY <1>1, <1>7
  <2>2. HeldFrom(b, 1, j) <=> Releases(b.todo[1], j)
                              \/ (~Takes(b.todo[1], j) /\ HeldFrom(b, 1 + 1, j))
    BY <2>1, HeldAt
  <2>3. b.todo[1] = <<"itrunc", i>>  BY <1>1
  <2>4. ~Releases(<<"itrunc", i>>, j)   BY FreeOps
  <2>5. ~Takes(<<"itrunc", i>>, j)  BY FreeOps
  <2> QED  BY <2>2, <2>3, <2>4, <2>5
<1>11. Cardinality(GivesOf(b.todo, j)) = Cardinality(GivesOf(a.todo, j))
  <2> DEFINE s == Tail(a.todo)
             t == b.todo
             t1 == Tail(t)
             t2 == Tail(t1)
             t3 == Tail(t2)
  <2>0. a.todo[1] = Head(a.todo) /\ s \in Seq(Step) /\ Len(s) = Len(a.todo) - 1
        /\ \A k \in 1..Len(a.todo) - 1 : s[k] = a.todo[k + 1]
    BY TailIs
  <2>1. /\ t \in Seq(Step) /\ t # <<>> /\ Len(t) = Len(s) + 3 /\ Len(s) \in Nat
        /\ t[1] = <<"itrunc", i>> /\ t[2] = <<"clear", i>> /\ t[3] = <<"drop", i>>
        /\ \A k \in 1..Len(s) : t[k + 3] = s[k]
    <3>1. \A k \in 1..Len(s) : k + 1 \in 2..Len(a.todo) /\ (k + 1) + 2 = k + 3
                               /\ k \in 1..Len(a.todo) - 1
      BY <1>1, <2>0
    <3>2. \A k \in 1..Len(s) : t[k + 3] = s[k]  BY <1>1, <2>0, <3>1
    <3>3. Len(t) = Len(s) + 3 /\ Len(s) \in Nat  BY <1>1, <2>0
    <3>4. t # <<>>  BY <3>3, EmptySeq
    <3> QED  BY <1>1, <3>2, <3>3, <3>4
  <2> HIDE DEF s, t
  <2>2. /\ t1 \in Seq(Step) /\ t1 # <<>> /\ Len(t1) = Len(s) + 2
        /\ t1[1] = <<"clear", i>> /\ t1[2] = <<"drop", i>> /\ \A k \in 1..Len(s) : t1[k + 2] = s[k]
        /\ Head(t) = <<"itrunc", i>>
    <3>1. /\ t1 \in Seq(Step) /\ Len(t1) = Len(t) - 1 /\ Head(t) = t[1]
          /\ \A k \in 1..Len(t) - 1 : t1[k] = t[k + 1]
      BY <2>1, TailIs
    <3> HIDE DEF t1
    <3>2. t1 # <<>>
      <4>1. Len(t1) # 0  BY <2>1, <3>1
      <4> QED  BY <4>1, EmptySeq
    <3>3. \A k \in 1..Len(s) : k + 2 \in 1..Len(t) - 1 /\ (k + 2) + 1 = k + 3  BY <2>1
    <3>4. 1 \in 1..Len(t) - 1 /\ 2 \in 1..Len(t) - 1  BY <2>1
    <3>5. \A k \in 1..Len(s) : t1[k + 2] = s[k]  BY <2>1, <3>1, <3>3
    <3> QED  BY <2>1, <3>1, <3>2, <3>4, <3>5
  <2> HIDE DEF t1
  <2>3. /\ t2 \in Seq(Step) /\ t2 # <<>> /\ Len(t2) = Len(s) + 1
        /\ t2[1] = <<"drop", i>> /\ \A k \in 1..Len(s) : t2[k + 1] = s[k]
        /\ Head(t1) = <<"clear", i>>
    <3>1. /\ t2 \in Seq(Step) /\ Len(t2) = Len(t1) - 1 /\ Head(t1) = t1[1]
          /\ \A k \in 1..Len(t1) - 1 : t2[k] = t1[k + 1]
      BY <2>2, TailIs
    <3> HIDE DEF t2
    <3>2. t2 # <<>>
      <4>1. Len(t2) # 0  BY <2>1, <2>2, <3>1
      <4> QED  BY <4>1, EmptySeq
    <3>3. \A k \in 1..Len(s) : k + 1 \in 1..Len(t1) - 1 /\ (k + 1) + 1 = k + 2  BY <2>1, <2>2
    <3>4. 1 \in 1..Len(t1) - 1  BY <2>1, <2>2
    <3>5. \A k \in 1..Len(s) : t2[k + 1] = s[k]  BY <2>2, <3>1, <3>3
    <3> QED  BY <2>1, <2>2, <3>1, <3>2, <3>4, <3>5
  <2> HIDE DEF t2
  <2>s. s \in Seq(Step)  BY <2>0 DEF s
  <2>4. Cardinality(GivesOf(t2, j)) = Cardinality(GivesOf(s, j)) + One(Gives(<<"drop", i>>, j))
    BY <2>s, <2>3, GivesCons
  <2>5. Cardinality(GivesOf(t1, j)) = Cardinality(GivesOf(t2, j)) + One(Gives(<<"clear", i>>, j))
    BY <2>2, GivesTail, <2>3 DEF t2
  <2>6. Cardinality(GivesOf(t, j)) = Cardinality(GivesOf(t1, j)) + One(Gives(<<"itrunc", i>>, j))
    BY <2>1, GivesTail, <2>2 DEF t1
  <2>7. Cardinality(GivesOf(a.todo, j)) = Cardinality(GivesOf(s, j)) + One(Gives(Put(i), j))
    BY GivesTail DEF s
  <2>8. /\ One(Gives(<<"itrunc", i>>, j)) = 0 /\ One(Gives(<<"clear", i>>, j)) = 0
        /\ One(Gives(<<"drop", i>>, j)) = One(Gives(Put(i), j))
    BY FreeOps, Ops DEF One
  <2>9. /\ Cardinality(GivesOf(s, j)) \in Nat /\ One(Gives(Put(i), j)) \in Nat
    BY <2>0, GivesFinite DEF s, One
  <2>10. Cardinality(GivesOf(t, j)) = Cardinality(GivesOf(a.todo, j))
    BY <2>4, <2>5, <2>6, <2>7, <2>8, <2>9
  <2> QED  BY <2>10 DEF t
<1>12. Owns(b, c, f, j) = Owns(a, c, f, j)  BY <1>4, <1>11 DEF Owns
<1> QED  BY <1>4, <1>5, <1>6, <1>8, <1>9, <1>10, <1>12 DEF Holds

LEMMA FreeRight ==
  ASSUME NEW a, NEW b, a.todo \in Seq(Step), a.todo # <<>>, SameBut(a, b), NEW i \in Ino,
         Head(a.todo) = Put(i), Frees(b.todo, a.todo, i),
         \A x \in Ino : ~Twice(a, x), NEW c, NEW f, CallRight(a, c, f), ~Holds(a, i)
  PROVE  CallRight(b, c, f)
<1>1. /\ b.todo \in Seq(Step) /\ Len(b.todo) = Len(a.todo) + 2 /\ Len(a.todo) \in Nat \ {0}
      /\ b.todo[1] = <<"itrunc", i>> /\ b.todo[2] = <<"clear", i>> /\ b.todo[3] = <<"drop", i>>
      /\ \A m \in 2..Len(a.todo) : b.todo[m + 2] = a.todo[m]
  BY FreeIs
<1>2. a.todo[1] = Put(i)  BY TailIs
<1>3. PointRight(b)
  <2>1. PointRight(a)  BY DEF CallRight
  <2>2. ~(b.pc \in AtBoth /\ b.ip = b.other)
    BY <2>1 DEF SameBut, PointRight, Twice
  <2> QED  BY <2>1, <2>2 DEF SameBut, PointRight
<1>4. HeldFrom(b, 2, i) /\ HeldFrom(b, 3, i) /\ ~HeldFrom(b, 4, i)  BY FreeHas
<1>5. StepRight(b, c, f, 1)
  <2>1. HeldFrom(b, 1 + 1, i)  BY <1>4
  <2> QED  BY <2>1, <1>1 DEF StepRight, Lock, Unlock, Update
<1>6. StepRight(b, c, f, 2)
  <2>1. HeldFrom(b, 2 + 1, i)  BY <1>4
  <2>2. 3 \in 2 + 1..Len(b.todo)  BY <1>1
  <2>3. \E m \in 2 + 1..Len(b.todo) : b.todo[m] = <<"drop", i>>  BY <2>2, <1>1
  <2>4. b.todo[2] = <<"clear", i>>  BY <1>1
  <2> QED  BY <2>1, <2>3, <2>4 DEF StepRight, Lock, Unlock, Update
<1>7. StepRight(b, c, f, 3)
  <2>1. ~HeldFrom(b, 3 + 1, i)  BY <1>4
  <2>2. b.todo[3] = <<"drop", i>>  BY <1>1
  <2>3. \A j \in 1..3 - 1 : b.todo[j] \in {<<"itrunc", i>>, <<"clear", i>>}
    <3>1. \A j \in 1..3 - 1 : j = 1 \/ j = 2  OBVIOUS
    <3>2. b.todo[1] = <<"itrunc", i>> /\ b.todo[2] = <<"clear", i>>  BY <1>1
    <3> QED  BY <3>1, <3>2
  <2> QED  BY <2>1, <2>2, <2>3 DEF StepRight, Lock, Unlock, Update
<1>8. ASSUME NEW n \in 4..Len(b.todo)  PROVE StepRight(b, c, f, n)
  <2> DEFINE k == n - 2
  <2>1. k \in 2..Len(a.todo) /\ k + 2 = n /\ k \in 1..Len(a.todo)
        /\ k + 1 \in Nat \ {0, 1} /\ (k + 1) + 2 = n + 1 /\ n \in Nat
    <3>1. Len(a.todo) \in Nat /\ Len(b.todo) = Len(a.todo) + 2  BY <1>1
    <3>2. n \in Int /\ 4 <= n /\ n <= Len(a.todo) + 2  BY <3>1
    <3> QED  BY <3>1, <3>2
  <2>2. b.todo[n] = a.todo[k]  BY <1>1, <2>1
  <2> HIDE DEF k
  <2>3. StepRight(a, c, f, k)  BY <2>1 DEF CallRight
  <2>4. \A x : HeldFrom(b, n + 1, x) <=> HeldFrom(a, k + 1, x)
    <3> TAKE x
    <3>1. HeldFrom(b, (k + 1) + 2, x) <=> HeldFrom(a, k + 1, x)  BY <2>1, FreeHeld
    <3> QED  BY <3>1, <2>1
  <2>5. \A x : Keeps(b, c, f, x) = Keeps(a, c, f, x)  BY SameHere
  <2>6. \A m \in k + 1..Len(a.todo) : m + 2 \in n + 1..Len(b.todo) /\ b.todo[m + 2] = a.todo[m]
    <3> TAKE m \in k + 1..Len(a.todo)
    <3>1. m + 2 \in n + 1..Len(b.todo) /\ m \in 2..Len(a.todo)  BY <1>1, <2>1
    <3> QED  BY <3>1, <1>1
  <2> SUFFICES ASSUME NEW x \in Ino
      PROVE  /\ b.todo[n] \in {Lock(x), Update(x), <<"itrunc", x>>, <<"clear", x>>} =>
                    HeldFrom(b, n + 1, x)
             /\ b.todo[n] \in {Unlock(x), <<"drop", x>>} => ~HeldFrom(b, n + 1, x)
             /\ b.todo[n] = Unlock(x) =>
                    \/ Keeps(b, c, f, x) > 0
                    \/ \E m \in n + 1..Len(b.todo) : Gives(b.todo[m], x)
             /\ b.todo[n] = <<"drop", x>> =>
                    \A j \in 1..n - 1 : b.todo[j] \in {<<"itrunc", x>>, <<"clear", x>>}
             /\ b.todo[n] = <<"clear", x>> =>
                    \E m \in n + 1..Len(b.todo) : b.todo[m] = <<"drop", x>>
    BY DEF StepRight
  <2>7. b.todo[n] \in {Lock(x), Update(x), <<"itrunc", x>>, <<"clear", x>>} =>
            HeldFrom(b, n + 1, x)
    BY <2>2, <2>3, <2>4 DEF StepRight
  <2>8. b.todo[n] \in {Unlock(x), <<"drop", x>>} => ~HeldFrom(b, n + 1, x)
    BY <2>2, <2>3, <2>4 DEF StepRight
  <2>9. ASSUME b.todo[n] = Unlock(x), ~(Keeps(b, c, f, x) > 0)
        PROVE  \E m \in n + 1..Len(b.todo) : Gives(b.todo[m], x)
    <3>1. \E m \in k + 1..Len(a.todo) : Gives(a.todo[m], x)
      BY <2>2, <2>3, <2>5, <2>9 DEF StepRight
    <3> QED  BY <3>1, <2>6
  <2>10. b.todo[n] # <<"drop", x>>
    <3> SUFFICES ASSUME b.todo[n] = <<"drop", x>> PROVE FALSE  OBVIOUS
    <3>1. \A j \in 1..k - 1 : a.todo[j] \in {<<"itrunc", x>>, <<"clear", x>>}
      BY <2>2, <2>3 DEF StepRight
    <3>2. 1 \in 1..k - 1  BY <2>1
    <3>3. Put(i) \in {<<"itrunc", x>>, <<"clear", x>>}  BY <3>1, <3>2, <1>2
    <3> QED  BY <3>3 DEF Put
  <2>11. ASSUME b.todo[n] = <<"clear", x>>
         PROVE  \E m \in n + 1..Len(b.todo) : b.todo[m] = <<"drop", x>>
    <3>1. \E m \in k + 1..Len(a.todo) : a.todo[m] = <<"drop", x>>
      BY <2>2, <2>3, <2>11 DEF StepRight
    <3> QED  BY <3>1, <2>6
  <2> QED  BY <2>7, <2>8, <2>9, <2>10, <2>11
<1>9. \A n \in 1..Len(b.todo) : n \in {1, 2, 3} \/ n \in 4..Len(b.todo)  BY <1>1
<1>10. \A n \in 1..Len(b.todo) : StepRight(b, c, f, n)  BY <1>5, <1>6, <1>7, <1>8, <1>9
<1>11. b.call \in {"open", "create"} => f = None  BY DEF SameBut, CallRight
<1> QED  BY <1>3, <1>10, <1>11 DEF CallRight

-----------------------------------------------------------------------------
(* References of all processes.                                            *)

Bag(g) == UNION {{q} \X (1..g[q]) : q \in Proc}

LEMMA InBag ==
  ASSUME NEW g
  PROVE  \A x : x \in Bag(g) <=> \E q \in Proc : x \in {q} \X (1..g[q])
BY DEF Bag

LEMMA Slice ==
  ASSUME NEW q, NEW n \in Nat
  PROVE  IsFiniteSet({q} \X (1..n)) /\ Cardinality({q} \X (1..n)) = n
<1>1. IsFiniteSet({q}) /\ Cardinality({q}) = 1  BY FS_Singleton
<1>2. IsFiniteSet(1..n) /\ Cardinality(1..n) = n  BY FS_Interval
<1>3. /\ IsFiniteSet({q} \X (1..n))
      /\ Cardinality({q} \X (1..n)) = Cardinality({q}) * Cardinality(1..n)
  BY <1>1, <1>2, FS_Product
<1> QED  BY <1>1, <1>2, <1>3

LEMMA BagFinite ==
  ASSUME NEW g \in [Proc -> Nat]
  PROVE  IsFiniteSet(Bag(g)) /\ Cardinality(Bag(g)) \in Nat
<1> DEFINE S == {{q} \X (1..g[q]) : q \in Proc}
           F == [q \in Proc |-> {q} \X (1..g[q])]
<1>1. F \in Surjection(Proc, S)
  <2>1. F \in [Proc -> S]  OBVIOUS
  <2>2. \A t \in S : \E q \in Proc : F[q] = t  OBVIOUS
  <2> QED  BY <2>1, <2>2, Fun_IsSurj
<1>2. IsFiniteSet(Proc)  BY InodeAssumption
<1> HIDE DEF F
<1>3. IsFiniteSet(S)  BY <1>1, <1>2, FS_Surjection
<1>4. \A T \in S : IsFiniteSet(T)
  <2> TAKE T \in S
  <2>1. PICK q \in Proc : T = {q} \X (1..g[q])  OBVIOUS
  <2>2. g[q] \in Nat  OBVIOUS
  <2> QED  BY <2>1, <2>2, Slice
<1>5. IsFiniteSet(UNION S)  BY <1>3, <1>4, FS_UNION
<1>6. Bag(g) = UNION S  BY DEF Bag
<1> QED  BY <1>5, <1>6, FS_CardinalityType

Rest(g, p) == UNION {{q} \X (1..g[q]) : q \in Proc \ {p}}

LEMMA BagSplit ==
  ASSUME NEW g \in [Proc -> Nat], NEW p \in Proc
  PROVE  /\ IsFiniteSet(Rest(g, p)) /\ Cardinality(Rest(g, p)) \in Nat
         /\ Cardinality(Bag(g)) = Cardinality(Rest(g, p)) + g[p]
<1>1. \A x : x \in Rest(g, p) <=> \E q \in Proc : q # p /\ x \in {q} \X (1..g[q])
  BY DEF Rest
<1>2. \A x : x \in Bag(g) <=> x \in Rest(g, p) \/ x \in {p} \X (1..g[p])
  BY <1>1, InBag
<1>3. Rest(g, p) \cap ({p} \X (1..g[p])) = {}  BY <1>1
<1>4. Bag(g) = Rest(g, p) \cup ({p} \X (1..g[p]))  BY <1>2
<1>5. IsFiniteSet(Bag(g))  BY BagFinite
<1>6. Rest(g, p) \in SUBSET Bag(g)  BY <1>4
<1>7. IsFiniteSet(Rest(g, p)) /\ Cardinality(Rest(g, p)) \in Nat
  BY <1>5, <1>6, FS_Subset, FS_CardinalityType
<1>8. /\ IsFiniteSet({p} \X (1..g[p])) /\ Cardinality({p} \X (1..g[p])) = g[p] /\ g[p] \in Nat
  BY Slice
<1>9. Cardinality(Bag(g)) = Cardinality(Rest(g, p)) + g[p] - Cardinality({})
  BY <1>3, <1>4, <1>7, <1>8, FS_Union
<1> QED  BY <1>7, <1>8, <1>9, FS_EmptySet

LEMMA BagStep ==
  ASSUME NEW g \in [Proc -> Nat], NEW h \in [Proc -> Nat], NEW p \in Proc,
         \A q \in Proc : q # p => h[q] = g[q]
  PROVE  Cardinality(Bag(h)) = Cardinality(Bag(g)) - g[p] + h[p]
<1>1. \A x : x \in Rest(g, p) <=> \E q \in Proc : q # p /\ x \in {q} \X (1..g[q])
  BY DEF Rest
<1>2. \A x : x \in Rest(h, p) <=> \E q \in Proc : q # p /\ x \in {q} \X (1..h[q])
  BY DEF Rest
<1>3. \A q \in Proc : q # p => {q} \X (1..h[q]) = {q} \X (1..g[q])  OBVIOUS
<1>4. \A x : x \in Rest(h, p) <=> x \in Rest(g, p)  BY <1>1, <1>2, <1>3
<1>5. Rest(h, p) = Rest(g, p)  BY <1>4
<1>6. Cardinality(Bag(h)) = Cardinality(Rest(g, p)) + h[p] /\ h[p] \in Nat
  BY <1>5, BagSplit
<1>7. Cardinality(Bag(g)) = Cardinality(Rest(g, p)) + g[p] /\ g[p] \in Nat
  BY BagSplit
<1>8. Cardinality(Rest(g, p)) \in Nat  BY BagSplit
<1> QED  BY <1>6, <1>7, <1>8

LEMMA BagLeast ==
  ASSUME NEW g \in [Proc -> Nat], NEW p \in Proc
  PROVE  /\ g[p] <= Cardinality(Bag(g))
         /\ \A q \in Proc : q # p => g[p] + g[q] <= Cardinality(Bag(g))
<1>1. /\ Cardinality(Bag(g)) = Cardinality(Rest(g, p)) + g[p]
      /\ IsFiniteSet(Rest(g, p)) /\ Cardinality(Rest(g, p)) \in Nat /\ g[p] \in Nat
  BY BagSplit
<1>2. ASSUME NEW q \in Proc, q # p  PROVE g[p] + g[q] <= Cardinality(Bag(g))
  <2>1. {q} \X (1..g[q]) \subseteq Rest(g, p)  BY <1>2 DEF Rest
  <2>2. Cardinality({q} \X (1..g[q])) <= Cardinality(Rest(g, p))
    BY <2>1, <1>1, FS_Subset
  <2>3. Cardinality({q} \X (1..g[q])) = g[q] /\ g[q] \in Nat  BY Slice
  <2> QED  BY <1>1, <2>2, <2>3
<1>3. g[p] <= Cardinality(Bag(g))  BY <1>1
<1> QED  BY <1>2, <1>3

\* The types of what the references depend on.
Typed ==
    /\ at \in [Proc -> Calling]
    /\ cwd \in [Proc -> Ino] /\ file \in [Proc -> Ino \cup {None}]

Owned(i) == [p \in Proc |-> Owns(at[p], cwd[p], file[p], i)]

LEMMA OwnedIs ==
  ASSUME Typed, NEW i
  PROVE  /\ Owned(i) \in [Proc -> Nat]
         /\ \A p \in Proc : Owned(i)[p] = Owns(at[p], cwd[p], file[p], i)
         /\ References(i) = Bag(Owned(i))
<1>1. \A p \in Proc : at[p].todo \in Seq(Step)  BY DEF Typed, Calling
<1>2. \A p \in Proc : Owns(at[p], cwd[p], file[p], i) \in Nat  BY <1>1, OwnsNat
<1>3. \A p \in Proc : Owned(i)[p] = Owns(at[p], cwd[p], file[p], i)  BY DEF Owned
<1>4. Owned(i) \in [Proc -> Nat]  BY <1>2 DEF Owned
<1>5. \A x : x \in References(i) <=>
                 \E q \in Proc : x \in {q} \X (1..Owns(at[q], cwd[q], file[q], i))
  BY DEF References
<1>6. \A x : x \in References(i) <=> x \in Bag(Owned(i))  BY <1>3, <1>5, InBag
<1> QED  BY <1>3, <1>4, <1>6

LEMMA OwnedIsLater ==
  ASSUME Typed', NEW i
  PROVE  /\ Owned(i)' \in [Proc -> Nat]
         /\ \A p \in Proc : Owned(i)'[p] = Owns(at'[p], cwd'[p], file'[p], i)
         /\ References(i)' = Bag(Owned(i)')
<1>1. \A p \in Proc : at'[p].todo \in Seq(Step)  BY DEF Typed, Calling
<1>2. \A p \in Proc : Owns(at'[p], cwd'[p], file'[p], i) \in Nat  BY <1>1, OwnsNat
<1>3. \A p \in Proc : Owned(i)'[p] = Owns(at'[p], cwd'[p], file'[p], i)  BY DEF Owned
<1>4. Owned(i)' \in [Proc -> Nat]  BY <1>2 DEF Owned
<1>5. \A x : x \in References(i)' <=>
                 \E q \in Proc : x \in {q} \X (1..Owns(at'[q], cwd'[q], file'[q], i))
  BY DEF References
<1>6. \A x : x \in References(i)' <=> x \in Bag(Owned(i)')  BY <1>3, <1>5, InBag
<1> QED  BY <1>3, <1>4, <1>6

-----------------------------------------------------------------------------
(* What one process does to references and locks.                          *)

\* The call of p becomes b, its directory c and its file f.
Moves(p, b, c, f) ==
    /\ at' = [at EXCEPT ![p] = b]
    /\ cwd' = [cwd EXCEPT ![p] = c]
    /\ file' = [file EXCEPT ![p] = f]

Rights == \A p \in Proc : CallRight(at[p], cwd[p], file[p])

LEMMA Moved ==
  ASSUME Typed, NEW p \in Proc, NEW b \in Calling, NEW c \in Ino, NEW f \in Ino \cup {None},
         Moves(p, b, c, f)
  PROVE  /\ Typed'
         /\ at'[p] = b /\ cwd'[p] = c /\ file'[p] = f
         /\ \A q \in Proc : q # p => at'[q] = at[q] /\ cwd'[q] = cwd[q] /\ file'[q] = file[q]
<1>1. at' \in [Proc -> Calling] /\ at'[p] = b /\ \A q \in Proc : q # p => at'[q] = at[q]
  BY DEF Typed, Moves
<1>2. cwd' \in [Proc -> Ino] /\ cwd'[p] = c /\ \A q \in Proc : q # p => cwd'[q] = cwd[q]
  BY DEF Typed, Moves
<1>3. /\ file' \in [Proc -> Ino \cup {None}] /\ file'[p] = f
      /\ \A q \in Proc : q # p => file'[q] = file[q]
  BY DEF Typed, Moves
<1> QED  BY <1>1, <1>2, <1>3 DEF Typed

LEMMA RightsMove ==
  ASSUME Typed, Rights, NEW p \in Proc, NEW b \in Calling, NEW c \in Ino,
         NEW f \in Ino \cup {None}, Moves(p, b, c, f), CallRight(b, c, f)
  PROVE  Rights'
<1>1. /\ at'[p] = b /\ cwd'[p] = c /\ file'[p] = f
      /\ \A q \in Proc : q # p => at'[q] = at[q] /\ cwd'[q] = cwd[q] /\ file'[q] = file[q]
  BY Moved
<1>2. \A q \in Proc : q = p => CallRight(at'[q], cwd'[q], file'[q])  BY <1>1
<1>3. \A q \in Proc : q # p => CallRight(at'[q], cwd'[q], file'[q])  BY <1>1 DEF Rights
<1> QED  BY <1>2, <1>3 DEF Rights

LEMMA RefsMove ==
  ASSUME Typed, Refs, NEW p \in Proc, NEW b \in Calling, NEW c \in Ino,
         NEW f \in Ino \cup {None}, Moves(p, b, c, f), ref' \in [Ino -> Int],
         \A i \in Ino :
             ref'[i] = ref[i] + Owns(b, c, f, i) - Owns(at[p], cwd[p], file[p], i)
  PROVE  Refs' /\ ref' \in [Ino -> Nat]
<1>1. /\ Typed'
      /\ at'[p] = b /\ cwd'[p] = c /\ file'[p] = f
      /\ \A q \in Proc : q # p => at'[q] = at[q] /\ cwd'[q] = cwd[q] /\ file'[q] = file[q]
  BY Moved
<1>2. ASSUME NEW i \in Ino
      PROVE  ref'[i] = Cardinality(References(i)') /\ Cardinality(References(i)') \in Nat
  <2>1. PICK g : g = Owned(i)  OBVIOUS
  <2>2. PICK h : h = Owned(i)'  OBVIOUS
  <2>3. /\ g \in [Proc -> Nat] /\ References(i) = Bag(g)
        /\ \A q \in Proc : g[q] = Owns(at[q], cwd[q], file[q], i)
    BY <2>1, OwnedIs
  <2>4. /\ h \in [Proc -> Nat] /\ References(i)' = Bag(h)
        /\ \A q \in Proc : h[q] = Owns(at'[q], cwd'[q], file'[q], i)
    BY <2>2, <1>1, OwnedIsLater
  <2>5. \A q \in Proc : q # p => h[q] = g[q]  BY <1>1, <2>3, <2>4
  <2>6. Cardinality(Bag(h)) = Cardinality(Bag(g)) - g[p] + h[p]  BY <2>3, <2>4, <2>5, BagStep
  <2>7. ref[i] = Cardinality(Bag(g))  BY <2>3 DEF Refs
  <2>8. g[p] = Owns(at[p], cwd[p], file[p], i) /\ h[p] = Owns(b, c, f, i)
    BY <1>1, <2>3, <2>4
  <2>9. Cardinality(Bag(g)) \in Nat /\ Cardinality(Bag(h)) \in Nat  BY <2>3, <2>4, BagFinite
  <2>10. g[p] \in Nat /\ h[p] \in Nat  BY <2>3, <2>4
  <2>11. ref'[i] = ref[i] + h[p] - g[p]  BY <2>8
  <2>12. ref'[i] = Cardinality(Bag(h))  BY <2>6, <2>7, <2>9, <2>10, <2>11
  <2> QED  BY <2>4, <2>9, <2>12
<1>3. Refs'  BY <1>2 DEF Refs
<1>4. \A i \in Ino : ref'[i] \in Nat  BY <1>2
<1> QED  BY <1>3, <1>4

LEMMA LocksMove ==
  ASSUME Typed, Locks, NEW p \in Proc, NEW b \in Calling, NEW c \in Ino,
         NEW f \in Ino \cup {None}, Moves(p, b, c, f),
         \A i \in Ino : i \in busy' <=> Holds(b, i) \/ (i \in busy /\ ~Holds(at[p], i)),
         \A i \in Ino : Holds(b, i) => Holds(at[p], i) \/ i \notin busy
  PROVE  Locks'
<1>1. /\ at'[p] = b
      /\ \A q \in Proc : q # p => at'[q] = at[q]
  BY Moved
<1>2. ASSUME NEW i \in Ino
      PROVE  i \in busy' <=> \E q \in Proc : Holds(at'[q], i)
  <2>1. ASSUME i \in busy'  PROVE \E q \in Proc : Holds(at'[q], i)
    <3>1. CASE Holds(b, i)  BY <3>1, <1>1
    <3>2. CASE i \in busy /\ ~Holds(at[p], i)
      <4>1. PICK q \in Proc : Holds(at[q], i)  BY <3>2 DEF Locks
      <4>2. q # p  BY <3>2, <4>1
      <4> QED  BY <4>1, <4>2, <1>1
    <3> QED  BY <2>1, <3>1, <3>2
  <2>2. ASSUME NEW q \in Proc, Holds(at'[q], i)  PROVE i \in busy'
    <3>1. CASE q = p  BY <3>1, <2>2, <1>1
    <3>2. CASE q # p
      <4>1. Holds(at[q], i)  BY <3>2, <2>2, <1>1
      <4>2. i \in busy  BY <4>1 DEF Locks
      <4>3. ~Holds(at[p], i)  BY <3>2, <4>1 DEF Locks
      <4> QED  BY <4>2, <4>3
    <3> QED  BY <3>1, <3>2
  <2> QED  BY <2>1, <2>2
<1>3. ASSUME NEW q \in Proc, NEW r \in Proc, NEW i \in Ino, Holds(at'[q], i), Holds(at'[r], i)
      PROVE  q = r
  <2>1. \A x \in Proc : x # p => at'[x] = at[x]  BY <1>1
  <2>2. ASSUME NEW x \in Proc, x # p, Holds(at'[x], i), Holds(b, i)  PROVE FALSE
    <3>1. Holds(at[x], i)  BY <2>1, <2>2
    <3>2. i \in busy  BY <3>1 DEF Locks
    <3>3. Holds(at[p], i)  BY <2>2, <3>2
    <3> QED  BY <2>2, <3>1, <3>3 DEF Locks
  <2>3. CASE q # p /\ r # p  BY <2>1, <2>3, <1>3 DEF Locks
  <2>4. CASE q = p /\ r # p  BY <2>2, <2>4, <1>1, <1>3
  <2>5. CASE q # p /\ r = p  BY <2>2, <2>5, <1>1, <1>3
  <2> QED  BY <2>3, <2>4, <2>5
<1> QED  BY <1>2, <1>3 DEF Locks

LEMMA HolderOwns ==
  ASSUME Typed, Rights, Refs, NEW p \in Proc, NEW i \in Ino, Holds(at[p], i)
  PROVE  Owns(at[p], cwd[p], file[p], i) > 0
<1>1. at[p].todo \in Seq(Step) /\ CallRight(at[p], cwd[p], file[p])
  BY DEF Typed, Rights, Calling
<1> QED  BY <1>1, HeldOwned

LEMMA OwnsRefs ==
  ASSUME Typed, Refs, NEW p \in Proc, NEW i \in Ino
  PROVE  /\ Owns(at[p], cwd[p], file[p], i) \in Nat /\ ref[i] \in Nat
         /\ Owns(at[p], cwd[p], file[p], i) <= ref[i]
         /\ \A q \in Proc : q # p =>
                Owns(at[p], cwd[p], file[p], i) + Owns(at[q], cwd[q], file[q], i) <= ref[i]
<1>1. PICK g : g = Owned(i)  OBVIOUS
<1>2. /\ g \in [Proc -> Nat] /\ References(i) = Bag(g)
      /\ \A q \in Proc : g[q] = Owns(at[q], cwd[q], file[q], i)
  BY <1>1, OwnedIs
<1>3. ref[i] = Cardinality(Bag(g))  BY <1>2 DEF Refs
<1>4. Cardinality(Bag(g)) \in Nat  BY <1>2, BagFinite
<1>5. /\ g[p] <= Cardinality(Bag(g))
      /\ \A q \in Proc : q # p => g[p] + g[q] <= Cardinality(Bag(g))
  BY <1>2, BagLeast
<1> QED  BY <1>2, <1>3, <1>4, <1>5

LEMMA BusyReferred ==
  ASSUME Typed', Rights', Refs', Locks', NEW i \in Ino, i \in busy'
  PROVE  ref'[i] > 0
<1>1. PICK p \in Proc : Holds(at'[p], i)  BY DEF Locks
<1>2. at'[p].todo \in Seq(Step) /\ CallRight(at'[p], cwd'[p], file'[p])
  BY DEF Typed, Rights, Calling
<1>3. Owns(at'[p], cwd'[p], file'[p], i) > 0  BY <1>1, <1>2, HeldOwned
<1>4. PICK g : g = Owned(i)'  OBVIOUS
<1>5. /\ g \in [Proc -> Nat] /\ References(i)' = Bag(g)
      /\ g[p] = Owns(at'[p], cwd'[p], file'[p], i)
  BY <1>4, OwnedIsLater
<1>6. ref'[i] = Cardinality(Bag(g))  BY <1>5 DEF Refs
<1>7. Cardinality(Bag(g)) \in Nat  BY <1>5, BagFinite
<1>8. g[p] <= Cardinality(Bag(g)) /\ g[p] \in Nat  BY <1>5, BagLeast
<1> QED  BY <1>3, <1>5, <1>6, <1>7, <1>8

-----------------------------------------------------------------------------
(* The micro-steps that calls are given, one lemma for each form: they are *)
(* right, and this is what they mean for the locks and references of j.    *)

StepsRight(b, c, f) == \A k \in 1..Len(b.todo) : StepRight(b, c, f, k)

Same(i, j) == One(i = j)

\* The micro-steps of b are these.
Does1(b, x) == b.todo = <<x>>
Does2(b, x, y) == b.todo = <<x, y>>
Does3(b, x, y, z) == b.todo = <<x, y, z>>
Does4(b, w, x, y, z) == b.todo = <<w, x, y, z>>

LEMMA Form0 ==
  ASSUME NEW b, NEW c, NEW f, b.todo = <<>>
  PROVE  /\ StepsRight(b, c, f) /\ b.todo \in Seq(Step)
         /\ \A j \in Ino : /\ HeldFrom(b, 1, j) <=> LockedAt(b, j)
                           /\ Cardinality(GivesOf(b.todo, j)) = 0
<1>1. b.todo \in Seq(Step) /\ Len(b.todo) = 0  BY EmptySeq
<1>2. 1..Len(b.todo) = {}  BY <1>1
<1> QED  BY <1>1, <1>2, Plan0 DEF StepsRight

LEMMA FormLock ==
  ASSUME NEW b, NEW c, NEW f, NEW i \in Ino, Does1(b, Lock(i)), LockedAt(b, i)
  PROVE  /\ StepsRight(b, c, f) /\ b.todo \in Seq(Step)
         /\ \A j \in Ino : /\ HeldFrom(b, 1, j) <=> i # j /\ LockedAt(b, j)
                           /\ Cardinality(GivesOf(b.todo, j)) = 0
<1>0. b.todo = <<Lock(i)>>  BY DEF Does1
<1>1. Lock(i) \in Step  BY Ops
<1>2. b.todo \in Seq(Step) /\ Len(b.todo) = 1 /\ b.todo[1] = Lock(i)  BY <1>0, <1>1, Plan1
<1>3. ASSUME NEW j \in Ino
      PROVE  /\ HeldFrom(b, 2, j) <=> LockedAt(b, j)
             /\ HeldFrom(b, 1, j) <=> i # j /\ LockedAt(b, j)
             /\ Cardinality(GivesOf(b.todo, j)) = 0
  <2>1. /\ HeldFrom(b, 2, j) <=> LockedAt(b, j)
        /\ HeldFrom(b, 1, j) <=> Releases(Lock(i), j) \/ (~Takes(Lock(i), j) /\ HeldFrom(b, 2, j))
        /\ Cardinality(GivesOf(b.todo, j)) = One(Gives(Lock(i), j))
    BY <1>0, <1>1, Plan1
  <2>2. (Takes(Lock(i), j) <=> i = j) /\ ~Releases(Lock(i), j) /\ ~Gives(Lock(i), j)  BY Ops
  <2>3. One(Gives(Lock(i), j)) = 0  BY <2>2 DEF One
  <2> QED  BY <2>1, <2>2, <2>3
<1>4. HeldFrom(b, 1 + 1, i)  BY <1>3
<1>5. StepRight(b, c, f, 1)  BY <1>2, <1>4, RightLock
<1>6. \A k \in 1..Len(b.todo) : k = 1  BY <1>2
<1> QED  BY <1>2, <1>3, <1>5, <1>6 DEF StepsRight

LEMMA FormUpdate ==
  ASSUME NEW b, NEW c, NEW f, NEW i \in Ino,
         Does1(b, Update(i)),
         LockedAt(b, i)
  PROVE  /\ StepsRight(b, c, f) /\ b.todo \in Seq(Step)
         /\ \A j \in Ino : /\ HeldFrom(b, 1, j) <=> LockedAt(b, j)
                           /\ Cardinality(GivesOf(b.todo, j)) = 0
<1>0. b.todo = <<Update(i)>>  BY DEF Does1
<1>1. Update(i) \in Step  BY Ops
<1>2. /\ b.todo \in Seq(Step) /\ Len(b.todo) = 1
      /\ b.todo[1] = Update(i)
  BY <1>0, <1>1, Plan1
<1>3. ASSUME NEW j \in Ino
      PROVE  /\ HeldFrom(b, 2, j) <=> LockedAt(b, j)
             /\ HeldFrom(b, 1, j) <=> HeldFrom(b, 2, j)
             /\ Cardinality(GivesOf(b.todo, j)) = 0
  <2>1. /\ HeldFrom(b, 2, j) <=> LockedAt(b, j)
        /\ HeldFrom(b, 1, j) <=> Releases(Update(i), j) \/ (~Takes(Update(i), j) /\ HeldFrom(b, 2, j))
        /\ Cardinality(GivesOf(b.todo, j)) = One(Gives(Update(i), j))
    BY <1>0, <1>1, Plan1
  <2>2. ~Takes(Update(i), j) /\ ~Releases(Update(i), j) /\ ~Gives(Update(i), j)  BY Ops
  <2>3. One(Gives(Update(i), j)) = 0
    BY <2>2 DEF One
  <2>4. Cardinality(GivesOf(b.todo, j)) = 0  BY <2>1, <2>3
  <2> QED  BY <2>1, <2>2, <2>4
<1>4. StepRight(b, c, f, 1)
  <2>1. HeldFrom(b, 1 + 1, i)  BY <1>3
  <2> QED  BY <1>2, <2>1, RightUpdate
<1>5. \A k \in 1..Len(b.todo) : k \in {1}  BY <1>2
<1> QED  BY <1>2, <1>3, <1>4, <1>5 DEF StepsRight

LEMMA FormUnlock ==
  ASSUME NEW b, NEW c, NEW f, NEW i \in Ino,
         Does1(b, Unlock(i)),
         ~LockedAt(b, i), Keeps(b, c, f, i) > 0
  PROVE  /\ StepsRight(b, c, f) /\ b.todo \in Seq(Step)
         /\ \A j \in Ino : /\ HeldFrom(b, 1, j) <=> i = j \/ LockedAt(b, j)
                           /\ Cardinality(GivesOf(b.todo, j)) = 0
<1>0. b.todo = <<Unlock(i)>>  BY DEF Does1
<1>1. Unlock(i) \in Step  BY Ops
<1>2. /\ b.todo \in Seq(Step) /\ Len(b.todo) = 1
      /\ b.todo[1] = Unlock(i)
  BY <1>0, <1>1, Plan1
<1>3. ASSUME NEW j \in Ino
      PROVE  /\ HeldFrom(b, 2, j) <=> LockedAt(b, j)
             /\ HeldFrom(b, 1, j) <=> i = j \/ HeldFrom(b, 2, j)
             /\ Cardinality(GivesOf(b.todo, j)) = 0
  <2>1. /\ HeldFrom(b, 2, j) <=> LockedAt(b, j)
        /\ HeldFrom(b, 1, j) <=> Releases(Unlock(i), j) \/ (~Takes(Unlock(i), j) /\ HeldFrom(b, 2, j))
        /\ Cardinality(GivesOf(b.todo, j)) = One(Gives(Unlock(i), j))
    BY <1>0, <1>1, Plan1
  <2>2. (Releases(Unlock(i), j) <=> i = j) /\ ~Takes(Unlock(i), j) /\ ~Gives(Unlock(i), j)  BY Ops
  <2>3. One(Gives(Unlock(i), j)) = 0
    BY <2>2 DEF One
  <2>4. Cardinality(GivesOf(b.todo, j)) = 0  BY <2>1, <2>3
  <2> QED  BY <2>1, <2>2, <2>4
<1>4. StepRight(b, c, f, 1)
  <2>1. ~HeldFrom(b, 1 + 1, i)  BY <1>3
  <2> QED  BY <1>2, <2>1, RightUnlock
<1>5. \A k \in 1..Len(b.todo) : k \in {1}  BY <1>2
<1> QED  BY <1>2, <1>3, <1>4, <1>5 DEF StepsRight

LEMMA FormPut ==
  ASSUME NEW b, NEW c, NEW f, NEW i \in Ino,
         Does1(b, Put(i))
  PROVE  /\ StepsRight(b, c, f) /\ b.todo \in Seq(Step)
         /\ \A j \in Ino : /\ HeldFrom(b, 1, j) <=> LockedAt(b, j)
                           /\ Cardinality(GivesOf(b.todo, j)) = Same(i, j)
<1>0. b.todo = <<Put(i)>>  BY DEF Does1
<1>1. Put(i) \in Step  BY Ops
<1>2. /\ b.todo \in Seq(Step) /\ Len(b.todo) = 1
      /\ b.todo[1] = Put(i)
  BY <1>0, <1>1, Plan1
<1>3. ASSUME NEW j \in Ino
      PROVE  /\ HeldFrom(b, 2, j) <=> LockedAt(b, j)
             /\ HeldFrom(b, 1, j) <=> HeldFrom(b, 2, j)
             /\ Cardinality(GivesOf(b.todo, j)) = One(i = j)
  <2>1. /\ HeldFrom(b, 2, j) <=> LockedAt(b, j)
        /\ HeldFrom(b, 1, j) <=> Releases(Put(i), j) \/ (~Takes(Put(i), j) /\ HeldFrom(b, 2, j))
        /\ Cardinality(GivesOf(b.todo, j)) = One(Gives(Put(i), j))
    BY <1>0, <1>1, Plan1
  <2>2. (Gives(Put(i), j) <=> i = j) /\ ~Takes(Put(i), j) /\ ~Releases(Put(i), j)  BY Ops
  <2>3. One(Gives(Put(i), j)) = One(i = j) /\ One(i = j) \in Nat
    BY <2>2 DEF One
  <2>4. Cardinality(GivesOf(b.todo, j)) = One(i = j)  BY <2>1, <2>3
  <2> QED  BY <2>1, <2>2, <2>4
<1>4. StepRight(b, c, f, 1)  BY <1>2, RightPut
<1>5. \A k \in 1..Len(b.todo) : k \in {1}  BY <1>2
<1> QED  BY <1>2, <1>3, <1>4, <1>5 DEF StepsRight, Same

LEMMA FormUnlockPut ==
  ASSUME NEW b, NEW c, NEW f, NEW i \in Ino, NEW k \in Ino,
         Does2(b, Unlock(i), Put(k)),
         ~LockedAt(b, i), i = k \/ Keeps(b, c, f, i) > 0
  PROVE  /\ StepsRight(b, c, f) /\ b.todo \in Seq(Step)
         /\ \A j \in Ino : /\ HeldFrom(b, 1, j) <=> i = j \/ LockedAt(b, j)
                           /\ Cardinality(GivesOf(b.todo, j)) = Same(k, j)
<1>0. b.todo = <<Unlock(i), Put(k)>>  BY DEF Does2
<1>1. Unlock(i) \in Step /\ Put(k) \in Step  BY Ops
<1>2. /\ b.todo \in Seq(Step) /\ Len(b.todo) = 2
      /\ b.todo[1] = Unlock(i) /\ b.todo[2] = Put(k)
  BY <1>0, <1>1, Plan2
<1>3. ASSUME NEW j \in Ino
      PROVE  /\ HeldFrom(b, 3, j) <=> LockedAt(b, j)
             /\ HeldFrom(b, 2, j) <=> HeldFrom(b, 3, j)
             /\ HeldFrom(b, 1, j) <=> i = j \/ HeldFrom(b, 2, j)
             /\ Cardinality(GivesOf(b.todo, j)) = One(k = j)
  <2>1. /\ HeldFrom(b, 3, j) <=> LockedAt(b, j)
        /\ HeldFrom(b, 2, j) <=> Releases(Put(k), j) \/ (~Takes(Put(k), j) /\ HeldFrom(b, 3, j))
        /\ HeldFrom(b, 1, j) <=> Releases(Unlock(i), j) \/ (~Takes(Unlock(i), j) /\ HeldFrom(b, 2, j))
        /\ Cardinality(GivesOf(b.todo, j)) = One(Gives(Unlock(i), j)) + One(Gives(Put(k), j))
    BY <1>0, <1>1, Plan2
  <2>2. (Releases(Unlock(i), j) <=> i = j) /\ ~Takes(Unlock(i), j) /\ ~Gives(Unlock(i), j)  BY Ops
  <2>3. (Gives(Put(k), j) <=> k = j) /\ ~Takes(Put(k), j) /\ ~Releases(Put(k), j)  BY Ops
  <2>4. One(Gives(Unlock(i), j)) = 0 /\ One(Gives(Put(k), j)) = One(k = j) /\ One(k = j) \in Nat
    BY <2>2, <2>3 DEF One
  <2>5. Cardinality(GivesOf(b.todo, j)) = One(k = j)  BY <2>1, <2>4
  <2> QED  BY <2>1, <2>2, <2>3, <2>5
<1>4. StepRight(b, c, f, 1)
  <2>1. ~HeldFrom(b, 1 + 1, i)  BY <1>3
  <2>2. ASSUME i = k  PROVE \E m \in 1 + 1..Len(b.todo) : Gives(b.todo[m], i)
    <3>1. 2 \in 1 + 1..Len(b.todo)  BY <1>2
    <3>2. Gives(Put(k), i)  BY <2>2, Ops
    <3> QED  BY <1>2, <3>1, <3>2
  <2> QED  BY <1>2, <2>1, <2>2, RightUnlock
<1>5. StepRight(b, c, f, 2)  BY <1>2, RightPut
<1>6. \A n \in 1..Len(b.todo) : n \in {1, 2}  BY <1>2
<1> QED  BY <1>2, <1>3, <1>4, <1>5, <1>6 DEF StepsRight, Same

LEMMA FormLockUnlock ==
  ASSUME NEW b, NEW c, NEW f, NEW i \in Ino,
         Does2(b, Lock(i), Unlock(i)),
         ~LockedAt(b, i), Keeps(b, c, f, i) > 0
  PROVE  /\ StepsRight(b, c, f) /\ b.todo \in Seq(Step)
         /\ \A j \in Ino : /\ HeldFrom(b, 1, j) <=> i # j /\ LockedAt(b, j)
                           /\ Cardinality(GivesOf(b.todo, j)) = 0
<1>0. b.todo = <<Lock(i), Unlock(i)>>  BY DEF Does2
<1>1. Lock(i) \in Step /\ Unlock(i) \in Step  BY Ops
<1>2. /\ b.todo \in Seq(Step) /\ Len(b.todo) = 2
      /\ b.todo[1] = Lock(i) /\ b.todo[2] = Unlock(i)
  BY <1>0, <1>1, Plan2
<1>3. ASSUME NEW j \in Ino
      PROVE  /\ HeldFrom(b, 3, j) <=> LockedAt(b, j)
             /\ HeldFrom(b, 2, j) <=> i = j \/ HeldFrom(b, 3, j)
             /\ HeldFrom(b, 1, j) <=> i # j /\ HeldFrom(b, 2, j)
             /\ Cardinality(GivesOf(b.todo, j)) = 0
  <2>1. /\ HeldFrom(b, 3, j) <=> LockedAt(b, j)
        /\ HeldFrom(b, 2, j) <=> Releases(Unlock(i), j) \/ (~Takes(Unlock(i), j) /\ HeldFrom(b, 3, j))
        /\ HeldFrom(b, 1, j) <=> Releases(Lock(i), j) \/ (~Takes(Lock(i), j) /\ HeldFrom(b, 2, j))
        /\ Cardinality(GivesOf(b.todo, j)) = One(Gives(Lock(i), j)) + One(Gives(Unlock(i), j))
    BY <1>0, <1>1, Plan2
  <2>2. (Takes(Lock(i), j) <=> i = j) /\ ~Releases(Lock(i), j) /\ ~Gives(Lock(i), j)  BY Ops
  <2>3. (Releases(Unlock(i), j) <=> i = j) /\ ~Takes(Unlock(i), j) /\ ~Gives(Unlock(i), j)  BY Ops
  <2>4. One(Gives(Lock(i), j)) = 0 /\ One(Gives(Unlock(i), j)) = 0
    BY <2>2, <2>3 DEF One
  <2>5. Cardinality(GivesOf(b.todo, j)) = 0  BY <2>1, <2>4
  <2> QED  BY <2>1, <2>2, <2>3, <2>5
<1>4. StepRight(b, c, f, 1)
  <2>1. HeldFrom(b, 1 + 1, i)  BY <1>3
  <2> QED  BY <1>2, <2>1, RightLock
<1>5. StepRight(b, c, f, 2)
  <2>1. ~HeldFrom(b, 2 + 1, i)  BY <1>3
  <2> QED  BY <1>2, <2>1, RightUnlock
<1>6. \A k \in 1..Len(b.todo) : k \in {1, 2}  BY <1>2
<1> QED  BY <1>2, <1>3, <1>4, <1>5, <1>6 DEF StepsRight

LEMMA FormUnlockLock ==
  ASSUME NEW b, NEW c, NEW f, NEW i \in Ino,
         Does2(b, Unlock(i), Lock(i)),
         LockedAt(b, i), Keeps(b, c, f, i) > 0
  PROVE  /\ StepsRight(b, c, f) /\ b.todo \in Seq(Step)
         /\ \A j \in Ino : /\ HeldFrom(b, 1, j) <=> i = j \/ LockedAt(b, j)
                           /\ Cardinality(GivesOf(b.todo, j)) = 0
<1>0. b.todo = <<Unlock(i), Lock(i)>>  BY DEF Does2
<1>1. Unlock(i) \in Step /\ Lock(i) \in Step  BY Ops
<1>2. /\ b.todo \in Seq(Step) /\ Len(b.todo) = 2
      /\ b.todo[1] = Unlock(i) /\ b.todo[2] = Lock(i)
  BY <1>0, <1>1, Plan2
<1>3. ASSUME NEW j \in Ino
      PROVE  /\ HeldFrom(b, 3, j) <=> LockedAt(b, j)
             /\ HeldFrom(b, 2, j) <=> i # j /\ HeldFrom(b, 3, j)
             /\ HeldFrom(b, 1, j) <=> i = j \/ HeldFrom(b, 2, j)
             /\ Cardinality(GivesOf(b.todo, j)) = 0
  <2>1. /\ HeldFrom(b, 3, j) <=> LockedAt(b, j)
        /\ HeldFrom(b, 2, j) <=> Releases(Lock(i), j) \/ (~Takes(Lock(i), j) /\ HeldFrom(b, 3, j))
        /\ HeldFrom(b, 1, j) <=> Releases(Unlock(i), j) \/ (~Takes(Unlock(i), j) /\ HeldFrom(b, 2, j))
        /\ Cardinality(GivesOf(b.todo, j)) = One(Gives(Unlock(i), j)) + One(Gives(Lock(i), j))
    BY <1>0, <1>1, Plan2
  <2>2. (Releases(Unlock(i), j) <=> i = j) /\ ~Takes(Unlock(i), j) /\ ~Gives(Unlock(i), j)  BY Ops
  <2>3. (Takes(Lock(i), j) <=> i = j) /\ ~Releases(Lock(i), j) /\ ~Gives(Lock(i), j)  BY Ops
  <2>4. One(Gives(Unlock(i), j)) = 0 /\ One(Gives(Lock(i), j)) = 0
    BY <2>2, <2>3 DEF One
  <2>5. Cardinality(GivesOf(b.todo, j)) = 0  BY <2>1, <2>4
  <2> QED  BY <2>1, <2>2, <2>3, <2>5
<1>4. StepRight(b, c, f, 1)
  <2>1. ~HeldFrom(b, 1 + 1, i)  BY <1>3
  <2> QED  BY <1>2, <2>1, RightUnlock
<1>5. StepRight(b, c, f, 2)
  <2>1. HeldFrom(b, 2 + 1, i)  BY <1>3
  <2> QED  BY <1>2, <2>1, RightLock
<1>6. \A k \in 1..Len(b.todo) : k \in {1, 2}  BY <1>2
<1> QED  BY <1>2, <1>3, <1>4, <1>5, <1>6 DEF StepsRight

LEMMA FormPutLock ==
  ASSUME NEW b, NEW c, NEW f, NEW e \in Ino, NEW i \in Ino,
         Does2(b, Put(e), Lock(i)), LockedAt(b, i)
  PROVE  /\ StepsRight(b, c, f) /\ b.todo \in Seq(Step)
         /\ \A j \in Ino : /\ HeldFrom(b, 1, j) <=> i # j /\ LockedAt(b, j)
                           /\ Cardinality(GivesOf(b.todo, j)) = Same(e, j)
<1>0. b.todo = <<Put(e), Lock(i)>>  BY DEF Does2
<1>1. Put(e) \in Step /\ Lock(i) \in Step  BY Ops
<1>2. /\ b.todo \in Seq(Step) /\ Len(b.todo) = 2
      /\ b.todo[1] = Put(e) /\ b.todo[2] = Lock(i)
  BY <1>0, <1>1, Plan2
<1>3. ASSUME NEW j \in Ino
      PROVE  /\ HeldFrom(b, 3, j) <=> LockedAt(b, j)
             /\ HeldFrom(b, 1, j) <=> i # j /\ HeldFrom(b, 3, j)
             /\ Cardinality(GivesOf(b.todo, j)) = One(e = j)
  <2>1. /\ HeldFrom(b, 3, j) <=> LockedAt(b, j)
        /\ HeldFrom(b, 2, j) <=> Releases(Lock(i), j) \/ (~Takes(Lock(i), j) /\ HeldFrom(b, 3, j))
        /\ HeldFrom(b, 1, j) <=> Releases(Put(e), j) \/ (~Takes(Put(e), j) /\ HeldFrom(b, 2, j))
        /\ Cardinality(GivesOf(b.todo, j)) = One(Gives(Put(e), j)) + One(Gives(Lock(i), j))
    BY <1>0, <1>1, Plan2
  <2>2. (Gives(Put(e), j) <=> e = j) /\ ~Takes(Put(e), j) /\ ~Releases(Put(e), j)  BY Ops
  <2>3. (Takes(Lock(i), j) <=> i = j) /\ ~Releases(Lock(i), j) /\ ~Gives(Lock(i), j)  BY Ops
  <2>4. One(Gives(Put(e), j)) = One(e = j) /\ One(Gives(Lock(i), j)) = 0 /\ One(e = j) \in Nat
    BY <2>2, <2>3 DEF One
  <2>5. Cardinality(GivesOf(b.todo, j)) = One(e = j)  BY <2>1, <2>4
  <2> QED  BY <2>1, <2>2, <2>3, <2>5
<1>4. StepRight(b, c, f, 1)  BY <1>2, RightPut
<1>5. StepRight(b, c, f, 2)
  <2>1. HeldFrom(b, 2 + 1, i)  BY <1>3
  <2> QED  BY <1>2, <2>1, RightLock
<1>6. \A k \in 1..Len(b.todo) : k \in {1, 2}  BY <1>2
<1> QED  BY <1>2, <1>3, <1>4, <1>5, <1>6 DEF StepsRight, Same

LEMMA FormUpdateUnlock ==
  ASSUME NEW b, NEW c, NEW f, NEW i \in Ino,
         Does2(b, Update(i), Unlock(i)),
         ~LockedAt(b, i), Keeps(b, c, f, i) > 0
  PROVE  /\ StepsRight(b, c, f) /\ b.todo \in Seq(Step)
         /\ \A j \in Ino : /\ HeldFrom(b, 1, j) <=> i = j \/ LockedAt(b, j)
                           /\ Cardinality(GivesOf(b.todo, j)) = 0
<1>0. b.todo = <<Update(i), Unlock(i)>>  BY DEF Does2
<1>1. Update(i) \in Step /\ Unlock(i) \in Step  BY Ops
<1>2. /\ b.todo \in Seq(Step) /\ Len(b.todo) = 2
      /\ b.todo[1] = Update(i) /\ b.todo[2] = Unlock(i)
  BY <1>0, <1>1, Plan2
<1>3. ASSUME NEW j \in Ino
      PROVE  /\ HeldFrom(b, 3, j) <=> LockedAt(b, j)
             /\ HeldFrom(b, 2, j) <=> i = j \/ HeldFrom(b, 3, j)
             /\ HeldFrom(b, 1, j) <=> HeldFrom(b, 2, j)
             /\ Cardinality(GivesOf(b.todo, j)) = 0
  <2>1. /\ HeldFrom(b, 3, j) <=> LockedAt(b, j)
        /\ HeldFrom(b, 2, j) <=> Releases(Unlock(i), j) \/ (~Takes(Unlock(i), j) /\ HeldFrom(b, 3, j))
        /\ HeldFrom(b, 1, j) <=> Releases(Update(i), j) \/ (~Takes(Update(i), j) /\ HeldFrom(b, 2, j))
        /\ Cardinality(GivesOf(b.todo, j)) = One(Gives(Update(i), j)) + One(Gives(Unlock(i), j))
    BY <1>0, <1>1, Plan2
  <2>2. ~Takes(Update(i), j) /\ ~Releases(Update(i), j) /\ ~Gives(Update(i), j)  BY Ops
  <2>3. (Releases(Unlock(i), j) <=> i = j) /\ ~Takes(Unlock(i), j) /\ ~Gives(Unlock(i), j)  BY Ops
  <2>4. One(Gives(Update(i), j)) = 0 /\ One(Gives(Unlock(i), j)) = 0
    BY <2>2, <2>3 DEF One
  <2>5. Cardinality(GivesOf(b.todo, j)) = 0  BY <2>1, <2>4
  <2> QED  BY <2>1, <2>2, <2>3, <2>5
<1>4. StepRight(b, c, f, 1)
  <2>1. HeldFrom(b, 1 + 1, i)  BY <1>3
  <2> QED  BY <1>2, <2>1, RightUpdate
<1>5. StepRight(b, c, f, 2)
  <2>1. ~HeldFrom(b, 2 + 1, i)  BY <1>3
  <2> QED  BY <1>2, <2>1, RightUnlock
<1>6. \A k \in 1..Len(b.todo) : k \in {1, 2}  BY <1>2
<1> QED  BY <1>2, <1>3, <1>4, <1>5, <1>6 DEF StepsRight

LEMMA FormUnlockPutLock ==
  ASSUME NEW b, NEW c, NEW f, NEW i \in Ino, NEW k \in Ino,
         Does3(b, Unlock(i), Put(i), Lock(k)),
         LockedAt(b, k), i # k => ~LockedAt(b, i)
  PROVE  /\ StepsRight(b, c, f) /\ b.todo \in Seq(Step)
         /\ \A j \in Ino : /\ HeldFrom(b, 1, j) <=> i = j \/ (k # j /\ LockedAt(b, j))
                           /\ Cardinality(GivesOf(b.todo, j)) = Same(i, j)
<1>0. b.todo = <<Unlock(i), Put(i), Lock(k)>>  BY DEF Does3
<1>1. Unlock(i) \in Step /\ Put(i) \in Step /\ Lock(k) \in Step  BY Ops
<1>2. /\ b.todo \in Seq(Step) /\ Len(b.todo) = 3
      /\ b.todo[1] = Unlock(i) /\ b.todo[2] = Put(i) /\ b.todo[3] = Lock(k)
  BY <1>0, <1>1, Plan3
<1>3. ASSUME NEW j \in Ino
      PROVE  /\ HeldFrom(b, 4, j) <=> LockedAt(b, j)
             /\ HeldFrom(b, 3, j) <=> k # j /\ HeldFrom(b, 4, j)
             /\ HeldFrom(b, 2, j) <=> HeldFrom(b, 3, j)
             /\ HeldFrom(b, 1, j) <=> i = j \/ HeldFrom(b, 2, j)
             /\ Cardinality(GivesOf(b.todo, j)) = One(i = j)
  <2>1. /\ HeldFrom(b, 4, j) <=> LockedAt(b, j)
        /\ HeldFrom(b, 3, j) <=> Releases(Lock(k), j) \/ (~Takes(Lock(k), j) /\ HeldFrom(b, 4, j))
        /\ HeldFrom(b, 2, j) <=> Releases(Put(i), j) \/ (~Takes(Put(i), j) /\ HeldFrom(b, 3, j))
        /\ HeldFrom(b, 1, j) <=> Releases(Unlock(i), j) \/ (~Takes(Unlock(i), j) /\ HeldFrom(b, 2, j))
        /\ Cardinality(GivesOf(b.todo, j)) = One(Gives(Unlock(i), j)) + One(Gives(Put(i), j)) + One(Gives(Lock(k), j))
    BY <1>0, <1>1, Plan3
  <2>2. (Releases(Unlock(i), j) <=> i = j) /\ ~Takes(Unlock(i), j) /\ ~Gives(Unlock(i), j)  BY Ops
  <2>3. (Gives(Put(i), j) <=> i = j) /\ ~Takes(Put(i), j) /\ ~Releases(Put(i), j)  BY Ops
  <2>4. (Takes(Lock(k), j) <=> k = j) /\ ~Releases(Lock(k), j) /\ ~Gives(Lock(k), j)  BY Ops
  <2>5. /\ One(Gives(Unlock(i), j)) = 0 /\ One(Gives(Put(i), j)) = One(i = j) /\ One(Gives(Lock(k), j)) = 0
        /\ One(i = j) \in Nat
    BY <2>2, <2>3, <2>4 DEF One
  <2>6. Cardinality(GivesOf(b.todo, j)) = One(i = j)  BY <2>1, <2>5
  <2> QED  BY <2>1, <2>2, <2>3, <2>4, <2>6
<1>4. StepRight(b, c, f, 1)
  <2>1. ~HeldFrom(b, 1 + 1, i)  BY <1>3
  <2>2. \E m \in 1 + 1..Len(b.todo) : Gives(b.todo[m], i)
    <3>1. 2 \in 1 + 1..Len(b.todo)  BY <1>2
    <3>2. Gives(Put(i), i)  BY Ops
    <3> QED  BY <1>2, <3>1, <3>2
  <2> QED  BY <1>2, <2>1, <2>2, RightUnlock
<1>5. StepRight(b, c, f, 2)  BY <1>2, RightPut
<1>6. StepRight(b, c, f, 3)
  <2>1. HeldFrom(b, 3 + 1, k)  BY <1>3
  <2> QED  BY <1>2, <2>1, RightLock
<1>7. \A n \in 1..Len(b.todo) : n \in {1, 2, 3}  BY <1>2
<1> QED  BY <1>2, <1>3, <1>4, <1>5, <1>6, <1>7 DEF StepsRight, Same

LEMMA FormUnlockPutUnlock ==
  ASSUME NEW b, NEW c, NEW f, NEW i \in Ino, NEW k \in Ino,
         Does3(b, Unlock(i), Put(i), Unlock(k)),
         i # k, ~LockedAt(b, i), ~LockedAt(b, k), Keeps(b, c, f, k) > 0
  PROVE  /\ StepsRight(b, c, f) /\ b.todo \in Seq(Step)
         /\ \A j \in Ino : /\ HeldFrom(b, 1, j) <=> i = j \/ k = j \/ LockedAt(b, j)
                           /\ Cardinality(GivesOf(b.todo, j)) = Same(i, j)
<1>0. b.todo = <<Unlock(i), Put(i), Unlock(k)>>  BY DEF Does3
<1>1. Unlock(i) \in Step /\ Put(i) \in Step /\ Unlock(k) \in Step  BY Ops
<1>2. /\ b.todo \in Seq(Step) /\ Len(b.todo) = 3
      /\ b.todo[1] = Unlock(i) /\ b.todo[2] = Put(i) /\ b.todo[3] = Unlock(k)
  BY <1>0, <1>1, Plan3
<1>3. ASSUME NEW j \in Ino
      PROVE  /\ HeldFrom(b, 4, j) <=> LockedAt(b, j)
             /\ HeldFrom(b, 3, j) <=> k = j \/ HeldFrom(b, 4, j)
             /\ HeldFrom(b, 2, j) <=> HeldFrom(b, 3, j)
             /\ HeldFrom(b, 1, j) <=> i = j \/ HeldFrom(b, 2, j)
             /\ Cardinality(GivesOf(b.todo, j)) = One(i = j)
  <2>1. /\ HeldFrom(b, 4, j) <=> LockedAt(b, j)
        /\ HeldFrom(b, 3, j) <=> Releases(Unlock(k), j) \/ (~Takes(Unlock(k), j) /\ HeldFrom(b, 4, j))
        /\ HeldFrom(b, 2, j) <=> Releases(Put(i), j) \/ (~Takes(Put(i), j) /\ HeldFrom(b, 3, j))
        /\ HeldFrom(b, 1, j) <=> Releases(Unlock(i), j) \/ (~Takes(Unlock(i), j) /\ HeldFrom(b, 2, j))
        /\ Cardinality(GivesOf(b.todo, j)) = One(Gives(Unlock(i), j)) + One(Gives(Put(i), j)) + One(Gives(Unlock(k), j))
    BY <1>0, <1>1, Plan3
  <2>2. (Releases(Unlock(i), j) <=> i = j) /\ ~Takes(Unlock(i), j) /\ ~Gives(Unlock(i), j)  BY Ops
  <2>3. (Gives(Put(i), j) <=> i = j) /\ ~Takes(Put(i), j) /\ ~Releases(Put(i), j)  BY Ops
  <2>4. (Releases(Unlock(k), j) <=> k = j) /\ ~Takes(Unlock(k), j) /\ ~Gives(Unlock(k), j)  BY Ops
  <2>5. /\ One(Gives(Unlock(i), j)) = 0 /\ One(Gives(Put(i), j)) = One(i = j) /\ One(Gives(Unlock(k), j)) = 0
        /\ One(i = j) \in Nat
    BY <2>2, <2>3, <2>4 DEF One
  <2>6. Cardinality(GivesOf(b.todo, j)) = One(i = j)  BY <2>1, <2>5
  <2> QED  BY <2>1, <2>2, <2>3, <2>4, <2>6
<1>4. StepRight(b, c, f, 1)
  <2>1. ~HeldFrom(b, 1 + 1, i)  BY <1>3
  <2>2. \E m \in 1 + 1..Len(b.todo) : Gives(b.todo[m], i)
    <3>1. 2 \in 1 + 1..Len(b.todo)  BY <1>2
    <3>2. Gives(Put(i), i)  BY Ops
    <3> QED  BY <1>2, <3>1, <3>2
  <2> QED  BY <1>2, <2>1, <2>2, RightUnlock
<1>5. StepRight(b, c, f, 2)  BY <1>2, RightPut
<1>6. StepRight(b, c, f, 3)
  <2>1. ~HeldFrom(b, 3 + 1, k)  BY <1>3
  <2> QED  BY <1>2, <2>1, RightUnlock
<1>7. \A n \in 1..Len(b.todo) : n \in {1, 2, 3}  BY <1>2
<1> QED  BY <1>2, <1>3, <1>4, <1>5, <1>6, <1>7 DEF StepsRight, Same

LEMMA FormUnlockPutPut ==
  ASSUME NEW b, NEW c, NEW f, NEW i \in Ino, NEW k \in Ino,
         Does3(b, Unlock(i), Put(i), Put(k)),
         ~LockedAt(b, i)
  PROVE  /\ StepsRight(b, c, f) /\ b.todo \in Seq(Step)
         /\ \A j \in Ino : /\ HeldFrom(b, 1, j) <=> i = j \/ LockedAt(b, j)
                           /\ Cardinality(GivesOf(b.todo, j)) = Same(i, j) + Same(k, j)
<1>0. b.todo = <<Unlock(i), Put(i), Put(k)>>  BY DEF Does3
<1>1. Unlock(i) \in Step /\ Put(i) \in Step /\ Put(k) \in Step  BY Ops
<1>2. /\ b.todo \in Seq(Step) /\ Len(b.todo) = 3
      /\ b.todo[1] = Unlock(i) /\ b.todo[2] = Put(i) /\ b.todo[3] = Put(k)
  BY <1>0, <1>1, Plan3
<1>3. ASSUME NEW j \in Ino
      PROVE  /\ HeldFrom(b, 4, j) <=> LockedAt(b, j)
             /\ HeldFrom(b, 3, j) <=> HeldFrom(b, 4, j)
             /\ HeldFrom(b, 2, j) <=> HeldFrom(b, 3, j)
             /\ HeldFrom(b, 1, j) <=> i = j \/ HeldFrom(b, 2, j)
             /\ Cardinality(GivesOf(b.todo, j)) = One(i = j) + One(k = j)
  <2>1. /\ HeldFrom(b, 4, j) <=> LockedAt(b, j)
        /\ HeldFrom(b, 3, j) <=> Releases(Put(k), j) \/ (~Takes(Put(k), j) /\ HeldFrom(b, 4, j))
        /\ HeldFrom(b, 2, j) <=> Releases(Put(i), j) \/ (~Takes(Put(i), j) /\ HeldFrom(b, 3, j))
        /\ HeldFrom(b, 1, j) <=> Releases(Unlock(i), j) \/ (~Takes(Unlock(i), j) /\ HeldFrom(b, 2, j))
        /\ Cardinality(GivesOf(b.todo, j)) = One(Gives(Unlock(i), j)) + One(Gives(Put(i), j)) + One(Gives(Put(k), j))
    BY <1>0, <1>1, Plan3
  <2>2. (Releases(Unlock(i), j) <=> i = j) /\ ~Takes(Unlock(i), j) /\ ~Gives(Unlock(i), j)  BY Ops
  <2>3. (Gives(Put(i), j) <=> i = j) /\ ~Takes(Put(i), j) /\ ~Releases(Put(i), j)  BY Ops
  <2>4. (Gives(Put(k), j) <=> k = j) /\ ~Takes(Put(k), j) /\ ~Releases(Put(k), j)  BY Ops
  <2>5. /\ One(Gives(Unlock(i), j)) = 0 /\ One(Gives(Put(i), j)) = One(i = j) /\ One(Gives(Put(k), j)) = One(k = j)
        /\ One(i = j) \in Nat /\ One(k = j) \in Nat
    BY <2>2, <2>3, <2>4 DEF One
  <2>6. Cardinality(GivesOf(b.todo, j)) = One(i = j) + One(k = j)  BY <2>1, <2>5
  <2> QED  BY <2>1, <2>2, <2>3, <2>4, <2>6
<1>4. StepRight(b, c, f, 1)
  <2>1. ~HeldFrom(b, 1 + 1, i)  BY <1>3
  <2>2. \E m \in 1 + 1..Len(b.todo) : Gives(b.todo[m], i)
    <3>1. 2 \in 1 + 1..Len(b.todo)  BY <1>2
    <3>2. Gives(Put(i), i)  BY Ops
    <3> QED  BY <1>2, <3>1, <3>2
  <2> QED  BY <1>2, <2>1, <2>2, RightUnlock
<1>5. StepRight(b, c, f, 2)  BY <1>2, RightPut
<1>6. StepRight(b, c, f, 3)  BY <1>2, RightPut
<1>7. \A n \in 1..Len(b.todo) : n \in {1, 2, 3}  BY <1>2
<1> QED  BY <1>2, <1>3, <1>4, <1>5, <1>6, <1>7 DEF StepsRight, Same

LEMMA FormUpdateUnlockPut ==
  ASSUME NEW b, NEW c, NEW f, NEW i \in Ino,
         Does3(b, Update(i), Unlock(i), Put(i)),
         ~LockedAt(b, i)
  PROVE  /\ StepsRight(b, c, f) /\ b.todo \in Seq(Step)
         /\ \A j \in Ino : /\ HeldFrom(b, 1, j) <=> i = j \/ LockedAt(b, j)
                           /\ Cardinality(GivesOf(b.todo, j)) = Same(i, j)
<1>0. b.todo = <<Update(i), Unlock(i), Put(i)>>  BY DEF Does3
<1>1. Update(i) \in Step /\ Unlock(i) \in Step /\ Put(i) \in Step  BY Ops
<1>2. /\ b.todo \in Seq(Step) /\ Len(b.todo) = 3
      /\ b.todo[1] = Update(i) /\ b.todo[2] = Unlock(i) /\ b.todo[3] = Put(i)
  BY <1>0, <1>1, Plan3
<1>3. ASSUME NEW j \in Ino
      PROVE  /\ HeldFrom(b, 4, j) <=> LockedAt(b, j)
             /\ HeldFrom(b, 3, j) <=> HeldFrom(b, 4, j)
             /\ HeldFrom(b, 2, j) <=> i = j \/ HeldFrom(b, 3, j)
             /\ HeldFrom(b, 1, j) <=> HeldFrom(b, 2, j)
             /\ Cardinality(GivesOf(b.todo, j)) = One(i = j)
  <2>1. /\ HeldFrom(b, 4, j) <=> LockedAt(b, j)
        /\ HeldFrom(b, 3, j) <=> Releases(Put(i), j) \/ (~Takes(Put(i), j) /\ HeldFrom(b, 4, j))
        /\ HeldFrom(b, 2, j) <=> Releases(Unlock(i), j) \/ (~Takes(Unlock(i), j) /\ HeldFrom(b, 3, j))
        /\ HeldFrom(b, 1, j) <=> Releases(Update(i), j) \/ (~Takes(Update(i), j) /\ HeldFrom(b, 2, j))
        /\ Cardinality(GivesOf(b.todo, j)) = One(Gives(Update(i), j)) + One(Gives(Unlock(i), j)) + One(Gives(Put(i), j))
    BY <1>0, <1>1, Plan3
  <2>2. ~Takes(Update(i), j) /\ ~Releases(Update(i), j) /\ ~Gives(Update(i), j)  BY Ops
  <2>3. (Releases(Unlock(i), j) <=> i = j) /\ ~Takes(Unlock(i), j) /\ ~Gives(Unlock(i), j)  BY Ops
  <2>4. (Gives(Put(i), j) <=> i = j) /\ ~Takes(Put(i), j) /\ ~Releases(Put(i), j)  BY Ops
  <2>5. /\ One(Gives(Update(i), j)) = 0 /\ One(Gives(Unlock(i), j)) = 0 /\ One(Gives(Put(i), j)) = One(i = j)
        /\ One(i = j) \in Nat
    BY <2>2, <2>3, <2>4 DEF One
  <2>6. Cardinality(GivesOf(b.todo, j)) = One(i = j)  BY <2>1, <2>5
  <2> QED  BY <2>1, <2>2, <2>3, <2>4, <2>6
<1>4. StepRight(b, c, f, 1)
  <2>1. HeldFrom(b, 1 + 1, i)  BY <1>3
  <2> QED  BY <1>2, <2>1, RightUpdate
<1>5. StepRight(b, c, f, 2)
  <2>1. ~HeldFrom(b, 2 + 1, i)  BY <1>3
  <2>2. \E m \in 2 + 1..Len(b.todo) : Gives(b.todo[m], i)
    <3>1. 3 \in 2 + 1..Len(b.todo)  BY <1>2
    <3>2. Gives(Put(i), i)  BY Ops
    <3> QED  BY <1>2, <3>1, <3>2
  <2> QED  BY <1>2, <2>1, <2>2, RightUnlock
<1>6. StepRight(b, c, f, 3)  BY <1>2, RightPut
<1>7. \A k \in 1..Len(b.todo) : k \in {1, 2, 3}  BY <1>2
<1> QED  BY <1>2, <1>3, <1>4, <1>5, <1>6, <1>7 DEF StepsRight, Same

LEMMA FormUnlockPutTwice ==
  ASSUME NEW b, NEW c, NEW f, NEW i \in Ino, NEW k \in Ino,
         Does4(b, Unlock(i), Put(i), Unlock(k), Put(k)),
         i # k, ~LockedAt(b, i), ~LockedAt(b, k)
  PROVE  /\ StepsRight(b, c, f) /\ b.todo \in Seq(Step)
         /\ \A j \in Ino : /\ HeldFrom(b, 1, j) <=> i = j \/ k = j \/ LockedAt(b, j)
                           /\ Cardinality(GivesOf(b.todo, j)) = Same(i, j) + Same(k, j)
<1>0. b.todo = <<Unlock(i), Put(i), Unlock(k), Put(k)>>  BY DEF Does4
<1>1. Unlock(i) \in Step /\ Put(i) \in Step /\ Unlock(k) \in Step /\ Put(k) \in Step  BY Ops
<1>2. /\ b.todo \in Seq(Step) /\ Len(b.todo) = 4
      /\ b.todo[1] = Unlock(i) /\ b.todo[2] = Put(i) /\ b.todo[3] = Unlock(k) /\ b.todo[4] = Put(k)
  BY <1>0, <1>1, Plan4
<1>3. ASSUME NEW j \in Ino
      PROVE  /\ HeldFrom(b, 5, j) <=> LockedAt(b, j)
             /\ HeldFrom(b, 4, j) <=> HeldFrom(b, 5, j)
             /\ HeldFrom(b, 3, j) <=> k = j \/ HeldFrom(b, 4, j)
             /\ HeldFrom(b, 2, j) <=> HeldFrom(b, 3, j)
             /\ HeldFrom(b, 1, j) <=> i = j \/ HeldFrom(b, 2, j)
             /\ Cardinality(GivesOf(b.todo, j)) = One(i = j) + One(k = j)
  <2>1. /\ HeldFrom(b, 5, j) <=> LockedAt(b, j)
        /\ HeldFrom(b, 4, j) <=> Releases(Put(k), j) \/ (~Takes(Put(k), j) /\ HeldFrom(b, 5, j))
        /\ HeldFrom(b, 3, j) <=> Releases(Unlock(k), j) \/ (~Takes(Unlock(k), j) /\ HeldFrom(b, 4, j))
        /\ HeldFrom(b, 2, j) <=> Releases(Put(i), j) \/ (~Takes(Put(i), j) /\ HeldFrom(b, 3, j))
        /\ HeldFrom(b, 1, j) <=> Releases(Unlock(i), j) \/ (~Takes(Unlock(i), j) /\ HeldFrom(b, 2, j))
        /\ Cardinality(GivesOf(b.todo, j)) = One(Gives(Unlock(i), j)) + One(Gives(Put(i), j)) + One(Gives(Unlock(k), j)) + One(Gives(Put(k), j))
    <3>1. PICK w \in Step, x \in Step, y \in Step, z \in Step :
              w = Unlock(i) /\ x = Put(i) /\ y = Unlock(k) /\ z = Put(k)
      BY <1>1
    <3>2. b.todo = <<w, x, y, z>>  BY <1>0, <3>1
    <3>3. /\ HeldFrom(b, 5, j) <=> LockedAt(b, j)
          /\ HeldFrom(b, 4, j) <=> Releases(z, j) \/ (~Takes(z, j) /\ HeldFrom(b, 5, j))
          /\ HeldFrom(b, 3, j) <=> Releases(y, j) \/ (~Takes(y, j) /\ HeldFrom(b, 4, j))
          /\ HeldFrom(b, 2, j) <=> Releases(x, j) \/ (~Takes(x, j) /\ HeldFrom(b, 3, j))
          /\ HeldFrom(b, 1, j) <=> Releases(w, j) \/ (~Takes(w, j) /\ HeldFrom(b, 2, j))
      BY <3>2, Plan4
    <3>4. Cardinality(GivesOf(b.todo, j)) = One(Gives(w, j)) + One(Gives(x, j)) + One(Gives(y, j)) + One(Gives(z, j))
      BY <3>2, Plan4
    <3> QED  BY <3>1, <3>3, <3>4
  <2>2. (Releases(Unlock(i), j) <=> i = j) /\ ~Takes(Unlock(i), j) /\ ~Gives(Unlock(i), j)  BY Ops
  <2>3. (Gives(Put(i), j) <=> i = j) /\ ~Takes(Put(i), j) /\ ~Releases(Put(i), j)  BY Ops
  <2>4. (Releases(Unlock(k), j) <=> k = j) /\ ~Takes(Unlock(k), j) /\ ~Gives(Unlock(k), j)  BY Ops
  <2>5. (Gives(Put(k), j) <=> k = j) /\ ~Takes(Put(k), j) /\ ~Releases(Put(k), j)  BY Ops
  <2>6. /\ One(Gives(Unlock(i), j)) = 0 /\ One(Gives(Put(i), j)) = One(i = j) /\ One(Gives(Unlock(k), j)) = 0
        /\ One(Gives(Put(k), j)) = One(k = j) /\ One(i = j) \in Nat /\ One(k = j) \in Nat
    BY <2>2, <2>3, <2>4, <2>5 DEF One
  <2>7. Cardinality(GivesOf(b.todo, j)) = One(i = j) + One(k = j)  BY <2>1, <2>6
  <2> QED  BY <2>1, <2>2, <2>3, <2>4, <2>5, <2>7
<1>4. StepRight(b, c, f, 1)
  <2>1. ~HeldFrom(b, 1 + 1, i)  BY <1>3
  <2>2. \E m \in 1 + 1..Len(b.todo) : Gives(b.todo[m], i)
    <3>1. 2 \in 1 + 1..Len(b.todo)  BY <1>2
    <3>2. Gives(Put(i), i)  BY Ops
    <3> QED  BY <1>2, <3>1, <3>2
  <2> QED  BY <1>2, <2>1, <2>2, RightUnlock
<1>5. StepRight(b, c, f, 2)  BY <1>2, RightPut
<1>6. StepRight(b, c, f, 3)
  <2>1. ~HeldFrom(b, 3 + 1, k)  BY <1>3
  <2>2. \E m \in 3 + 1..Len(b.todo) : Gives(b.todo[m], k)
    <3>1. 4 \in 3 + 1..Len(b.todo)  BY <1>2
    <3>2. Gives(Put(k), k)  BY Ops
    <3> QED  BY <1>2, <3>1, <3>2
  <2> QED  BY <1>2, <2>1, <2>2, RightUnlock
<1>7. StepRight(b, c, f, 4)  BY <1>2, RightPut
<1>8. \A n \in 1..Len(b.todo) : n \in {1, 2, 3, 4}  BY <1>2
<1> QED  BY <1>2, <1>3, <1>4, <1>5, <1>6, <1>7, <1>8 DEF StepsRight, Same

LEMMA FormPutUnlockPutLock ==
  ASSUME NEW b, NEW c, NEW f, NEW x \in Ino, NEW i \in Ino, NEW k \in Ino,
         Does4(b, Put(x), Unlock(i), Put(i), Lock(k)),
         LockedAt(b, k), i # k => ~LockedAt(b, i)
  PROVE  /\ StepsRight(b, c, f) /\ b.todo \in Seq(Step)
         /\ \A j \in Ino : /\ HeldFrom(b, 1, j) <=> i = j \/ (k # j /\ LockedAt(b, j))
                           /\ Cardinality(GivesOf(b.todo, j)) = Same(x, j) + Same(i, j)
<1>0. b.todo = <<Put(x), Unlock(i), Put(i), Lock(k)>>  BY DEF Does4
<1>1. Put(x) \in Step /\ Unlock(i) \in Step /\ Put(i) \in Step /\ Lock(k) \in Step  BY Ops
<1>2. /\ b.todo \in Seq(Step) /\ Len(b.todo) = 4
      /\ b.todo[1] = Put(x) /\ b.todo[2] = Unlock(i) /\ b.todo[3] = Put(i) /\ b.todo[4] = Lock(k)
  BY <1>0, <1>1, Plan4
<1>3. ASSUME NEW j \in Ino
      PROVE  /\ HeldFrom(b, 5, j) <=> LockedAt(b, j)
             /\ HeldFrom(b, 4, j) <=> k # j /\ HeldFrom(b, 5, j)
             /\ HeldFrom(b, 3, j) <=> HeldFrom(b, 4, j)
             /\ HeldFrom(b, 2, j) <=> i = j \/ HeldFrom(b, 3, j)
             /\ HeldFrom(b, 1, j) <=> HeldFrom(b, 2, j)
             /\ Cardinality(GivesOf(b.todo, j)) = One(x = j) + One(i = j)
  <2>1. /\ HeldFrom(b, 5, j) <=> LockedAt(b, j)
        /\ HeldFrom(b, 4, j) <=> Releases(Lock(k), j) \/ (~Takes(Lock(k), j) /\ HeldFrom(b, 5, j))
        /\ HeldFrom(b, 3, j) <=> Releases(Put(i), j) \/ (~Takes(Put(i), j) /\ HeldFrom(b, 4, j))
        /\ HeldFrom(b, 2, j) <=> Releases(Unlock(i), j) \/ (~Takes(Unlock(i), j) /\ HeldFrom(b, 3, j))
        /\ HeldFrom(b, 1, j) <=> Releases(Put(x), j) \/ (~Takes(Put(x), j) /\ HeldFrom(b, 2, j))
        /\ Cardinality(GivesOf(b.todo, j)) = One(Gives(Put(x), j)) + One(Gives(Unlock(i), j)) + One(Gives(Put(i), j)) + One(Gives(Lock(k), j))
    BY <1>0, <1>1, Plan4, SMTT(40)
  <2>2. (Gives(Put(x), j) <=> x = j) /\ ~Takes(Put(x), j) /\ ~Releases(Put(x), j)  BY Ops
  <2>3. (Releases(Unlock(i), j) <=> i = j) /\ ~Takes(Unlock(i), j) /\ ~Gives(Unlock(i), j)  BY Ops
  <2>4. (Gives(Put(i), j) <=> i = j) /\ ~Takes(Put(i), j) /\ ~Releases(Put(i), j)  BY Ops
  <2>5. (Takes(Lock(k), j) <=> k = j) /\ ~Releases(Lock(k), j) /\ ~Gives(Lock(k), j)  BY Ops
  <2>6. /\ One(Gives(Put(x), j)) = One(x = j) /\ One(Gives(Unlock(i), j)) = 0 /\ One(Gives(Put(i), j)) = One(i = j)
        /\ One(Gives(Lock(k), j)) = 0 /\ One(x = j) \in Nat /\ One(i = j) \in Nat
    BY <2>2, <2>3, <2>4, <2>5 DEF One
  <2>7. Cardinality(GivesOf(b.todo, j)) = One(x = j) + One(i = j)  BY <2>1, <2>6
  <2> QED  BY <2>1, <2>2, <2>3, <2>4, <2>5, <2>7
<1>4. StepRight(b, c, f, 1)  BY <1>2, RightPut
<1>5. StepRight(b, c, f, 2)
  <2>1. ~HeldFrom(b, 2 + 1, i)  BY <1>3
  <2>2. \E m \in 2 + 1..Len(b.todo) : Gives(b.todo[m], i)
    <3>1. 3 \in 2 + 1..Len(b.todo)  BY <1>2
    <3>2. Gives(Put(i), i)  BY Ops
    <3> QED  BY <1>2, <3>1, <3>2
  <2> QED  BY <1>2, <2>1, <2>2, RightUnlock
<1>6. StepRight(b, c, f, 3)  BY <1>2, RightPut
<1>7. StepRight(b, c, f, 4)
  <2>1. HeldFrom(b, 4 + 1, k)  BY <1>3
  <2> QED  BY <1>2, <2>1, RightLock
<1>8. \A n \in 1..Len(b.todo) : n \in {1, 2, 3, 4}  BY <1>2
<1> QED  BY <1>2, <1>3, <1>4, <1>5, <1>6, <1>7, <1>8 DEF StepsRight, Same

-----------------------------------------------------------------------------
(* What a call becomes at its points.                                      *)

\* A process whose call a had no micro-step to do, with directory c0 and file
\* f0, goes on with b, c and f, and has got a reference to x, or to none.
Becomes(a, c0, f0, b, c, f, x) ==
    /\ b \in Calling /\ c \in Ino /\ f \in Ino \cup {None}
    /\ CallRight(b, c, f)
    /\ \A j \in Ino : Holds(b, j) <=> LockedAt(a, j)
    /\ \A j \in Ino : Owns(b, c, f, j) = Keeps(a, c0, f0, j) + Same(x, j)

Right(a, c, f) ==
    /\ a \in Calling /\ c \in Ino /\ f \in Ino \cup {None}
    /\ CallRight(a, c, f) /\ a.todo = <<>>

LEMMA SameIs ==
  /\ \A i, j : Same(i, j) \in Nat
  /\ \A i : Same(i, i) = 1
  /\ \A j \in Ino : Same(None, j) = 0
BY DEF Same, One, Ino

LEMMA LockedIp ==
  ASSUME NEW a, a.pc \in AtIp
  PROVE  \A j : (LockedAt(a, j) <=> a.ip = j) /\ ~Twice(a, j)
BY Apart DEF LockedAt, Twice

LEMMA LockedOther ==
  ASSUME NEW a, a.pc \in AtOther
  PROVE  \A j : (LockedAt(a, j) <=> a.other = j) /\ ~Twice(a, j)
BY Apart DEF LockedAt, Twice

LEMMA LockedBoth ==
  ASSUME NEW a, a.pc \in AtBoth
  PROVE  \A j : /\ LockedAt(a, j) <=> a.ip = j \/ a.other = j
                /\ Twice(a, j) <=> a.ip = j /\ a.other = j
BY Apart DEF LockedAt, Twice

LEMMA LockedNone ==
  ASSUME NEW a, a.pc \in {"user", "renamed"}
  PROVE  \A j : ~LockedAt(a, j) /\ ~Twice(a, j)
BY Apart DEF LockedAt, Twice

LEMMA KeepsUser ==
  ASSUME NEW a, a.pc = "user", a.call # "newname", NEW c, NEW f, NEW j
  PROVE  Keeps(a, c, f, j) = Same(c, j) + Same(f, j)
BY PointUser DEF Same

LEMMA KeepsIp ==
  ASSUME NEW a, a.pc \in AtIp, a.call # "newname", NEW c, NEW f, NEW j
  PROVE  Keeps(a, c, f, j) = Same(c, j) + Same(f, j) + Same(a.ip, j)
<1>1. Keeps(a, c, f, j) = One(c = j) + One(f = j) + One(a.ip = j)
                          + One(a.call = "newname" /\ a.other = j)
  BY PointIp
<1>2. One(a.call = "newname" /\ a.other = j) = 0  BY DEF One
<1>3. One(c = j) \in Nat /\ One(f = j) \in Nat /\ One(a.ip = j) \in Nat  BY DEF One
<1> QED  BY <1>1, <1>2, <1>3 DEF Same

LEMMA KeepsNew ==
  ASSUME NEW a, a.pc \in AtIp, a.call = "newname", NEW c, NEW f, NEW j
  PROVE  Keeps(a, c, f, j) = Same(c, j) + Same(f, j) + Same(a.ip, j) + Same(a.other, j)
<1>1. Keeps(a, c, f, j) = One(c = j) + One(f = j) + One(a.ip = j)
                          + One(a.call = "newname" /\ a.other = j)
  BY PointIp
<1>2. One(a.call = "newname" /\ a.other = j) = One(a.other = j)  BY DEF One
<1> QED  BY <1>1, <1>2 DEF Same

LEMMA KeepsOther ==
  ASSUME NEW a, a.pc \in AtOther, NEW c, NEW f, NEW j
  PROVE  Keeps(a, c, f, j) = Same(c, j) + Same(f, j) + Same(a.other, j)
BY PointOther DEF Same

LEMMA KeepsBoth ==
  ASSUME NEW a, a.pc \in AtBoth, NEW c, NEW f, NEW j
  PROVE  Keeps(a, c, f, j) = Same(c, j) + Same(f, j) + Same(a.ip, j) + Same(a.other, j)
BY PointBoth DEF Same

LEMMA KeepsRenamed ==
  ASSUME NEW a, a.pc = "renamed", NEW c, NEW f, NEW j
  PROVE  Keeps(a, c, f, j) = Same(c, j) + Same(f, j) + Same(a.other, j)
BY PointRenamed DEF Same

Done(todo) == [Idle EXCEPT !.todo = todo]

LEMMA DoneIs ==
  ASSUME NEW todo
  PROVE  /\ Done(todo).pc = "user" /\ Done(todo).call = "none" /\ Done(todo).todo = todo
         /\ todo \in Seq(Step) => Done(todo) \in Calling
         /\ PointRight(Done(todo))
         /\ \A j : ~LockedAt(Done(todo), j) /\ ~Twice(Done(todo), j)
         /\ \A c, f, j : Keeps(Done(todo), c, f, j) = Same(c, j) + Same(f, j)
<1> DEFINE b == Done(todo)
<1>1. /\ b.pc = "user" /\ b.call = "none" /\ b.todo = todo /\ b.names = <<>> /\ b.name = "none"
      /\ b.ip = None /\ b.other = None /\ b.then = <<>>
  BY DEF Done, Idle
<1>2. todo \in Seq(Step) => b \in Calling
  <2>1. <<>> \in Seq(Entry)  BY EmptySeq
  <2>2. Done(todo) = [pc |-> "user", call |-> "none", names |-> <<>>, name |-> "none",
                      ip |-> None, other |-> None, then |-> <<>>, todo |-> todo]
    BY DEF Done, Idle
  <2> QED  BY <2>1, <2>2 DEF Calling, Places, CallNames
<1>3. PointRight(b)  BY <1>1 DEF PointRight, AtIp, AtOther, AtBoth, ToParent
<1> HIDE DEF b
<1>4. \A j : ~LockedAt(b, j) /\ ~Twice(b, j)  BY <1>1, PointUser
<1>5. \A c, f, j : Keeps(b, c, f, j) = Same(c, j) + Same(f, j)  BY <1>1, KeepsUser
<1> QED  BY <1>1, <1>2, <1>3, <1>4, <1>5 DEF b

LEMMA DoneBecomes ==
  ASSUME NEW a, NEW c0, NEW f0, NEW b, NEW todo, b = Done(todo), NEW c \in Ino,
         NEW f \in Ino \cup {None}, NEW x, StepsRight(b, c, f), todo \in Seq(Step),
         \A j \in Ino : HeldFrom(b, 1, j) <=> LockedAt(a, j),
         \A j \in Ino : Cardinality(GivesOf(todo, j)) + Same(c, j) + Same(f, j)
                        = Keeps(a, c0, f0, j) + Same(x, j)
  PROVE  Becomes(a, c0, f0, b, c, f, x)
<1>1. /\ b.call = "none" /\ b.todo = todo /\ b \in Calling /\ PointRight(b)
      /\ \A j : ~Twice(b, j) /\ Keeps(b, c, f, j) = Same(c, j) + Same(f, j)
  <2>1. /\ Done(todo).call = "none" /\ Done(todo).todo = todo /\ Done(todo) \in Calling
        /\ PointRight(Done(todo))
    BY DoneIs
  <2>2. \A j : ~Twice(Done(todo), j)  BY DoneIs
  <2>3. \A j : Keeps(Done(todo), c, f, j) = Same(c, j) + Same(f, j)  BY DoneIs
  <2> QED  BY <2>1, <2>2, <2>3
<1>2. CallRight(b, c, f)  BY <1>1 DEF CallRight, StepsRight
<1>3. \A j \in Ino : Holds(b, j) <=> LockedAt(a, j)  BY <1>1 DEF Holds
<1>4. ASSUME NEW j \in Ino  PROVE Owns(b, c, f, j) = Keeps(a, c0, f0, j) + Same(x, j)
  <2>1. Cardinality(GivesOf(todo, j)) \in Nat  BY GivesFinite
  <2>2. Same(c, j) \in Nat /\ Same(f, j) \in Nat  BY SameIs
  <2>3. Owns(b, c, f, j) = Same(c, j) + Same(f, j) + Cardinality(GivesOf(todo, j))
    BY <1>1 DEF Owns
  <2> QED  BY <2>1, <2>2, <2>3
<1> QED  BY <1>1, <1>2, <1>3, <1>4 DEF Becomes

LEMMA JoinIs ==
  ASSUME NEW S, NEW s \in Seq(S), NEW t \in Seq(S), NEW u \in Seq(S),
         Len(u) = Len(s) + Len(t), \A k \in 1..Len(s) : u[k] = s[k],
         \A k \in 1..Len(t) : u[Len(s) + k] = t[k]
  PROVE  s \o t = u
<1> DEFINE w == s \o t
<1>1. /\ w \in Seq(S) /\ Len(w) = Len(s) + Len(t)
      /\ \A k \in 1..Len(s) + Len(t) : w[k] = IF k <= Len(s) THEN s[k] ELSE t[k - Len(s)]
  BY ConcatProperties
<1> HIDE DEF w
<1>2. Len(s) \in Nat /\ Len(t) \in Nat  BY LenProperties
<1>3. ASSUME NEW k \in 1..Len(w)  PROVE w[k] = u[k]
  <2>1. CASE k <= Len(s)  BY <1>1, <1>2, <2>1
  <2>2. CASE ~(k <= Len(s))
    <3>1. k - Len(s) \in 1..Len(t) /\ Len(s) + (k - Len(s)) = k  BY <1>1, <1>2, <2>2
    <3> QED  BY <1>1, <2>2, <3>1
  <2> QED  BY <2>1, <2>2
<1>4. w = u  BY <1>1, <1>3, SeqEqual
<1> QED  BY <1>4 DEF w

LEMMA Join12 ==
  ASSUME NEW S, NEW x \in S, NEW y \in S, NEW z \in S
  PROVE  <<x>> \o <<y, z>> = <<x, y, z>>
<1> DEFINE s == <<x>>
           t == <<y, z>>
           u == <<x, y, z>>
<1>1. s \in Seq(S) /\ t \in Seq(S) /\ u \in Seq(S)  OBVIOUS
<1>2. Len(s) = 1 /\ Len(t) = 2 /\ Len(u) = 3  OBVIOUS
<1>3. /\ s[1] = x /\ t[1] = y /\ t[2] = z
      /\ u[1] = x /\ u[2] = y /\ u[3] = z
  OBVIOUS
<1> HIDE DEF s, t, u
<1>4. /\ Len(u) = Len(s) + Len(t) /\ \A k \in 1..Len(s) : u[k] = s[k]
      /\ \A k \in 1..Len(t) : u[Len(s) + k] = t[k]
  BY <1>2, <1>3
<1>5. s \o t = u  BY <1>1, <1>4, JoinIs
<1> QED  BY <1>5 DEF s, t, u

LEMMA Join21 ==
  ASSUME NEW S, NEW x \in S, NEW y \in S, NEW z \in S
  PROVE  <<x, y>> \o <<z>> = <<x, y, z>>
<1> DEFINE s == <<x, y>>
           t == <<z>>
           u == <<x, y, z>>
<1>1. s \in Seq(S) /\ t \in Seq(S) /\ u \in Seq(S)  OBVIOUS
<1>2. Len(s) = 2 /\ Len(t) = 1 /\ Len(u) = 3  OBVIOUS
<1>3. /\ s[1] = x /\ s[2] = y /\ t[1] = z
      /\ u[1] = x /\ u[2] = y /\ u[3] = z
  OBVIOUS
<1> HIDE DEF s, t, u
<1>4. /\ Len(u) = Len(s) + Len(t) /\ \A k \in 1..Len(s) : u[k] = s[k]
      /\ \A k \in 1..Len(t) : u[Len(s) + k] = t[k]
  BY <1>2, <1>3
<1>5. s \o t = u  BY <1>1, <1>4, JoinIs
<1> QED  BY <1>5 DEF s, t, u

LEMMA Join22 ==
  ASSUME NEW S, NEW w \in S, NEW x \in S, NEW y \in S, NEW z \in S
  PROVE  <<w, x>> \o <<y, z>> = <<w, x, y, z>>
<1> DEFINE s == <<w, x>>
           t == <<y, z>>
           u == <<w, x, y, z>>
<1>1. s \in Seq(S) /\ t \in Seq(S) /\ u \in Seq(S)  OBVIOUS
<1>2. Len(s) = 2 /\ Len(t) = 2 /\ Len(u) = 4  OBVIOUS
<1>3. /\ s[1] = w /\ s[2] = x /\ t[1] = y /\ t[2] = z
      /\ u[1] = w /\ u[2] = x /\ u[3] = y /\ u[4] = z
  OBVIOUS
<1> HIDE DEF s, t, u
<1>4. /\ Len(u) = Len(s) + Len(t) /\ \A k \in 1..Len(s) : u[k] = s[k]
      /\ \A k \in 1..Len(t) : u[Len(s) + k] = t[k]
  BY <1>2, <1>3
<1>5. s \o t = u  BY <1>1, <1>4, JoinIs
<1> QED  BY <1>5 DEF s, t, u

LEMMA PutsTwo ==
  ASSUME NEW i \in Ino, NEW k \in Ino, NEW todo, NEW b, b.todo = todo,
         todo = UnlockPut(i) \o UnlockPut(k)
  PROVE  Does4(b, Unlock(i), Put(i), Unlock(k), Put(k))
<1>1. PICK w \in Step, x \in Step, y \in Step, z \in Step :
          w = Unlock(i) /\ x = Put(i) /\ y = Unlock(k) /\ z = Put(k)
  BY Ops
<1>2. UnlockPut(i) = <<w, x>> /\ UnlockPut(k) = <<y, z>>  BY <1>1 DEF UnlockPut
<1>3. <<w, x>> \o <<y, z>> = <<w, x, y, z>>  BY Join22
<1>4. b.todo = <<w, x, y, z>>  BY <1>2, <1>3
<1> QED  BY <1>1, <1>4 DEF Does4

LEMMA Join31 ==
  ASSUME NEW S, NEW w \in S, NEW x \in S, NEW y \in S, NEW z \in S
  PROVE  <<w, x, y>> \o <<z>> = <<w, x, y, z>>
<1> DEFINE s == <<w, x, y>>
           t == <<z>>
           u == <<w, x, y, z>>
<1>1. s \in Seq(S) /\ t \in Seq(S) /\ u \in Seq(S)  OBVIOUS
<1>2. Len(s) = 3 /\ Len(t) = 1 /\ Len(u) = 4  OBVIOUS
<1>3. /\ s[1] = w /\ s[2] = x /\ s[3] = y /\ t[1] = z
      /\ u[1] = w /\ u[2] = x /\ u[3] = y /\ u[4] = z
  OBVIOUS
<1> HIDE DEF s, t, u
<1>4. /\ Len(u) = Len(s) + Len(t) /\ \A k \in 1..Len(s) : u[k] = s[k]
      /\ \A k \in 1..Len(t) : u[Len(s) + k] = t[k]
  BY <1>2, <1>3
<1>5. s \o t = u  BY <1>1, <1>4, JoinIs
<1> QED  BY <1>5 DEF s, t, u
LEMMA Here ==
  ASSUME NEW a, NEW c, NEW f, Right(a, c, f)
  PROVE  /\ PointRight(a) /\ a \in Calling /\ a.todo = <<>>
         /\ c \in Ino /\ f \in Ino \cup {None}
         /\ a.pc \in AtIp \cup AtBoth => a.ip \in Ino
         /\ a.pc \in AtOther \cup AtBoth \cup {"renamed"} \/ a.call = "newname" => a.other \in Ino
         /\ a.pc \in AtBoth => a.ip # a.other
         /\ a.call \in {"open", "create"} => f = None
         /\ \A j \in Ino : j # None
<1>1. PointRight(a) /\ a.todo = <<>>  BY DEF Right, CallRight
<1>2. a.pc \in AtBoth => a.ip # a.other
  <2>1. <<Lock(a.ip)>> # <<>>  OBVIOUS
  <2> QED  BY <1>1, <2>1 DEF PointRight
<1> QED  BY <1>1, <1>2 DEF Right, CallRight, PointRight, Ino
LEMMA BackIp ==
  ASSUME NEW a, NEW c, NEW f, Right(a, c, f), a.pc \in AtIp, a.call # "newname",
         NEW b, b = Done(UnlockPut(a.ip))
  PROVE  Becomes(a, c, f, b, c, f, None)
<1>1. c \in Ino /\ f \in Ino \cup {None} /\ a.ip \in Ino  BY Here DEF AtIp, AtOther, AtBoth
<1>2. PICK i \in Ino : i = a.ip  BY <1>1
<1>3. PICK todo : todo = UnlockPut(i)  OBVIOUS
<1>4. b = Done(todo) /\ b.todo = todo  BY <1>2, <1>3, DoneIs
<1>5. \A j \in Ino : ~LockedAt(b, j)  BY <1>4, DoneIs
<1>6. \A j \in Ino : LockedAt(a, j) <=> i = j  BY <1>1, <1>2, PointIp
<1>7. \A j \in Ino : Keeps(a, c, f, j) = Same(c, j) + Same(f, j) + Same(i, j)
  BY <1>1, <1>2, KeepsIp
<1>8. /\ StepsRight(b, c, f) /\ todo \in Seq(Step)
      /\ \A j \in Ino : HeldFrom(b, 1, j) <=> i = j \/ LockedAt(b, j)
      /\ \A j \in Ino : Cardinality(GivesOf(todo, j)) = Same(i, j)
  <2>2. Does2(b, Unlock(i), Put(i))  BY <1>3, <1>4 DEF UnlockPut, Does2
  <2> QED  BY <2>2, <1>1, <1>2, <1>4, <1>5, FormUnlockPut
<1>9. \A j \in Ino : HeldFrom(b, 1, j) <=> LockedAt(a, j)  BY <1>5, <1>6, <1>8
<1>10. \A j \in Ino : Cardinality(GivesOf(todo, j)) + Same(c, j) + Same(f, j) =
                      Keeps(a, c, f, j) + Same(None, j)
  BY <1>1, <1>2, <1>7, <1>8, SameIs
<1> QED  BY <1>1, <1>2, <1>4, <1>8, <1>9, <1>10, DoneBecomes

LEMMA BackOther ==
  ASSUME NEW a, NEW c, NEW f, Right(a, c, f), a.pc \in AtOther,
         NEW b, b = Done(UnlockPut(a.other))
  PROVE  Becomes(a, c, f, b, c, f, None)
<1>1. c \in Ino /\ f \in Ino \cup {None} /\ a.other \in Ino  BY Here DEF AtIp, AtOther, AtBoth
<1>2. PICK i \in Ino : i = a.other  BY <1>1
<1>3. PICK todo : todo = UnlockPut(i)  OBVIOUS
<1>4. b = Done(todo) /\ b.todo = todo  BY <1>2, <1>3, DoneIs
<1>5. \A j \in Ino : ~LockedAt(b, j)  BY <1>4, DoneIs
<1>6. \A j \in Ino : LockedAt(a, j) <=> i = j  BY <1>1, <1>2, PointOther
<1>7. \A j \in Ino : Keeps(a, c, f, j) = Same(c, j) + Same(f, j) + Same(i, j)
  BY <1>1, <1>2, KeepsOther
<1>8. /\ StepsRight(b, c, f) /\ todo \in Seq(Step)
      /\ \A j \in Ino : HeldFrom(b, 1, j) <=> i = j \/ LockedAt(b, j)
      /\ \A j \in Ino : Cardinality(GivesOf(todo, j)) = Same(i, j)
  <2>2. Does2(b, Unlock(i), Put(i))  BY <1>3, <1>4 DEF UnlockPut, Does2
  <2> QED  BY <2>2, <1>1, <1>2, <1>4, <1>5, FormUnlockPut
<1>9. \A j \in Ino : HeldFrom(b, 1, j) <=> LockedAt(a, j)  BY <1>5, <1>6, <1>8
<1>10. \A j \in Ino : Cardinality(GivesOf(todo, j)) + Same(c, j) + Same(f, j) =
                      Keeps(a, c, f, j) + Same(None, j)
  BY <1>1, <1>2, <1>7, <1>8, SameIs
<1> QED  BY <1>1, <1>2, <1>4, <1>8, <1>9, <1>10, DoneBecomes

LEMMA BackUpdated ==
  ASSUME NEW a, NEW c, NEW f, Right(a, c, f), a.pc \in AtOther,
         NEW b, b = Done(<<Update(a.other)>> \o UnlockPut(a.other))
  PROVE  Becomes(a, c, f, b, c, f, None)
<1>1. c \in Ino /\ f \in Ino \cup {None} /\ a.other \in Ino  BY Here DEF AtIp, AtOther, AtBoth
<1>2. PICK i \in Ino : i = a.other  BY <1>1
<1>3. PICK todo : todo = <<Update(i)>> \o UnlockPut(i)  OBVIOUS
<1>4. b = Done(todo) /\ b.todo = todo  BY <1>2, <1>3, DoneIs
<1>5. \A j \in Ino : ~LockedAt(b, j)  BY <1>4, DoneIs
<1>6. \A j \in Ino : LockedAt(a, j) <=> i = j  BY <1>1, <1>2, PointOther
<1>7. \A j \in Ino : Keeps(a, c, f, j) = Same(c, j) + Same(f, j) + Same(i, j)
  BY <1>1, <1>2, KeepsOther
<1>8. /\ StepsRight(b, c, f) /\ todo \in Seq(Step)
      /\ \A j \in Ino : HeldFrom(b, 1, j) <=> i = j \/ LockedAt(b, j)
      /\ \A j \in Ino : Cardinality(GivesOf(todo, j)) = Same(i, j)
  <2>1. Update(i) \in Step /\ Unlock(i) \in Step /\ Put(i) \in Step
    BY Ops
  <2>2. Does3(b, Update(i), Unlock(i), Put(i))  BY <1>3, <1>4, <2>1, Join12 DEF UnlockPut, Does3
  <2> QED  BY <2>2, <1>1, <1>2, <1>4, <1>5, FormUpdateUnlockPut
<1>9. \A j \in Ino : HeldFrom(b, 1, j) <=> LockedAt(a, j)  BY <1>5, <1>6, <1>8
<1>10. \A j \in Ino : Cardinality(GivesOf(todo, j)) + Same(c, j) + Same(f, j) =
                      Keeps(a, c, f, j) + Same(None, j)
  BY <1>1, <1>2, <1>7, <1>8, SameIs
<1> QED  BY <1>1, <1>2, <1>4, <1>8, <1>9, <1>10, DoneBecomes

LEMMA Opened ==
  ASSUME NEW a, NEW c, NEW f, Right(a, c, f), a.pc = "open",
         NEW b, b = Done(<<Unlock(a.ip)>>)
  PROVE  Becomes(a, c, f, b, c, a.ip, None)
<1>1. c \in Ino /\ f \in Ino \cup {None} /\ a.ip \in Ino /\ f = None /\ a.call # "newname"  BY Here DEF AtIp, PointRight
<1>2. PICK i \in Ino : i = a.ip  BY <1>1
<1>3. PICK todo : todo = <<Unlock(i)>>  OBVIOUS
<1>4. b = Done(todo) /\ b.todo = todo  BY <1>2, <1>3, DoneIs
<1>5. \A j \in Ino : ~LockedAt(b, j)  BY <1>4, DoneIs
<1>6. \A j \in Ino : LockedAt(a, j) <=> i = j  BY <1>1, <1>2, PointIp DEF AtIp
<1>7. \A j \in Ino : Keeps(a, c, f, j) = Same(c, j) + Same(f, j) + Same(i, j)
  BY <1>1, <1>2, KeepsIp DEF AtIp
<1>8. /\ StepsRight(b, c, i) /\ todo \in Seq(Step)
      /\ \A j \in Ino : HeldFrom(b, 1, j) <=> i = j \/ LockedAt(b, j)
      /\ \A j \in Ino : Cardinality(GivesOf(todo, j)) = 0
  <2>2. Does1(b, Unlock(i))  BY <1>3, <1>4 DEF UnlockPut, Does1
  <2>3. Keeps(b, c, i, i) > 0
    <3>1. Keeps(b, c, i, i) = Same(c, i) + Same(i, i)  BY <1>4, DoneIs
    <3> QED  BY <3>1, <1>1, <1>2, SameIs
  <2> QED  BY <2>3, <2>2, <1>1, <1>2, <1>4, <1>5, FormUnlock
<1>9. \A j \in Ino : HeldFrom(b, 1, j) <=> LockedAt(a, j)  BY <1>5, <1>6, <1>8
<1>10. \A j \in Ino : Cardinality(GivesOf(todo, j)) + Same(c, j) + Same(i, j) =
                      Keeps(a, c, f, j) + Same(None, j)
  BY <1>1, <1>2, <1>7, <1>8, SameIs
<1> QED  BY <1>1, <1>2, <1>4, <1>8, <1>9, <1>10, DoneBecomes

LEMMA OpenedMade ==
  ASSUME NEW a, NEW c, NEW f, Right(a, c, f), a.pc = "exists", a.call = "create",
         NEW b, b = Done(<<Unlock(a.other)>>)
  PROVE  Becomes(a, c, f, b, c, a.other, None)
<1>1. c \in Ino /\ f \in Ino \cup {None} /\ a.other \in Ino /\ f = None  BY Here DEF AtOther
<1>2. PICK i \in Ino : i = a.other  BY <1>1
<1>3. PICK todo : todo = <<Unlock(i)>>  OBVIOUS
<1>4. b = Done(todo) /\ b.todo = todo  BY <1>2, <1>3, DoneIs
<1>5. \A j \in Ino : ~LockedAt(b, j)  BY <1>4, DoneIs
<1>6. \A j \in Ino : LockedAt(a, j) <=> i = j  BY <1>1, <1>2, PointOther DEF AtOther
<1>7. \A j \in Ino : Keeps(a, c, f, j) = Same(c, j) + Same(f, j) + Same(i, j)
  BY <1>1, <1>2, KeepsOther DEF AtOther
<1>8. /\ StepsRight(b, c, i) /\ todo \in Seq(Step)
      /\ \A j \in Ino : HeldFrom(b, 1, j) <=> i = j \/ LockedAt(b, j)
      /\ \A j \in Ino : Cardinality(GivesOf(todo, j)) = 0
  <2>2. Does1(b, Unlock(i))  BY <1>3, <1>4 DEF UnlockPut, Does1
  <2>3. Keeps(b, c, i, i) > 0
    <3>1. Keeps(b, c, i, i) = Same(c, i) + Same(i, i)  BY <1>4, DoneIs
    <3> QED  BY <3>1, <1>1, <1>2, SameIs
  <2> QED  BY <2>3, <2>2, <1>1, <1>2, <1>4, <1>5, FormUnlock
<1>9. \A j \in Ino : HeldFrom(b, 1, j) <=> LockedAt(a, j)  BY <1>5, <1>6, <1>8
<1>10. \A j \in Ino : Cardinality(GivesOf(todo, j)) + Same(c, j) + Same(i, j) =
                      Keeps(a, c, f, j) + Same(None, j)
  BY <1>1, <1>2, <1>7, <1>8, SameIs
<1> QED  BY <1>1, <1>2, <1>4, <1>8, <1>9, <1>10, DoneBecomes

LEMMA Used ==
  ASSUME NEW a, NEW c, NEW f, Right(a, c, f), a.pc = "user", f # None,
         NEW b, b = Done(<<Lock(f), Unlock(f)>>)
  PROVE  Becomes(a, c, f, b, c, f, None)
<1>1. c \in Ino /\ f \in Ino \cup {None} /\ a.call # "newname"  BY Here DEF PointRight
<1>2. PICK i \in Ino : i = f  BY <1>1
<1>3. PICK todo : todo = <<Lock(i), Unlock(i)>>  OBVIOUS
<1>4. b = Done(todo) /\ b.todo = todo  BY <1>2, <1>3, DoneIs
<1>5. \A j \in Ino : ~LockedAt(b, j)  BY <1>4, DoneIs
<1>6. \A j \in Ino : LockedAt(a, j) <=> FALSE  BY <1>1, <1>2, PointUser
<1>7. \A j \in Ino : Keeps(a, c, f, j) = Same(c, j) + Same(f, j)
  BY <1>1, <1>2, KeepsUser
<1>8. /\ StepsRight(b, c, f) /\ todo \in Seq(Step)
      /\ \A j \in Ino : HeldFrom(b, 1, j) <=> i # j /\ LockedAt(b, j)
      /\ \A j \in Ino : Cardinality(GivesOf(todo, j)) = 0
  <2>2. Does2(b, Lock(i), Unlock(i))  BY <1>3, <1>4 DEF UnlockPut, Does2
  <2>3. Keeps(b, c, f, i) > 0
    <3>1. Keeps(b, c, f, i) = Same(c, i) + Same(f, i)  BY <1>4, DoneIs
    <3> QED  BY <3>1, <1>1, <1>2, SameIs
  <2> QED  BY <2>3, <2>2, <1>1, <1>2, <1>4, <1>5, FormLockUnlock
<1>9. \A j \in Ino : HeldFrom(b, 1, j) <=> LockedAt(a, j)  BY <1>5, <1>6, <1>8
<1>10. \A j \in Ino : Cardinality(GivesOf(todo, j)) + Same(c, j) + Same(f, j) =
                      Keeps(a, c, f, j) + Same(None, j)
  BY <1>1, <1>2, <1>7, <1>8, SameIs
<1> QED  BY <1>1, <1>2, <1>4, <1>8, <1>9, <1>10, DoneBecomes

LEMMA Closed ==
  ASSUME NEW a, NEW c, NEW f, Right(a, c, f), a.pc = "user", f # None,
         NEW b, b = Done(<<Put(f)>>)
  PROVE  Becomes(a, c, f, b, c, None, None)
<1>1. c \in Ino /\ f \in Ino \cup {None} /\ a.call # "newname"  BY Here DEF PointRight
<1>2. PICK i \in Ino : i = f  BY <1>1
<1>3. PICK todo : todo = <<Put(i)>>  OBVIOUS
<1>4. b = Done(todo) /\ b.todo = todo  BY <1>2, <1>3, DoneIs
<1>5. \A j \in Ino : ~LockedAt(b, j)  BY <1>4, DoneIs
<1>6. \A j \in Ino : LockedAt(a, j) <=> FALSE  BY <1>1, <1>2, PointUser
<1>7. \A j \in Ino : Keeps(a, c, f, j) = Same(c, j) + Same(f, j)
  BY <1>1, <1>2, KeepsUser
<1>8. /\ StepsRight(b, c, None) /\ todo \in Seq(Step)
      /\ \A j \in Ino : HeldFrom(b, 1, j) <=> LockedAt(b, j)
      /\ \A j \in Ino : Cardinality(GivesOf(todo, j)) = Same(i, j)
  <2>2. Does1(b, Put(i))  BY <1>3, <1>4 DEF UnlockPut, Does1
  <2> QED  BY <2>2, <1>1, <1>2, <1>4, <1>5, FormPut
<1>9. \A j \in Ino : HeldFrom(b, 1, j) <=> LockedAt(a, j)  BY <1>5, <1>6, <1>8
<1>10. \A j \in Ino : Cardinality(GivesOf(todo, j)) + Same(c, j) + Same(None, j) =
                      Keeps(a, c, f, j) + Same(None, j)
  BY <1>1, <1>2, <1>7, <1>8, SameIs
<1> QED  BY <1>1, <1>2, <1>4, <1>8, <1>9, <1>10, DoneBecomes

LEMMA Nowhere ==
  ASSUME NEW a, NEW c, NEW f, Right(a, c, f), a.pc = "user", NEW i \in Ino,
         NEW b, b = Done(<<Put(i)>>)
  PROVE  Becomes(a, c, f, b, c, f, i)
<1>1. c \in Ino /\ f \in Ino \cup {None} /\ a.call # "newname"  BY Here DEF PointRight
<1>2. PICK todo : todo = <<Put(i)>>  OBVIOUS
<1>3. b = Done(todo) /\ b.todo = todo  BY <1>2, DoneIs
<1>4. \A j \in Ino : ~LockedAt(b, j)  BY <1>3, DoneIs
<1>5. \A j \in Ino : LockedAt(a, j) <=> FALSE  BY <1>1, PointUser
<1>6. \A j \in Ino : Keeps(a, c, f, j) = Same(c, j) + Same(f, j)
  BY <1>1, KeepsUser
<1>7. /\ StepsRight(b, c, f) /\ todo \in Seq(Step)
      /\ \A j \in Ino : HeldFrom(b, 1, j) <=> LockedAt(b, j)
      /\ \A j \in Ino : Cardinality(GivesOf(todo, j)) = Same(i, j)
  <2>1. Does1(b, Put(i))  BY <1>2, <1>3 DEF Does1
  <2> QED  BY <2>1, <1>1, <1>3, <1>4, FormPut
<1>8. \A j \in Ino : HeldFrom(b, 1, j) <=> LockedAt(a, j)  BY <1>4, <1>5, <1>7
<1>9. \A j \in Ino : Cardinality(GivesOf(todo, j)) + Same(c, j) + Same(f, j) =
                     Keeps(a, c, f, j) + Same(i, j)
  BY <1>1, <1>6, <1>7, SameIs
<1> QED  BY <1>1, <1>3, <1>7, <1>8, <1>9, DoneBecomes

LEMMA WentTo ==
  ASSUME NEW a, NEW c, NEW f, Right(a, c, f), a.pc = "chdir",
         NEW b, b = Done(<<Unlock(a.ip), Put(c)>>)
  PROVE  Becomes(a, c, f, b, a.ip, f, None)
<1>1. c \in Ino /\ f \in Ino \cup {None} /\ a.ip \in Ino /\ a.call # "newname" /\ a.pc \in AtIp
  BY Here DEF AtIp, PointRight
<1>2. PICK i \in Ino : i = a.ip  BY <1>1
<1>3. PICK todo : todo = <<Unlock(i), Put(c)>>  OBVIOUS
<1>4. b = Done(todo) /\ b.todo = todo  BY <1>2, <1>3, DoneIs
<1>5. \A j \in Ino : ~LockedAt(b, j)  BY <1>4, DoneIs
<1>6. \A j \in Ino : LockedAt(a, j) <=> i = j  BY <1>1, <1>2, PointIp
<1>7. \A j \in Ino : Keeps(a, c, f, j) = Same(c, j) + Same(f, j) + Same(i, j)
  BY <1>1, <1>2, KeepsIp
<1>8. /\ StepsRight(b, i, f) /\ todo \in Seq(Step)
      /\ \A j \in Ino : HeldFrom(b, 1, j) <=> i = j \/ LockedAt(b, j)
      /\ \A j \in Ino : Cardinality(GivesOf(todo, j)) = Same(c, j)
  <2>2. Does2(b, Unlock(i), Put(c))  BY <1>3, <1>4 DEF UnlockPut, Does2
  <2>3. Keeps(b, i, f, i) > 0
    <3>1. Keeps(b, i, f, i) = Same(i, i) + Same(f, i)  BY <1>4, DoneIs
    <3> QED  BY <3>1, <1>1, <1>2, SameIs
  <2> QED  BY <2>3, <2>2, <1>1, <1>2, <1>4, <1>5, FormUnlockPut
<1>9. \A j \in Ino : HeldFrom(b, 1, j) <=> LockedAt(a, j)  BY <1>5, <1>6, <1>8
<1>10. \A j \in Ino : Cardinality(GivesOf(todo, j)) + Same(i, j) + Same(f, j) =
                      Keeps(a, c, f, j) + Same(None, j)
  BY <1>1, <1>2, <1>7, <1>8, SameIs
<1> QED  BY <1>1, <1>2, <1>4, <1>8, <1>9, <1>10, DoneBecomes

LEMMA EnteredOpen ==
  ASSUME NEW a, NEW c, NEW f, Right(a, c, f), a.pc = "enter", a.call = "create",
         NEW b, b = Done(UnlockPut(a.ip) \o <<Unlock(a.other)>>)
  PROVE  Becomes(a, c, f, b, c, a.other, None)
<1>1. c \in Ino /\ f \in Ino \cup {None} /\ a.ip \in Ino /\ a.other \in Ino /\ a.ip # a.other /\ f = None  BY Here DEF AtBoth
<1>2. PICK i, k \in Ino : i = a.ip /\ k = a.other  BY <1>1
<1>3. PICK todo : todo = UnlockPut(i) \o <<Unlock(k)>>  OBVIOUS
<1>4. b = Done(todo) /\ b.todo = todo  BY <1>2, <1>3, DoneIs
<1>5. \A j \in Ino : ~LockedAt(b, j)  BY <1>4, DoneIs
<1>6. \A j \in Ino : LockedAt(a, j) <=> i = j \/ k = j  BY <1>1, <1>2, PointBoth DEF AtBoth
<1>7. \A j \in Ino : Keeps(a, c, f, j) = Same(c, j) + Same(f, j) + Same(i, j) + Same(k, j)
  BY <1>1, <1>2, KeepsBoth DEF AtBoth
<1>8. /\ StepsRight(b, c, k) /\ todo \in Seq(Step)
      /\ \A j \in Ino : HeldFrom(b, 1, j) <=> i = j \/ k = j \/ LockedAt(b, j)
      /\ \A j \in Ino : Cardinality(GivesOf(todo, j)) = Same(i, j)
  <2>1. Unlock(i) \in Step /\ Put(i) \in Step /\ Unlock(k) \in Step
    BY Ops
  <2>2. Does3(b, Unlock(i), Put(i), Unlock(k))  BY <1>3, <1>4, <2>1, Join21 DEF UnlockPut, Does3
  <2>3. Keeps(b, c, k, k) > 0
    <3>1. Keeps(b, c, k, k) = Same(c, k) + Same(k, k)  BY <1>4, DoneIs
    <3> QED  BY <3>1, <1>1, <1>2, SameIs
  <2> QED  BY <2>3, <2>2, <1>1, <1>2, <1>4, <1>5, FormUnlockPutUnlock
<1>9. \A j \in Ino : HeldFrom(b, 1, j) <=> LockedAt(a, j)  BY <1>5, <1>6, <1>8
<1>10. \A j \in Ino : Cardinality(GivesOf(todo, j)) + Same(c, j) + Same(k, j) =
                      Keeps(a, c, f, j) + Same(None, j)
  BY <1>1, <1>2, <1>7, <1>8, SameIs
<1> QED  BY <1>1, <1>2, <1>4, <1>8, <1>9, <1>10, DoneBecomes

LEMMA Entered ==
  ASSUME NEW a, NEW c, NEW f, Right(a, c, f), a.pc = "enter",
         NEW b, b = Done(UnlockPut(a.ip) \o UnlockPut(a.other))
  PROVE  Becomes(a, c, f, b, c, f, None)
<1>1. c \in Ino /\ f \in Ino \cup {None} /\ a.ip \in Ino /\ a.other \in Ino /\ a.ip # a.other  BY Here DEF AtBoth
<1>2. PICK i, k \in Ino : i = a.ip /\ k = a.other  BY <1>1
<1>3. PICK todo : todo = UnlockPut(i) \o UnlockPut(k)  OBVIOUS
<1>4. b = Done(todo) /\ b.todo = todo  BY <1>2, <1>3, DoneIs
<1>5. \A j \in Ino : ~LockedAt(b, j)  BY <1>4, DoneIs
<1>6. \A j \in Ino : LockedAt(a, j) <=> i = j \/ k = j  BY <1>1, <1>2, PointBoth DEF AtBoth
<1>7. \A j \in Ino : Keeps(a, c, f, j) = Same(c, j) + Same(f, j) + Same(i, j) + Same(k, j)
  BY <1>1, <1>2, KeepsBoth DEF AtBoth
<1>8. /\ StepsRight(b, c, f) /\ todo \in Seq(Step)
      /\ \A j \in Ino : HeldFrom(b, 1, j) <=> i = j \/ k = j \/ LockedAt(b, j)
      /\ \A j \in Ino : Cardinality(GivesOf(todo, j)) = Same(i, j) + Same(k, j)
  <2>2. Does4(b, Unlock(i), Put(i), Unlock(k), Put(k))  BY <1>3, <1>4, PutsTwo
  <2> QED  BY <2>2, <1>1, <1>2, <1>4, <1>5, FormUnlockPutTwice
<1>9. \A j \in Ino : HeldFrom(b, 1, j) <=> LockedAt(a, j)  BY <1>5, <1>6, <1>8
<1>10. \A j \in Ino : Cardinality(GivesOf(todo, j)) + Same(c, j) + Same(f, j) =
                      Keeps(a, c, f, j) + Same(None, j)
  BY <1>1, <1>2, <1>7, <1>8, SameIs
<1> QED  BY <1>1, <1>2, <1>4, <1>8, <1>9, <1>10, DoneBecomes

LEMMA Full ==
  ASSUME NEW a, NEW c, NEW f, Right(a, c, f), a.pc = "erase",
         NEW b, b = Done(UnlockPut(a.other) \o UnlockPut(a.ip))
  PROVE  Becomes(a, c, f, b, c, f, None)
<1>1. c \in Ino /\ f \in Ino \cup {None} /\ a.ip \in Ino /\ a.other \in Ino /\ a.ip # a.other  BY Here DEF AtBoth
<1>2. PICK i, k \in Ino : i = a.other /\ k = a.ip  BY <1>1
<1>3. PICK todo : todo = UnlockPut(i) \o UnlockPut(k)  OBVIOUS
<1>4. b = Done(todo) /\ b.todo = todo  BY <1>2, <1>3, DoneIs
<1>5. \A j \in Ino : ~LockedAt(b, j)  BY <1>4, DoneIs
<1>6. \A j \in Ino : LockedAt(a, j) <=> i = j \/ k = j  BY <1>1, <1>2, PointBoth DEF AtBoth
<1>7. \A j \in Ino : Keeps(a, c, f, j) = Same(c, j) + Same(f, j) + Same(k, j) + Same(i, j)
  BY <1>1, <1>2, KeepsBoth DEF AtBoth
<1>8. /\ StepsRight(b, c, f) /\ todo \in Seq(Step)
      /\ \A j \in Ino : HeldFrom(b, 1, j) <=> i = j \/ k = j \/ LockedAt(b, j)
      /\ \A j \in Ino : Cardinality(GivesOf(todo, j)) = Same(i, j) + Same(k, j)
  <2>2. Does4(b, Unlock(i), Put(i), Unlock(k), Put(k))  BY <1>3, <1>4, PutsTwo
  <2>3. i # k /\ ~LockedAt(b, i) /\ ~LockedAt(b, k)  BY <1>1, <1>2, <1>5
  <2>4. /\ StepsRight(b, c, f) /\ b.todo \in Seq(Step)
        /\ \A j \in Ino : HeldFrom(b, 1, j) <=> i = j \/ k = j \/ LockedAt(b, j)
        /\ \A j \in Ino : Cardinality(GivesOf(b.todo, j)) = Same(i, j) + Same(k, j)
    BY <2>2, <2>3, FormUnlockPutTwice
  <2> QED  BY <2>4, <1>4
<1>9. \A j \in Ino : HeldFrom(b, 1, j) <=> LockedAt(a, j)  BY <1>5, <1>6, <1>8
<1>10. \A j \in Ino : Cardinality(GivesOf(todo, j)) + Same(c, j) + Same(f, j) =
                      Keeps(a, c, f, j) + Same(None, j)
  BY <1>1, <1>2, <1>7, <1>8, SameIs
<1> QED  BY <1>1, <1>2, <1>4, <1>8, <1>9, <1>10, DoneBecomes

LEMMA Linked ==
  ASSUME NEW a, NEW c, NEW f, Right(a, c, f), a.pc = "newname",
         NEW b, b = Done(UnlockPut(a.ip) \o <<Put(a.other)>>)
  PROVE  Becomes(a, c, f, b, c, f, None)
<1>1. c \in Ino /\ f \in Ino \cup {None} /\ a.ip \in Ino /\ a.other \in Ino /\ a.call = "newname"  BY Here DEF AtIp, PointRight
<1>2. PICK i, k \in Ino : i = a.ip /\ k = a.other  BY <1>1
<1>3. PICK todo : todo = UnlockPut(i) \o <<Put(k)>>  OBVIOUS
<1>4. b = Done(todo) /\ b.todo = todo  BY <1>2, <1>3, DoneIs
<1>5. \A j \in Ino : ~LockedAt(b, j)  BY <1>4, DoneIs
<1>6. \A j \in Ino : LockedAt(a, j) <=> i = j  BY <1>1, <1>2, PointIp DEF AtIp
<1>7. \A j \in Ino : Keeps(a, c, f, j) = Same(c, j) + Same(f, j) + Same(i, j) + Same(k, j)
  BY <1>1, <1>2, KeepsNew DEF AtIp
<1>8. /\ StepsRight(b, c, f) /\ todo \in Seq(Step)
      /\ \A j \in Ino : HeldFrom(b, 1, j) <=> i = j \/ LockedAt(b, j)
      /\ \A j \in Ino : Cardinality(GivesOf(todo, j)) = Same(i, j) + Same(k, j)
  <2>1. Unlock(i) \in Step /\ Put(i) \in Step /\ Put(k) \in Step
    BY Ops
  <2>2. Does3(b, Unlock(i), Put(i), Put(k))  BY <1>3, <1>4, <2>1, Join21 DEF UnlockPut, Does3
  <2> QED  BY <2>2, <1>1, <1>2, <1>4, <1>5, FormUnlockPutPut
<1>9. \A j \in Ino : HeldFrom(b, 1, j) <=> LockedAt(a, j)  BY <1>5, <1>6, <1>8
<1>10. \A j \in Ino : Cardinality(GivesOf(todo, j)) + Same(c, j) + Same(f, j) =
                      Keeps(a, c, f, j) + Same(None, j)
  BY <1>1, <1>2, <1>7, <1>8, SameIs
<1> QED  BY <1>1, <1>2, <1>4, <1>8, <1>9, <1>10, DoneBecomes
GoesTo(a, pc, todo) == [a EXCEPT !.pc = pc, !.todo = todo]

With(a, pc, i, todo) == [a EXCEPT !.pc = pc, !.other = i, !.todo = todo]

\* From(p, ...) of module Inode for the call a of p.
FromOf(a, call, names, i, todo) ==
    [a EXCEPT
        !.call = call, !.ip = i, !.todo = todo,
        !.pc = IF names = <<>> THEN call ELSE "walk",
        !.names = names]

NewThen(a, w) == [a EXCEPT !.then = w]
NewName(a, name) == [a EXCEPT !.name = name]

LEMMA GoesIs ==
  ASSUME NEW a \in Calling, NEW pc \in Places, NEW todo \in Seq(Step)
  PROVE  LET b == GoesTo(a, pc, todo)
         IN  /\ b \in Calling /\ b.pc = pc /\ b.todo = todo /\ b.call = a.call
             /\ b.names = a.names /\ b.name = a.name /\ b.ip = a.ip /\ b.other = a.other
             /\ b.then = a.then
BY DEF GoesTo, Calling

LEMMA WithIs ==
  ASSUME NEW a \in Calling, NEW pc \in Places, NEW i \in Ino, NEW todo \in Seq(Step)
  PROVE  LET b == With(a, pc, i, todo)
         IN  /\ b \in Calling /\ b.pc = pc /\ b.todo = todo /\ b.call = a.call
             /\ b.names = a.names /\ b.name = a.name /\ b.ip = a.ip /\ b.other = i
             /\ b.then = a.then
BY DEF With, Calling

LEMMA FromIs ==
  ASSUME NEW a \in Calling, NEW call \in CallNames, call \in Places, NEW names \in Seq(Entry),
         NEW i \in Ino, NEW todo \in Seq(Step), NEW b, b = FromOf(a, call, names, i, todo)
  PROVE  /\ b \in Calling /\ b.pc = (IF names = <<>> THEN call ELSE "walk")
         /\ b.todo = todo /\ b.call = call
         /\ b.names = names /\ b.name = a.name /\ b.ip = i /\ b.other = a.other
         /\ b.then = a.then
<1>1. PICK pc \in Places : pc = IF names = <<>> THEN call ELSE "walk"  BY DEF Places
<1>2. b = [a EXCEPT !.call = call, !.ip = i, !.todo = todo, !.pc = pc, !.names = names]
  BY <1>1 DEF FromOf
<1>3. /\ b \in Calling /\ b.pc = pc /\ b.todo = todo /\ b.call = call
      /\ b.names = names /\ b.name = a.name /\ b.ip = i /\ b.other = a.other
      /\ b.then = a.then
  <2>1. b \in Calling  BY <1>2 DEF Calling
  <2>2. b.pc = pc /\ b.todo = todo /\ b.call = call  BY <1>2 DEF Calling
  <2>3. b.names = names /\ b.name = a.name /\ b.ip = i  BY <1>2 DEF Calling
  <2>4. b.other = a.other /\ b.then = a.then  BY <1>2 DEF Calling
  <2> QED  BY <2>1, <2>2, <2>3, <2>4
<1> QED  BY <1>1, <1>3

LEMMA ThenIs ==
  ASSUME NEW a \in Calling, NEW w \in Path \cup {<<>>}, NEW b, b = NewThen(a, w)
  PROVE  /\ b \in Calling /\ b.pc = a.pc /\ b.todo = a.todo /\ b.call = a.call
         /\ b.names = a.names /\ b.name = a.name /\ b.ip = a.ip /\ b.other = a.other
         /\ b.then = w
BY DEF Calling, NewThen

LEMMA NameIs ==
  ASSUME NEW a \in Calling, NEW name \in Entry, NEW b, b = NewName(a, name)
  PROVE  /\ b \in Calling /\ b.pc = a.pc /\ b.todo = a.todo /\ b.call = a.call
         /\ b.names = a.names /\ b.name = name /\ b.ip = a.ip /\ b.other = a.other
         /\ b.then = a.then
BY DEF Calling, NewName

LEMMA ChangeBecomes ==
  ASSUME NEW a, NEW c0, NEW f0, NEW b \in Calling, NEW c \in Ino,
         NEW f \in Ino \cup {None}, NEW x, PointRight(b),
         b.call \in {"open", "create"} => f = None,
         StepsRight(b, c, f),
         \A j \in Ino : HeldFrom(b, 1, j) \/ Twice(b, j) <=> LockedAt(a, j),
         \A j \in Ino : Keeps(b, c, f, j) + Cardinality(GivesOf(b.todo, j))
                        = Keeps(a, c0, f0, j) + Same(x, j)
  PROVE  Becomes(a, c0, f0, b, c, f, x)
<1>1. CallRight(b, c, f)  BY DEF CallRight, StepsRight
<1>2. \A j \in Ino : Holds(b, j) <=> LockedAt(a, j)  BY DEF Holds
<1>3. \A j \in Ino : Owns(b, c, f, j) = Keeps(a, c0, f0, j) + Same(x, j)  BY DEF Owns
<1> QED  BY <1>1, <1>2, <1>3 DEF Becomes

LEMMA Dotted ==
  ASSUME NEW a, NEW c, NEW f, Right(a, c, f), a.pc \in AtBoth, NEW pc \in {"dotdot", "enter"},
         NEW b, b = GoesTo(a, pc, <<>>)
  PROVE  Becomes(a, c, f, b, c, f, None)
<1>1. /\ a \in Calling /\ c \in Ino /\ f \in Ino \cup {None} /\ PointRight(a)
      /\ a.ip \in Ino /\ a.other \in Ino /\ a.ip # a.other
      /\ a.call \in {"open", "create"} => f = None
  BY Here
<1>2. PICK todo : todo = <<>>  OBVIOUS
<1>3. todo \in Seq(Step)  BY <1>2, EmptySeq
<1>4. /\ b \in Calling /\ b.pc = pc /\ b.todo = todo /\ b.call = a.call
      /\ b.names = a.names /\ b.name = a.name /\ b.ip = a.ip /\ b.other = a.other
      /\ b.then = a.then
  <2>1. pc \in Places  BY DEF Places
  <2>2. a \in Calling  BY <1>1
  <2>3. b = GoesTo(a, pc, todo)  BY <1>2
  <2> QED  BY <1>3, <2>1, <2>2, <2>3, GoesIs
<1>5. b.pc \in AtBoth  BY <1>4 DEF AtBoth
<1>6. PointRight(b)
  BY <1>1, <1>4 DEF PointRight, AtIp, AtOther, AtBoth, ToParent
<1>7. /\ StepsRight(b, c, f)
      /\ \A j \in Ino : HeldFrom(b, 1, j) <=> LockedAt(b, j)
      /\ \A j \in Ino : Cardinality(GivesOf(b.todo, j)) = 0
  BY <1>2, <1>4, Form0
<1>8. /\ \A j \in Ino : LockedAt(a, j) <=> a.ip = j \/ a.other = j
      /\ \A j \in Ino : LockedAt(b, j) <=> a.ip = j \/ a.other = j
      /\ \A j \in Ino : ~Twice(b, j)
  <2>1. \A j \in Ino : LockedAt(a, j) <=> a.ip = j \/ a.other = j  BY LockedBoth
  <2>2. \A j \in Ino : LockedAt(b, j) <=> a.ip = j \/ a.other = j  BY <1>4, <1>5, LockedBoth
  <2>3. \A j \in Ino : ~Twice(b, j)  BY <1>1, <1>4, <1>5, LockedBoth
  <2> QED  BY <2>1, <2>2, <2>3
<1>9. \A j \in Ino : Keeps(b, c, f, j) = Keeps(a, c, f, j) /\ Keeps(a, c, f, j) \in Nat
  BY <1>4, <1>5, KeepsBoth, KeepsNat
<1>10. \A j \in Ino : HeldFrom(b, 1, j) \/ Twice(b, j) <=> LockedAt(a, j)  BY <1>7, <1>8
<1>11. \A j \in Ino : Keeps(b, c, f, j) + Cardinality(GivesOf(b.todo, j))
                      = Keeps(a, c, f, j) + Same(None, j)
  BY <1>7, <1>9, SameIs
<1>12. b.call \in {"open", "create"} => f = None  BY <1>1, <1>4
<1> QED  BY <1>1, <1>4, <1>6, <1>7, <1>10, <1>11, <1>12, ChangeBecomes
LEMMA Wrote ==
  ASSUME NEW a, NEW c, NEW f, Right(a, c, f), a.pc \in AtBoth, NEW pc \in {"count", "enter", "dot"},
         NEW i \in {a.ip, a.other},
         NEW b, b = GoesTo(a, pc, <<Update(i)>>)
  PROVE  Becomes(a, c, f, b, c, f, None)
<1>1. /\ a \in Calling /\ c \in Ino /\ f \in Ino \cup {None} /\ PointRight(a)
      /\ a.call \in {"open", "create"} => f = None
      /\ a.ip \in Ino /\ a.other \in Ino /\ a.ip # a.other /\ i \in Ino
  BY Here
<1>2. PICK todo : todo = <<Update(i)>>  OBVIOUS
<1>3. todo = <<Update(i)>> /\ todo \in Seq(Step)
  <2>1. Update(i) \in Step  BY <1>1, Ops
  <2>2. todo = <<Update(i)>>  BY <1>2, <2>1 DEF UnlockPut
  <2> QED  BY <2>1, <2>2
<1>4. /\ b \in Calling /\ b.todo = todo
      /\ b.pc = pc /\ b.call = a.call /\ b.names = a.names /\ b.name = a.name
      /\ b.ip = a.ip /\ b.other = a.other /\ b.then = a.then
  <2>1. pc \in Places  BY DEF Places
  <2>2. b = GoesTo(a, pc, todo)  BY <1>2
  <2>3. a \in Calling /\ todo \in Seq(Step)  BY <1>1, <1>3
  <2> QED  BY <2>1, <2>2, <2>3, GoesIs
<1>5. PointRight(b)
  BY <1>1, <1>4 DEF PointRight, AtIp, AtOther, AtBoth, ToParent
<1>6. a.pc \in AtBoth /\ b.pc \in AtBoth
  BY <1>1, <1>4 DEF AtIp, AtOther, AtBoth
<1>7. \A j \in Ino : LockedAt(a, j) <=> a.ip = j \/ a.other = j  BY <1>1, <1>6, LockedBoth
<1>8. \A j \in Ino : LockedAt(b, j) <=> a.ip = j \/ a.other = j  BY <1>1, <1>4, <1>6, LockedBoth
<1>9. \A j \in Ino : ~Twice(b, j)  BY <1>1, <1>4, <1>6, LockedBoth
<1>10. \A j \in Ino : Keeps(a, c, f, j) = Same(c, j) + Same(f, j) + Same(a.ip, j) + Same(a.other, j)
  BY <1>1, <1>6, KeepsBoth
<1>11. \A j \in Ino : Keeps(b, c, f, j) = Same(c, j) + Same(f, j) + Same(a.ip, j) + Same(a.other, j)
  BY <1>1, <1>4, <1>6, KeepsBoth
<1>12. /\ StepsRight(b, c, f)
       /\ \A j \in Ino : HeldFrom(b, 1, j) <=> LockedAt(b, j)
       /\ \A j \in Ino : Cardinality(GivesOf(b.todo, j)) = 0
  <2>1. Does1(b, Update(i))  BY <1>3, <1>4 DEF Does1
  <2>3. i \in Ino /\ LockedAt(b, i)
    BY <1>1, <1>8
  <2>4. StepsRight(b, c, f)  BY <2>1, <2>3, FormUpdate
  <2>5. \A j \in Ino : HeldFrom(b, 1, j) <=> LockedAt(b, j)
    BY <2>1, <2>3, FormUpdate
  <2>6. \A j \in Ino : Cardinality(GivesOf(b.todo, j)) = 0
    BY <2>1, <2>3, FormUpdate
  <2> QED  BY <2>4, <2>5, <2>6
<1>13. \A j \in Ino : HeldFrom(b, 1, j) \/ Twice(b, j) <=> LockedAt(a, j)
  BY <1>1, <1>7, <1>8, <1>9, <1>12
<1>14. \A j \in Ino : Keeps(b, c, f, j) + Cardinality(GivesOf(b.todo, j))
                       = Keeps(a, c, f, j) + Same(None, j)
  BY <1>1, <1>10, <1>11, <1>12, SameIs
<1>15. b.call \in {"open", "create"} => f = None  BY <1>1, <1>4
<1> QED  BY <1>1, <1>4, <1>5, <1>12, <1>13, <1>14, <1>15, ChangeBecomes

LEMMA WalkUndone ==
  ASSUME NEW a, NEW c, NEW f, Right(a, c, f), a.pc = "walk", a.call = "newname",
         NEW b, b = GoesTo(a, "undo", UnlockPut(a.ip) \o <<Lock(a.other)>>)
  PROVE  Becomes(a, c, f, b, c, f, None)
<1>1. /\ a \in Calling /\ c \in Ino /\ f \in Ino \cup {None} /\ PointRight(a)
      /\ a.call \in {"open", "create"} => f = None
      /\ a.ip \in Ino /\ a.other \in Ino
  BY Here DEF AtIp, AtOther, AtBoth
<1>2. PICK todo : todo = UnlockPut(a.ip) \o <<Lock(a.other)>>  OBVIOUS
<1>3. todo = <<Unlock(a.ip), Put(a.ip), Lock(a.other)>> /\ todo \in Seq(Step)
  <2>1. Unlock(a.ip) \in Step /\ Put(a.ip) \in Step /\ Lock(a.other) \in Step  BY <1>1, Ops
  <2>2. todo = <<Unlock(a.ip), Put(a.ip), Lock(a.other)>>  BY <1>2, <2>1, Join21 DEF UnlockPut
  <2> QED  BY <2>1, <2>2
<1>4. /\ b \in Calling /\ b.todo = todo
      /\ b.pc = "undo" /\ b.call = a.call /\ b.names = a.names /\ b.name = a.name
      /\ b.ip = a.ip /\ b.other = a.other /\ b.then = a.then
  <2>1. "undo" \in Places  BY DEF Places
  <2>2. b = GoesTo(a, "undo", todo)  BY <1>2
  <2>3. a \in Calling /\ todo \in Seq(Step)  BY <1>1, <1>3
  <2> QED  BY <2>1, <2>2, <2>3, GoesIs
<1>5. PointRight(b)
  BY <1>1, <1>4 DEF PointRight, AtIp, AtOther, AtBoth, ToParent
<1>6. a.pc \in AtIp /\ b.pc \in AtOther
  BY <1>1, <1>4 DEF AtIp, AtOther, AtBoth
<1>7. \A j \in Ino : LockedAt(a, j) <=> a.ip = j  BY <1>1, <1>6, LockedIp
<1>8. \A j \in Ino : LockedAt(b, j) <=> a.other = j  BY <1>1, <1>4, <1>6, LockedOther
<1>9. \A j \in Ino : ~Twice(b, j)  BY <1>1, <1>4, <1>6, LockedOther
<1>10. \A j \in Ino : Keeps(a, c, f, j) = Same(c, j) + Same(f, j) + Same(a.ip, j) + Same(a.other, j)
  BY <1>1, <1>6, KeepsNew
<1>11. \A j \in Ino : Keeps(b, c, f, j) = Same(c, j) + Same(f, j) + Same(a.other, j)
  BY <1>1, <1>4, <1>6, KeepsOther
<1>12. /\ StepsRight(b, c, f)
       /\ \A j \in Ino : HeldFrom(b, 1, j) <=> a.ip = j \/ (a.other # j /\ LockedAt(b, j))
       /\ \A j \in Ino : Cardinality(GivesOf(b.todo, j)) = Same(a.ip, j)
  <2>1. Does3(b, Unlock(a.ip), Put(a.ip), Lock(a.other))  BY <1>3, <1>4 DEF Does3
  <2>3. /\ a.ip \in Ino /\ a.other \in Ino
        /\ LockedAt(b, a.other) /\ (a.ip # a.other => ~LockedAt(b, a.ip))
    BY <1>1, <1>8
  <2>4. StepsRight(b, c, f)  BY <2>1, <2>3, FormUnlockPutLock
  <2>5. \A j \in Ino : HeldFrom(b, 1, j) <=> a.ip = j \/ (a.other # j /\ LockedAt(b, j))
    BY <2>1, <2>3, FormUnlockPutLock
  <2>6. \A j \in Ino : Cardinality(GivesOf(b.todo, j)) = Same(a.ip, j)
    BY <2>1, <2>3, FormUnlockPutLock
  <2> QED  BY <2>4, <2>5, <2>6
<1>13. \A j \in Ino : HeldFrom(b, 1, j) \/ Twice(b, j) <=> LockedAt(a, j)
  BY <1>1, <1>7, <1>8, <1>9, <1>12
<1>14. \A j \in Ino : Keeps(b, c, f, j) + Cardinality(GivesOf(b.todo, j))
                       = Keeps(a, c, f, j) + Same(None, j)
  BY <1>1, <1>10, <1>11, <1>12, SameIs
<1>15. b.call \in {"open", "create"} => f = None  BY <1>1, <1>4
<1> QED  BY <1>1, <1>4, <1>5, <1>12, <1>13, <1>14, <1>15, ChangeBecomes

LEMMA LinkUndone ==
  ASSUME NEW a, NEW c, NEW f, Right(a, c, f), a.pc = "renamed", NEW e \in Ino,
         NEW b, b = GoesTo(a, "undo", <<Put(e), Lock(a.other)>>)
  PROVE  Becomes(a, c, f, b, c, f, e)
<1>1. /\ a \in Calling /\ c \in Ino /\ f \in Ino \cup {None} /\ PointRight(a)
      /\ a.call \in {"open", "create"} => f = None
      /\ a.other \in Ino
  BY Here
<1>2. PICK todo : todo = <<Put(e), Lock(a.other)>>  OBVIOUS
<1>3. todo \in Seq(Step)
  <2>1. Put(e) \in Step /\ Lock(a.other) \in Step  BY <1>1, Ops
  <2> QED  BY <1>2, <2>1
<1>4. /\ b \in Calling /\ b.todo = todo
      /\ b.pc = "undo" /\ b.call = a.call /\ b.names = a.names /\ b.name = a.name
      /\ b.ip = a.ip /\ b.other = a.other /\ b.then = a.then
  <2>1. "undo" \in Places  BY DEF Places
  <2>2. b = GoesTo(a, "undo", todo)  BY <1>2
  <2> QED  BY <1>1, <1>3, <2>1, <2>2, GoesIs
<1>5. PointRight(b)
  BY <1>1, <1>4 DEF PointRight, AtIp, AtOther, AtBoth, ToParent
<1>6. a.pc = "renamed" /\ b.pc \in AtOther  BY <1>4 DEF AtOther
<1>7. \A j \in Ino : LockedAt(a, j) <=> FALSE  BY <1>1, <1>6, LockedNone
<1>8. \A j \in Ino : LockedAt(b, j) <=> a.other = j  BY <1>1, <1>4, <1>6, LockedOther
<1>9. \A j \in Ino : ~Twice(b, j)  BY <1>1, <1>4, <1>6, LockedOther
<1>10. \A j \in Ino : Keeps(a, c, f, j) = Same(c, j) + Same(f, j) + Same(a.other, j)
  BY <1>1, <1>6, KeepsRenamed
<1>11. \A j \in Ino : Keeps(b, c, f, j) = Same(c, j) + Same(f, j) + Same(a.other, j)
  BY <1>1, <1>4, <1>6, KeepsOther
<1>12. /\ StepsRight(b, c, f)
       /\ \A j \in Ino : HeldFrom(b, 1, j) <=> a.other # j /\ LockedAt(b, j)
       /\ \A j \in Ino : Cardinality(GivesOf(b.todo, j)) = Same(e, j)
  <2>1. PICK k \in Ino : k = a.other  BY <1>1
  <2>2. Does2(b, Put(e), Lock(k))  BY <1>2, <1>4, <2>1 DEF Does2
  <2>3. LockedAt(b, k)  BY <1>8, <2>1
  <2>4. /\ StepsRight(b, c, f)
        /\ \A j \in Ino : /\ HeldFrom(b, 1, j) <=> k # j /\ LockedAt(b, j)
                          /\ Cardinality(GivesOf(b.todo, j)) = Same(e, j)
    BY <2>2, <2>3, FormPutLock
  <2> QED  BY <2>1, <2>4
<1>13. \A j \in Ino : HeldFrom(b, 1, j) \/ Twice(b, j) <=> LockedAt(a, j)
  BY <1>7, <1>8, <1>9, <1>12
<1>14. \A j \in Ino : Keeps(b, c, f, j) + Cardinality(GivesOf(b.todo, j))
                       = Keeps(a, c, f, j) + Same(e, j)
  BY <1>10, <1>11, <1>12, SameIs
<1>15. b.call \in {"open", "create"} => f = None  BY <1>1, <1>4
<1> QED  BY <1>1, <1>4, <1>5, <1>12, <1>13, <1>14, <1>15, ChangeBecomes

LEMMA Taken ==
  ASSUME NEW a, NEW c, NEW f, Right(a, c, f), a.pc = "newname", NEW e \in Ino,
         NEW b, b = GoesTo(a, "undo", <<Put(e)>> \o UnlockPut(a.ip) \o <<Lock(a.other)>>)
  PROVE  Becomes(a, c, f, b, c, f, e)
<1>1. /\ a \in Calling /\ c \in Ino /\ f \in Ino \cup {None} /\ PointRight(a)
      /\ a.call \in {"open", "create"} => f = None
      /\ a.ip \in Ino /\ a.other \in Ino /\ a.call = "newname"
  BY Here DEF AtIp, AtOther, AtBoth, PointRight
<1>2. PICK todo : todo = <<Put(e)>> \o UnlockPut(a.ip) \o <<Lock(a.other)>>  OBVIOUS
<1>3. todo = <<Put(e), Unlock(a.ip), Put(a.ip), Lock(a.other)>> /\ todo \in Seq(Step)
  <2>1. Put(e) \in Step /\ Unlock(a.ip) \in Step /\ Put(a.ip) \in Step /\ Lock(a.other) \in Step  BY <1>1, Ops
  <2>x1. <<Put(e)>> \o <<Unlock(a.ip), Put(a.ip)>> = <<Put(e), Unlock(a.ip), Put(a.ip)>>  BY <2>1, Join12
  <2>x2. <<Put(e), Unlock(a.ip), Put(a.ip)>> \o <<Lock(a.other)>> = <<Put(e), Unlock(a.ip), Put(a.ip), Lock(a.other)>>  BY <2>1, Join31
  <2>2. todo = <<Put(e), Unlock(a.ip), Put(a.ip), Lock(a.other)>>  BY <1>2, <2>1, <2>x1, <2>x2 DEF UnlockPut
  <2> QED  BY <2>1, <2>2
<1>4. /\ b \in Calling /\ b.todo = todo
      /\ b.pc = "undo" /\ b.call = a.call /\ b.names = a.names /\ b.name = a.name
      /\ b.ip = a.ip /\ b.other = a.other /\ b.then = a.then
  <2>1. "undo" \in Places  BY DEF Places
  <2>2. b = GoesTo(a, "undo", todo)  BY <1>2
  <2>3. a \in Calling /\ todo \in Seq(Step)  BY <1>1, <1>3
  <2> QED  BY <2>1, <2>2, <2>3, GoesIs
<1>5. PointRight(b)
  BY <1>1, <1>4 DEF PointRight, AtIp, AtOther, AtBoth, ToParent
<1>6. a.pc \in AtIp /\ b.pc \in AtOther
  BY <1>1, <1>4 DEF AtIp, AtOther, AtBoth
<1>7. \A j \in Ino : LockedAt(a, j) <=> a.ip = j  BY <1>1, <1>6, LockedIp
<1>8. \A j \in Ino : LockedAt(b, j) <=> a.other = j  BY <1>1, <1>4, <1>6, LockedOther
<1>9. \A j \in Ino : ~Twice(b, j)  BY <1>1, <1>4, <1>6, LockedOther
<1>10. \A j \in Ino : Keeps(a, c, f, j) = Same(c, j) + Same(f, j) + Same(a.ip, j) + Same(a.other, j)
  BY <1>1, <1>6, KeepsNew
<1>11. \A j \in Ino : Keeps(b, c, f, j) = Same(c, j) + Same(f, j) + Same(a.other, j)
  BY <1>1, <1>4, <1>6, KeepsOther
<1>12. /\ StepsRight(b, c, f)
       /\ \A j \in Ino : HeldFrom(b, 1, j) <=> a.ip = j \/ (a.other # j /\ LockedAt(b, j))
       /\ \A j \in Ino : Cardinality(GivesOf(b.todo, j)) = Same(e, j) + Same(a.ip, j)
  <2>1. Does4(b, Put(e), Unlock(a.ip), Put(a.ip), Lock(a.other))  BY <1>3, <1>4 DEF Does4
  <2>3. /\ a.ip \in Ino /\ a.other \in Ino
        /\ LockedAt(b, a.other) /\ (a.ip # a.other => ~LockedAt(b, a.ip))
    BY <1>1, <1>8
  <2>4. StepsRight(b, c, f)  BY <2>1, <2>3, FormPutUnlockPutLock
  <2>5. \A j \in Ino : HeldFrom(b, 1, j) <=> a.ip = j \/ (a.other # j /\ LockedAt(b, j))
    BY <2>1, <2>3, FormPutUnlockPutLock
  <2>6. \A j \in Ino : Cardinality(GivesOf(b.todo, j)) = Same(e, j) + Same(a.ip, j)
    <3>1. PICK i \in Ino, k \in Ino : i = a.ip /\ k = a.other  BY <2>3
    <3>2. Does4(b, Put(e), Unlock(i), Put(i), Lock(k))  BY <2>1, <3>1
    <3>3. LockedAt(b, k)  BY <2>3, <3>1
    <3>4. i # k => ~LockedAt(b, i)  BY <2>3, <3>1
    <3>5. \A j \in Ino : Cardinality(GivesOf(b.todo, j)) = Same(e, j) + Same(i, j)
      <4> TAKE j \in Ino
      <4>1. /\ Put(e) \in Step /\ Unlock(i) \in Step /\ Put(i) \in Step /\ Lock(k) \in Step
            /\ Gives(Put(e), j) <=> e = j
            /\ Gives(Put(i), j) <=> i = j
            /\ ~Gives(Unlock(i), j) /\ ~Gives(Lock(k), j)
        BY Ops
      <4>2. b.todo = <<Put(e), Unlock(i), Put(i), Lock(k)>>  BY <3>2 DEF Does4
      <4>3. Cardinality(GivesOf(b.todo, j)) = One(Gives(Put(e), j)) + One(Gives(Unlock(i), j))
                + One(Gives(Put(i), j)) + One(Gives(Lock(k), j))
        BY <4>1, <4>2, Gives4
      <4>4. /\ One(Gives(Put(e), j)) = Same(e, j) /\ One(Gives(Put(i), j)) = Same(i, j)
            /\ One(Gives(Unlock(i), j)) = 0 /\ One(Gives(Lock(k), j)) = 0
        BY <4>1 DEF One, Same
      <4> QED  BY <4>3, <4>4, SameIs
    <3> QED  BY <3>1, <3>5
  <2> QED  BY <2>4, <2>5, <2>6
<1>13. \A j \in Ino : HeldFrom(b, 1, j) \/ Twice(b, j) <=> LockedAt(a, j)
  BY <1>1, <1>7, <1>8, <1>9, <1>12
<1>14. \A j \in Ino : Keeps(b, c, f, j) + Cardinality(GivesOf(b.todo, j))
                       = Keeps(a, c, f, j) + Same(e, j)
  BY <1>1, <1>10, <1>11, <1>12, SameIs
<1>15. b.call \in {"open", "create"} => f = None  BY <1>1, <1>4
<1> QED  BY <1>1, <1>4, <1>5, <1>12, <1>13, <1>14, <1>15, ChangeBecomes

LEMMA ErasedDir ==
  ASSUME NEW a, NEW c, NEW f, Right(a, c, f), a.pc = "erase",
         NEW b, b = GoesTo(a, "unnamed", <<Update(a.ip)>> \o UnlockPut(a.ip))
  PROVE  Becomes(a, c, f, b, c, f, None)
<1>1. /\ a \in Calling /\ c \in Ino /\ f \in Ino \cup {None} /\ PointRight(a)
      /\ a.call \in {"open", "create"} => f = None
      /\ a.ip \in Ino /\ a.other \in Ino /\ a.ip # a.other
  BY Here DEF AtIp, AtOther, AtBoth
<1>2. PICK todo : todo = <<Update(a.ip)>> \o UnlockPut(a.ip)  OBVIOUS
<1>3. todo = <<Update(a.ip), Unlock(a.ip), Put(a.ip)>> /\ todo \in Seq(Step)
  <2>1. Update(a.ip) \in Step /\ Unlock(a.ip) \in Step /\ Put(a.ip) \in Step  BY <1>1, Ops
  <2>2. todo = <<Update(a.ip), Unlock(a.ip), Put(a.ip)>>  BY <1>2, <2>1, Join12 DEF UnlockPut
  <2> QED  BY <2>1, <2>2
<1>4. /\ b \in Calling /\ b.todo = todo
      /\ b.pc = "unnamed" /\ b.call = a.call /\ b.names = a.names /\ b.name = a.name
      /\ b.ip = a.ip /\ b.other = a.other /\ b.then = a.then
  <2>1. "unnamed" \in Places  BY DEF Places
  <2>2. b = GoesTo(a, "unnamed", todo)  BY <1>2
  <2>3. a \in Calling /\ todo \in Seq(Step)  BY <1>1, <1>3
  <2> QED  BY <2>1, <2>2, <2>3, GoesIs
<1>5. PointRight(b)
  BY <1>1, <1>4 DEF PointRight, AtIp, AtOther, AtBoth, ToParent
<1>6. a.pc \in AtBoth /\ b.pc \in AtOther
  BY <1>1, <1>4 DEF AtIp, AtOther, AtBoth
<1>7. \A j \in Ino : LockedAt(a, j) <=> a.ip = j \/ a.other = j  BY <1>1, <1>6, LockedBoth
<1>8. \A j \in Ino : LockedAt(b, j) <=> a.other = j  BY <1>1, <1>4, <1>6, LockedOther
<1>9. \A j \in Ino : ~Twice(b, j)  BY <1>1, <1>4, <1>6, LockedOther
<1>10. \A j \in Ino : Keeps(a, c, f, j) = Same(c, j) + Same(f, j) + Same(a.ip, j) + Same(a.other, j)
  BY <1>1, <1>6, KeepsBoth
<1>11. \A j \in Ino : Keeps(b, c, f, j) = Same(c, j) + Same(f, j) + Same(a.other, j)
  BY <1>1, <1>4, <1>6, KeepsOther
<1>12. /\ StepsRight(b, c, f)
       /\ \A j \in Ino : HeldFrom(b, 1, j) <=> a.ip = j \/ LockedAt(b, j)
       /\ \A j \in Ino : Cardinality(GivesOf(b.todo, j)) = Same(a.ip, j)
  <2>1. Does3(b, Update(a.ip), Unlock(a.ip), Put(a.ip))  BY <1>3, <1>4 DEF Does3
  <2>3. a.ip \in Ino /\ ~LockedAt(b, a.ip)
    BY <1>1, <1>8
  <2>4. StepsRight(b, c, f)  BY <2>1, <2>3, FormUpdateUnlockPut
  <2>5. \A j \in Ino : HeldFrom(b, 1, j) <=> a.ip = j \/ LockedAt(b, j)
    BY <2>1, <2>3, FormUpdateUnlockPut
  <2>6. \A j \in Ino : Cardinality(GivesOf(b.todo, j)) = Same(a.ip, j)
    BY <2>1, <2>3, FormUpdateUnlockPut
  <2> QED  BY <2>4, <2>5, <2>6
<1>13. \A j \in Ino : HeldFrom(b, 1, j) \/ Twice(b, j) <=> LockedAt(a, j)
  BY <1>1, <1>7, <1>8, <1>9, <1>12
<1>14. \A j \in Ino : Keeps(b, c, f, j) + Cardinality(GivesOf(b.todo, j))
                       = Keeps(a, c, f, j) + Same(None, j)
  BY <1>1, <1>10, <1>11, <1>12, SameIs
<1>15. b.call \in {"open", "create"} => f = None  BY <1>1, <1>4
<1> QED  BY <1>1, <1>4, <1>5, <1>12, <1>13, <1>14, <1>15, ChangeBecomes

LEMMA Erased ==
  ASSUME NEW a, NEW c, NEW f, Right(a, c, f), a.pc = "erase",
         NEW b, b = GoesTo(a, "unnamed", UnlockPut(a.ip))
  PROVE  Becomes(a, c, f, b, c, f, None)
<1>1. /\ a \in Calling /\ c \in Ino /\ f \in Ino \cup {None} /\ PointRight(a)
      /\ a.call \in {"open", "create"} => f = None
      /\ a.ip \in Ino /\ a.other \in Ino /\ a.ip # a.other
  BY Here DEF AtIp, AtOther, AtBoth
<1>2. PICK todo : todo = UnlockPut(a.ip)  OBVIOUS
<1>3. todo = <<Unlock(a.ip), Put(a.ip)>> /\ todo \in Seq(Step)
  <2>1. Unlock(a.ip) \in Step /\ Put(a.ip) \in Step  BY <1>1, Ops
  <2>2. todo = <<Unlock(a.ip), Put(a.ip)>>  BY <1>2, <2>1 DEF UnlockPut
  <2> QED  BY <2>1, <2>2
<1>4. /\ b \in Calling /\ b.todo = todo
      /\ b.pc = "unnamed" /\ b.call = a.call /\ b.names = a.names /\ b.name = a.name
      /\ b.ip = a.ip /\ b.other = a.other /\ b.then = a.then
  <2>1. "unnamed" \in Places  BY DEF Places
  <2>2. b = GoesTo(a, "unnamed", todo)  BY <1>2
  <2>3. a \in Calling /\ todo \in Seq(Step)  BY <1>1, <1>3
  <2> QED  BY <2>1, <2>2, <2>3, GoesIs
<1>5. PointRight(b)
  BY <1>1, <1>4 DEF PointRight, AtIp, AtOther, AtBoth, ToParent
<1>6. a.pc \in AtBoth /\ b.pc \in AtOther
  BY <1>1, <1>4 DEF AtIp, AtOther, AtBoth
<1>7. \A j \in Ino : LockedAt(a, j) <=> a.ip = j \/ a.other = j  BY <1>1, <1>6, LockedBoth
<1>8. \A j \in Ino : LockedAt(b, j) <=> a.other = j  BY <1>1, <1>4, <1>6, LockedOther
<1>9. \A j \in Ino : ~Twice(b, j)  BY <1>1, <1>4, <1>6, LockedOther
<1>10. \A j \in Ino : Keeps(a, c, f, j) = Same(c, j) + Same(f, j) + Same(a.ip, j) + Same(a.other, j)
  BY <1>1, <1>6, KeepsBoth
<1>11. \A j \in Ino : Keeps(b, c, f, j) = Same(c, j) + Same(f, j) + Same(a.other, j)
  BY <1>1, <1>4, <1>6, KeepsOther
<1>12. /\ StepsRight(b, c, f)
       /\ \A j \in Ino : HeldFrom(b, 1, j) <=> a.ip = j \/ LockedAt(b, j)
       /\ \A j \in Ino : Cardinality(GivesOf(b.todo, j)) = Same(a.ip, j)
  <2>1. Does2(b, Unlock(a.ip), Put(a.ip))  BY <1>3, <1>4 DEF Does2
  <2>3. a.ip \in Ino /\ ~LockedAt(b, a.ip)
    BY <1>1, <1>8
  <2>4. StepsRight(b, c, f)  BY <2>1, <2>3, FormUnlockPut
  <2>5. \A j \in Ino : HeldFrom(b, 1, j) <=> a.ip = j \/ LockedAt(b, j)
    BY <2>1, <2>3, FormUnlockPut
  <2>6. \A j \in Ino : Cardinality(GivesOf(b.todo, j)) = Same(a.ip, j)
    BY <2>1, <2>3, FormUnlockPut
  <2> QED  BY <2>4, <2>5, <2>6
<1>13. \A j \in Ino : HeldFrom(b, 1, j) \/ Twice(b, j) <=> LockedAt(a, j)
  BY <1>1, <1>7, <1>8, <1>9, <1>12
<1>14. \A j \in Ino : Keeps(b, c, f, j) + Cardinality(GivesOf(b.todo, j))
                       = Keeps(a, c, f, j) + Same(None, j)
  BY <1>1, <1>10, <1>11, <1>12, SameIs
<1>15. b.call \in {"open", "create"} => f = None  BY <1>1, <1>4
<1> QED  BY <1>1, <1>4, <1>5, <1>12, <1>13, <1>14, <1>15, ChangeBecomes

LEMMA Found ==
  ASSUME NEW a, NEW c, NEW f, Right(a, c, f), a.pc \in {"create", "mkdir", "mknod"}, NEW e \in Ino,
         NEW b, b = With(a, "exists", e, UnlockPut(a.ip) \o <<Lock(e)>>)
  PROVE  Becomes(a, c, f, b, c, f, e)
<1>1. /\ a \in Calling /\ c \in Ino /\ f \in Ino \cup {None} /\ PointRight(a)
      /\ a.call \in {"open", "create"} => f = None
      /\ a.ip \in Ino /\ a.call = a.pc /\ a.call # "newname"
  BY Here DEF AtIp, AtOther, AtBoth, PointRight
<1>2. PICK todo : todo = UnlockPut(a.ip) \o <<Lock(e)>>  OBVIOUS
<1>3. todo = <<Unlock(a.ip), Put(a.ip), Lock(e)>> /\ todo \in Seq(Step)
  <2>1. Unlock(a.ip) \in Step /\ Put(a.ip) \in Step /\ Lock(e) \in Step  BY <1>1, Ops
  <2>2. todo = <<Unlock(a.ip), Put(a.ip), Lock(e)>>  BY <1>2, <2>1, Join21 DEF UnlockPut
  <2> QED  BY <2>1, <2>2
<1>4. /\ b \in Calling /\ b.todo = todo
      /\ b.pc = "exists" /\ b.call = a.call /\ b.names = a.names /\ b.name = a.name
      /\ b.ip = a.ip /\ b.other = e /\ b.then = a.then
  <2>1. "exists" \in Places  BY DEF Places
  <2>2. b = With(a, "exists", e, todo)  BY <1>2
  <2>3. a \in Calling /\ todo \in Seq(Step) /\ e \in Ino  BY <1>1, <1>3
  <2> QED  BY <2>1, <2>2, <2>3, WithIs
<1>5. PointRight(b)
  BY <1>1, <1>4 DEF PointRight, AtIp, AtOther, AtBoth, ToParent
<1>6. a.pc \in AtIp /\ b.pc \in AtOther
  BY <1>1, <1>4 DEF AtIp, AtOther, AtBoth
<1>7. \A j \in Ino : LockedAt(a, j) <=> a.ip = j  BY <1>1, <1>6, LockedIp
<1>8. \A j \in Ino : LockedAt(b, j) <=> e = j  BY <1>1, <1>4, <1>6, LockedOther
<1>9. \A j \in Ino : ~Twice(b, j)  BY <1>1, <1>4, <1>6, LockedOther
<1>10. \A j \in Ino : Keeps(a, c, f, j) = Same(c, j) + Same(f, j) + Same(a.ip, j)
  BY <1>1, <1>6, KeepsIp
<1>11. \A j \in Ino : Keeps(b, c, f, j) = Same(c, j) + Same(f, j) + Same(e, j)
  BY <1>1, <1>4, <1>6, KeepsOther
<1>12. /\ StepsRight(b, c, f)
       /\ \A j \in Ino : HeldFrom(b, 1, j) <=> a.ip = j \/ (e # j /\ LockedAt(b, j))
       /\ \A j \in Ino : Cardinality(GivesOf(b.todo, j)) = Same(a.ip, j)
  <2>1. Does3(b, Unlock(a.ip), Put(a.ip), Lock(e))  BY <1>3, <1>4 DEF Does3
  <2>3. a.ip \in Ino /\ LockedAt(b, e) /\ (a.ip # e => ~LockedAt(b, a.ip))
    BY <1>1, <1>8
  <2>4. PICK i \in Ino : i = a.ip  BY <2>3
  <2>5. Does3(b, Unlock(i), Put(i), Lock(e))  BY <2>1, <2>4
  <2>6. LockedAt(b, e)  BY <2>3
  <2>7. i # e => ~LockedAt(b, i)  BY <2>3, <2>4
  <2>8. StepsRight(b, c, f)  BY <2>5, <2>6, <2>7, FormUnlockPutLock
  <2>9. \A j \in Ino : HeldFrom(b, 1, j) <=> i = j \/ (e # j /\ LockedAt(b, j))
    BY <2>5, <2>6, <2>7, FormUnlockPutLock
  <2>10. \A j \in Ino : Cardinality(GivesOf(b.todo, j)) = Same(i, j)
    BY <2>5, <2>6, <2>7, FormUnlockPutLock
  <2> QED  BY <2>4, <2>8, <2>9, <2>10
<1>13. \A j \in Ino : HeldFrom(b, 1, j) \/ Twice(b, j) <=> LockedAt(a, j)
  BY <1>1, <1>7, <1>8, <1>9, <1>12
<1>14. \A j \in Ino : Keeps(b, c, f, j) + Cardinality(GivesOf(b.todo, j))
                       = Keeps(a, c, f, j) + Same(e, j)
  BY <1>1, <1>10, <1>11, <1>12, SameIs
<1>15. b.call \in {"open", "create"} => f = None  BY <1>1, <1>4
<1> QED  BY <1>1, <1>4, <1>5, <1>12, <1>13, <1>14, <1>15, ChangeBecomes

LEMMA Allocated ==
  ASSUME NEW a, NEW c, NEW f, Right(a, c, f), a.pc \in {"create", "mkdir", "mknod"}, NEW e \in Ino,
         NEW b, b = With(a, "fill", e, <<Lock(e)>>)
  PROVE  Becomes(a, c, f, b, c, f, e)
<1>1. /\ a \in Calling /\ c \in Ino /\ f \in Ino \cup {None} /\ PointRight(a)
      /\ a.call \in {"open", "create"} => f = None
      /\ a.ip \in Ino /\ a.call = a.pc /\ a.call # "newname"
  BY Here DEF AtIp, AtOther, AtBoth, PointRight
<1>2. PICK todo : todo = <<Lock(e)>>  OBVIOUS
<1>3. todo = <<Lock(e)>> /\ todo \in Seq(Step)
  <2>1. Lock(e) \in Step  BY <1>1, Ops
  <2>2. todo = <<Lock(e)>>  BY <1>2, <2>1 DEF UnlockPut
  <2> QED  BY <2>1, <2>2
<1>4. /\ b \in Calling /\ b.todo = todo
      /\ b.pc = "fill" /\ b.call = a.call /\ b.names = a.names /\ b.name = a.name
      /\ b.ip = a.ip /\ b.other = e /\ b.then = a.then
  <2>1. "fill" \in Places  BY DEF Places
  <2>2. b = With(a, "fill", e, todo)  BY <1>2
  <2>3. a \in Calling /\ todo \in Seq(Step) /\ e \in Ino  BY <1>1, <1>3
  <2> QED  BY <2>1, <2>2, <2>3, WithIs
<1>5. PointRight(b)
  BY <1>1, <1>4, <1>3 DEF PointRight, AtIp, AtOther, AtBoth, ToParent
<1>6. a.pc \in AtIp /\ b.pc \in AtBoth
  BY <1>1, <1>4 DEF AtIp, AtOther, AtBoth
<1>7. \A j \in Ino : LockedAt(a, j) <=> a.ip = j  BY <1>1, <1>6, LockedIp
<1>8. \A j \in Ino : LockedAt(b, j) <=> a.ip = j \/ e = j  BY <1>1, <1>4, <1>6, LockedBoth
<1>9. \A j \in Ino : Twice(b, j) <=> a.ip = j /\ e = j  BY <1>1, <1>4, <1>6, LockedBoth
<1>10. \A j \in Ino : Keeps(a, c, f, j) = Same(c, j) + Same(f, j) + Same(a.ip, j)
  BY <1>1, <1>6, KeepsIp
<1>11. \A j \in Ino : Keeps(b, c, f, j) = Same(c, j) + Same(f, j) + Same(a.ip, j) + Same(e, j)
  BY <1>1, <1>4, <1>6, KeepsBoth
<1>12. /\ StepsRight(b, c, f)
       /\ \A j \in Ino : HeldFrom(b, 1, j) <=> e # j /\ LockedAt(b, j)
       /\ \A j \in Ino : Cardinality(GivesOf(b.todo, j)) = 0
  <2>1. Does1(b, Lock(e))  BY <1>3, <1>4 DEF Does1
  <2>3. LockedAt(b, e)
    BY <1>1, <1>8
  <2>4. StepsRight(b, c, f)  BY <2>1, <2>3, FormLock
  <2>5. \A j \in Ino : HeldFrom(b, 1, j) <=> e # j /\ LockedAt(b, j)
    BY <2>1, <2>3, FormLock
  <2>6. \A j \in Ino : Cardinality(GivesOf(b.todo, j)) = 0
    BY <2>1, <2>3, FormLock
  <2> QED  BY <2>4, <2>5, <2>6
<1>13. \A j \in Ino : HeldFrom(b, 1, j) \/ Twice(b, j) <=> LockedAt(a, j)
  BY <1>1, <1>7, <1>8, <1>9, <1>12
<1>14. \A j \in Ino : Keeps(b, c, f, j) + Cardinality(GivesOf(b.todo, j))
                       = Keeps(a, c, f, j) + Same(e, j)
  BY <1>1, <1>10, <1>11, <1>12, SameIs
<1>15. b.call \in {"open", "create"} => f = None  BY <1>1, <1>4
<1> QED  BY <1>1, <1>4, <1>5, <1>12, <1>13, <1>14, <1>15, ChangeBecomes

LEMMA LookedUp ==
  ASSUME NEW a, NEW c, NEW f, Right(a, c, f), a.pc = "unlink", NEW e \in Ino,
         NEW b, b = With(a, "erase", e, <<Lock(e)>>)
  PROVE  Becomes(a, c, f, b, c, f, e)
<1>1. /\ a \in Calling /\ c \in Ino /\ f \in Ino \cup {None} /\ PointRight(a)
      /\ a.call \in {"open", "create"} => f = None
      /\ a.ip \in Ino /\ a.call = a.pc /\ a.call # "newname"
  BY Here DEF AtIp, AtOther, AtBoth, PointRight
<1>2. PICK todo : todo = <<Lock(e)>>  OBVIOUS
<1>3. todo = <<Lock(e)>> /\ todo \in Seq(Step)
  <2>1. Lock(e) \in Step  BY <1>1, Ops
  <2>2. todo = <<Lock(e)>>  BY <1>2, <2>1 DEF UnlockPut
  <2> QED  BY <2>1, <2>2
<1>4. /\ b \in Calling /\ b.todo = todo
      /\ b.pc = "erase" /\ b.call = a.call /\ b.names = a.names /\ b.name = a.name
      /\ b.ip = a.ip /\ b.other = e /\ b.then = a.then
  <2>1. "erase" \in Places  BY DEF Places
  <2>2. b = With(a, "erase", e, todo)  BY <1>2
  <2>3. a \in Calling /\ todo \in Seq(Step) /\ e \in Ino  BY <1>1, <1>3
  <2> QED  BY <2>1, <2>2, <2>3, WithIs
<1>5. PointRight(b)
  BY <1>1, <1>4, <1>3 DEF PointRight, AtIp, AtOther, AtBoth, ToParent
<1>6. a.pc \in AtIp /\ b.pc \in AtBoth
  BY <1>1, <1>4 DEF AtIp, AtOther, AtBoth
<1>7. \A j \in Ino : LockedAt(a, j) <=> a.ip = j  BY <1>1, <1>6, LockedIp
<1>8. \A j \in Ino : LockedAt(b, j) <=> a.ip = j \/ e = j  BY <1>1, <1>4, <1>6, LockedBoth
<1>9. \A j \in Ino : Twice(b, j) <=> a.ip = j /\ e = j  BY <1>1, <1>4, <1>6, LockedBoth
<1>10. \A j \in Ino : Keeps(a, c, f, j) = Same(c, j) + Same(f, j) + Same(a.ip, j)
  BY <1>1, <1>6, KeepsIp
<1>11. \A j \in Ino : Keeps(b, c, f, j) = Same(c, j) + Same(f, j) + Same(a.ip, j) + Same(e, j)
  BY <1>1, <1>4, <1>6, KeepsBoth
<1>12. /\ StepsRight(b, c, f)
       /\ \A j \in Ino : HeldFrom(b, 1, j) <=> e # j /\ LockedAt(b, j)
       /\ \A j \in Ino : Cardinality(GivesOf(b.todo, j)) = 0
  <2>1. Does1(b, Lock(e))  BY <1>3, <1>4 DEF Does1
  <2>3. LockedAt(b, e)
    BY <1>1, <1>8
  <2>4. StepsRight(b, c, f)  BY <2>1, <2>3, FormLock
  <2>5. \A j \in Ino : HeldFrom(b, 1, j) <=> e # j /\ LockedAt(b, j)
    BY <2>1, <2>3, FormLock
  <2>6. \A j \in Ino : Cardinality(GivesOf(b.todo, j)) = 0
    BY <2>1, <2>3, FormLock
  <2> QED  BY <2>4, <2>5, <2>6
<1>13. \A j \in Ino : HeldFrom(b, 1, j) \/ Twice(b, j) <=> LockedAt(a, j)
  BY <1>1, <1>7, <1>8, <1>9, <1>12
<1>14. \A j \in Ino : Keeps(b, c, f, j) + Cardinality(GivesOf(b.todo, j))
                       = Keeps(a, c, f, j) + Same(e, j)
  BY <1>1, <1>10, <1>11, <1>12, SameIs
<1>15. b.call \in {"open", "create"} => f = None  BY <1>1, <1>4
<1> QED  BY <1>1, <1>4, <1>5, <1>12, <1>13, <1>14, <1>15, ChangeBecomes

LEMMA LinkCounted ==
  ASSUME NEW a, NEW c, NEW f, Right(a, c, f), a.pc = "link",
         NEW b, b = With(a, "renamed", a.ip, <<Update(a.ip), Unlock(a.ip)>>)
  PROVE  Becomes(a, c, f, b, c, f, None)
<1>1. /\ a \in Calling /\ c \in Ino /\ f \in Ino \cup {None} /\ PointRight(a)
      /\ a.call \in {"open", "create"} => f = None
      /\ a.ip \in Ino /\ a.call = a.pc /\ a.call # "newname"
  BY Here DEF AtIp, AtOther, AtBoth, PointRight
<1>2. PICK todo : todo = <<Update(a.ip), Unlock(a.ip)>>  OBVIOUS
<1>3. todo = <<Update(a.ip), Unlock(a.ip)>> /\ todo \in Seq(Step)
  <2>1. Update(a.ip) \in Step /\ Unlock(a.ip) \in Step  BY <1>1, Ops
  <2>2. todo = <<Update(a.ip), Unlock(a.ip)>>  BY <1>2, <2>1 DEF UnlockPut
  <2> QED  BY <2>1, <2>2
<1>4. /\ b \in Calling /\ b.todo = todo
      /\ b.pc = "renamed" /\ b.call = a.call /\ b.names = a.names /\ b.name = a.name
      /\ b.ip = a.ip /\ b.other = a.ip /\ b.then = a.then
  <2>1. "renamed" \in Places  BY DEF Places
  <2>2. b = With(a, "renamed", a.ip, todo)  BY <1>2
  <2>3. a \in Calling /\ todo \in Seq(Step) /\ a.ip \in Ino  BY <1>1, <1>3
  <2> QED  BY <2>1, <2>2, <2>3, WithIs
<1>5. PointRight(b)
  BY <1>1, <1>4 DEF PointRight, AtIp, AtOther, AtBoth, ToParent
<1>6. a.pc \in AtIp /\ b.pc = "renamed"
  BY <1>1, <1>4 DEF AtIp, AtOther, AtBoth
<1>7. \A j \in Ino : LockedAt(a, j) <=> a.ip = j  BY <1>1, <1>6, LockedIp
<1>8. \A j \in Ino : LockedAt(b, j) <=> FALSE  BY <1>1, <1>4, <1>6, LockedNone
<1>9. \A j \in Ino : ~Twice(b, j)  BY <1>1, <1>4, <1>6, LockedNone
<1>10. \A j \in Ino : Keeps(a, c, f, j) = Same(c, j) + Same(f, j) + Same(a.ip, j)
  BY <1>1, <1>6, KeepsIp
<1>11. \A j \in Ino : Keeps(b, c, f, j) = Same(c, j) + Same(f, j) + Same(a.ip, j)
  BY <1>1, <1>4, <1>6, KeepsRenamed
<1>12. /\ StepsRight(b, c, f)
       /\ \A j \in Ino : HeldFrom(b, 1, j) <=> a.ip = j \/ LockedAt(b, j)
       /\ \A j \in Ino : Cardinality(GivesOf(b.todo, j)) = 0
  <2>1. Does2(b, Update(a.ip), Unlock(a.ip))  BY <1>3, <1>4 DEF Does2
  <2>2. Keeps(b, c, f, a.ip) > 0  BY <1>1, <1>11, SameIs
  <2>3. a.ip \in Ino /\ ~LockedAt(b, a.ip)
    BY <1>1, <1>8
  <2>4. StepsRight(b, c, f)  BY <2>1, <2>3, <2>2, FormUpdateUnlock
  <2>5. \A j \in Ino : HeldFrom(b, 1, j) <=> a.ip = j \/ LockedAt(b, j)
    BY <2>1, <2>3, <2>2, FormUpdateUnlock
  <2>6. \A j \in Ino : Cardinality(GivesOf(b.todo, j)) = 0
    BY <2>1, <2>3, <2>2, FormUpdateUnlock
  <2> QED  BY <2>4, <2>5, <2>6
<1>13. \A j \in Ino : HeldFrom(b, 1, j) \/ Twice(b, j) <=> LockedAt(a, j)
  BY <1>1, <1>7, <1>8, <1>9, <1>12
<1>14. \A j \in Ino : Keeps(b, c, f, j) + Cardinality(GivesOf(b.todo, j))
                       = Keeps(a, c, f, j) + Same(None, j)
  BY <1>1, <1>10, <1>11, <1>12, SameIs
<1>15. b.call \in {"open", "create"} => f = None  BY <1>1, <1>4
<1> QED  BY <1>1, <1>4, <1>5, <1>12, <1>13, <1>14, <1>15, ChangeBecomes
LEMMA Join11 ==
  ASSUME NEW S, NEW x \in S, NEW y \in S
  PROVE  <<x>> \o <<y>> = <<x, y>>
<1> DEFINE s == <<x>>
           t == <<y>>
           u == <<x, y>>
<1>1. s \in Seq(S) /\ t \in Seq(S) /\ u \in Seq(S)  OBVIOUS
<1>2. Len(s) = 1 /\ Len(t) = 1 /\ Len(u) = 2  OBVIOUS
<1>3. /\ s[1] = x /\ t[1] = y
      /\ u[1] = x /\ u[2] = y
  OBVIOUS
<1> HIDE DEF s, t, u
<1>4. /\ Len(u) = Len(s) + Len(t) /\ \A k \in 1..Len(s) : u[k] = s[k]
      /\ \A k \in 1..Len(t) : u[Len(s) + k] = t[k]
  BY <1>2, <1>3
<1>5. s \o t = u  BY <1>1, <1>4, JoinIs
<1> QED  BY <1>5 DEF s, t, u

LEMMA Join01 ==
  ASSUME NEW x
  PROVE  <<>> \o <<x>> = <<x>>
OBVIOUS

\* The reference of link() to the inode that it gives a second name.
Spare(a, j) == One(a.call = "newname" /\ a.other = j)

LEMMA KeepsAny ==
  ASSUME NEW a, a.pc \in AtIp, NEW c, NEW f, NEW j
  PROVE  /\ Keeps(a, c, f, j) = Same(c, j) + Same(f, j) + Same(a.ip, j) + Spare(a, j)
         /\ Spare(a, j) \in Nat
<1>1. Keeps(a, c, f, j) = One(c = j) + One(f = j) + One(a.ip = j)
                          + One(a.call = "newname" /\ a.other = j)
  BY PointIp
<1>2. Spare(a, j) \in Nat  BY DEF Spare, One
<1> QED  BY <1>1, <1>2 DEF Same, Spare

LEMMA Began ==
  ASSUME NEW a, NEW c, NEW f, Right(a, c, f), a.pc = "user",
         NEW call \in AtIp \ {"walk", "newname"}, NEW names \in Seq(Entry), NEW s \in Ino,
         NEW w \in Path \cup {<<>>}, names = <<>> => call \notin ToParent,
         call = "link" => w \in Path,
         call \in {"open", "create"} => f = None,
         NEW b, b = NewThen(FromOf(a, call, names, s, <<>> \o <<Lock(s)>>), w)
  PROVE  Becomes(a, c, f, b, c, f, s)
<1>1. /\ a \in Calling /\ c \in Ino /\ f \in Ino \cup {None} /\ PointRight(a)
      /\ a.call \in {"open", "create"} => f = None
      /\ a.call # "newname"
  BY Here DEF PointRight
<1>2. PICK todo : todo = <<>> \o <<Lock(s)>>  OBVIOUS
<1>3. todo = <<Lock(s)>> /\ todo \in Seq(Step)
  <2>1. Lock(s) \in Step  BY <1>1, Ops
  <2>2. todo = <<Lock(s)>>  BY <1>2, <2>1, Join01 DEF UnlockPut
  <2> QED  BY <2>1, <2>2
<1>4. /\ b \in Calling /\ b.todo = todo
      /\ (b.pc = IF names = <<>> THEN call ELSE "walk")
      /\ b.call = call /\ b.names = names /\ b.name = a.name
      /\ b.ip = s /\ b.other = a.other /\ b.then = w
  <2>1. call \in CallNames /\ call \in Places /\ names \in Seq(Entry) /\ s \in Ino
    BY <1>1, EmptySeq DEF AtIp, CallNames, Places, PointRight
  <2>2. PICK d : d = FromOf(a, call, names, s, todo)  OBVIOUS
  <2>3. todo \in Seq(Step) /\ a \in Calling  BY <1>1, <1>3
  <2>4. /\ d \in Calling /\ d.pc = (IF names = <<>> THEN call ELSE "walk")
        /\ d.todo = todo /\ d.call = call /\ d.names = names /\ d.name = a.name
        /\ d.ip = s /\ d.other = a.other /\ d.then = a.then
    BY <2>1, <2>2, <2>3, FromIs
  <2>5. b = NewThen(d, w)  BY <1>2, <2>2
  <2>6. w \in Path \cup {<<>>}  OBVIOUS
  <2> QED  BY <2>4, <2>5, <2>6, ThenIs
<1>a. b.ip = s /\ b.other = a.other /\ b.call = call  BY <1>4
<1>5. PointRight(b)
  BY <1>1, <1>4 DEF PointRight, AtIp, AtOther, AtBoth, ToParent
<1>6. a.pc = "user" /\ b.pc \in AtIp
  BY <1>1, <1>4 DEF AtIp, AtOther, AtBoth
<1>7. \A j \in Ino : LockedAt(a, j) <=> FALSE  BY <1>1, <1>6, LockedNone
<1>8. \A j \in Ino : LockedAt(b, j) <=> s = j  BY <1>a, <1>6, LockedIp
<1>9. \A j \in Ino : ~Twice(b, j)  BY <1>a, <1>6, LockedIp
<1>10. \A j \in Ino : Keeps(a, c, f, j) = Same(c, j) + Same(f, j)
  BY <1>1, <1>6, KeepsUser
<1>11. \A j \in Ino : Keeps(b, c, f, j) = Same(c, j) + Same(f, j) + Same(s, j)
  BY <1>a, <1>6, KeepsIp
<1>12. /\ StepsRight(b, c, f)
       /\ \A j \in Ino : HeldFrom(b, 1, j) <=> s # j /\ LockedAt(b, j)
       /\ \A j \in Ino : Cardinality(GivesOf(b.todo, j)) = 0
  <2>1. Does1(b, Lock(s))  BY <1>3, <1>4 DEF Does1
  <2>3. LockedAt(b, s)
    BY <1>1, <1>8
  <2>4. StepsRight(b, c, f)  BY <2>1, <2>3, FormLock
  <2>5. \A j \in Ino : HeldFrom(b, 1, j) <=> s # j /\ LockedAt(b, j)
    BY <2>1, <2>3, FormLock
  <2>6. \A j \in Ino : Cardinality(GivesOf(b.todo, j)) = 0
    BY <2>1, <2>3, FormLock
  <2> QED  BY <2>4, <2>5, <2>6
<1>13. \A j \in Ino : HeldFrom(b, 1, j) \/ Twice(b, j) <=> LockedAt(a, j)
  BY <1>1, <1>7, <1>8, <1>9, <1>12
<1>14. \A j \in Ino : Keeps(b, c, f, j) + Cardinality(GivesOf(b.todo, j))
                       = Keeps(a, c, f, j) + Same(s, j)
  BY <1>10, <1>11, <1>12, SameIs
<1>15. b.call \in {"open", "create"} => f = None  BY <1>1, <1>4
<1> QED  BY <1>1, <1>4, <1>5, <1>12, <1>13, <1>14, <1>15, ChangeBecomes

LEMMA BeganNew ==
  ASSUME NEW a, NEW c, NEW f, Right(a, c, f), a.pc = "renamed",
         NEW names \in Seq(Entry), NEW s \in Ino, names # <<>>,
         NEW b, b = NewThen(FromOf(a, "newname", names, s, <<>> \o <<Lock(s)>>), <<>>)
  PROVE  Becomes(a, c, f, b, c, f, s)
<1>1. /\ a \in Calling /\ c \in Ino /\ f \in Ino \cup {None} /\ PointRight(a)
      /\ a.call \in {"open", "create"} => f = None
      /\ a.other \in Ino
  BY Here
<1>2. PICK todo : todo = <<>> \o <<Lock(s)>>  OBVIOUS
<1>3. todo = <<Lock(s)>> /\ todo \in Seq(Step)
  <2>1. Lock(s) \in Step  BY <1>1, Ops
  <2>2. todo = <<Lock(s)>>  BY <1>2, <2>1, Join01 DEF UnlockPut
  <2> QED  BY <2>1, <2>2
<1>4. /\ b \in Calling /\ b.todo = todo
      /\ (b.pc = IF names = <<>> THEN "newname" ELSE "walk")
      /\ b.call = "newname" /\ b.names = names /\ b.name = a.name
      /\ b.ip = s /\ b.other = a.other /\ b.then = <<>>
  <2>1. "newname" \in CallNames /\ "newname" \in Places /\ names \in Seq(Entry) /\ s \in Ino
    BY <1>1, EmptySeq DEF AtIp, CallNames, Places, PointRight
  <2>2. PICK d : d = FromOf(a, "newname", names, s, todo)  OBVIOUS
  <2>3. todo \in Seq(Step) /\ a \in Calling  BY <1>1, <1>3
  <2>4. /\ d \in Calling /\ d.pc = (IF names = <<>> THEN "newname" ELSE "walk")
        /\ d.todo = todo /\ d.call = "newname" /\ d.names = names /\ d.name = a.name
        /\ d.ip = s /\ d.other = a.other /\ d.then = a.then
    BY <2>1, <2>2, <2>3, FromIs
  <2>5. b = NewThen(d, <<>>)  BY <1>2, <2>2
  <2>6. <<>> \in Path \cup {<<>>}  OBVIOUS
  <2> QED  BY <2>4, <2>5, <2>6, ThenIs
<1>a. b.ip = s /\ b.other = a.other /\ b.call = "newname"  BY <1>4
<1>5. PointRight(b)
  BY <1>1, <1>4 DEF PointRight, AtIp, AtOther, AtBoth, ToParent
<1>6. a.pc = "renamed" /\ b.pc \in AtIp
  BY <1>1, <1>4 DEF AtIp, AtOther, AtBoth
<1>7. \A j \in Ino : LockedAt(a, j) <=> FALSE  BY <1>1, <1>6, LockedNone
<1>8. \A j \in Ino : LockedAt(b, j) <=> s = j  BY <1>a, <1>6, LockedIp
<1>9. \A j \in Ino : ~Twice(b, j)  BY <1>a, <1>6, LockedIp
<1>10. \A j \in Ino : Keeps(a, c, f, j) = Same(c, j) + Same(f, j) + Same(a.other, j)
  BY <1>1, <1>6, KeepsRenamed
<1>11. \A j \in Ino : Keeps(b, c, f, j) = Same(c, j) + Same(f, j) + Same(s, j) + Same(a.other, j)
  BY <1>a, <1>6, KeepsNew
<1>12. /\ StepsRight(b, c, f)
       /\ \A j \in Ino : HeldFrom(b, 1, j) <=> s # j /\ LockedAt(b, j)
       /\ \A j \in Ino : Cardinality(GivesOf(b.todo, j)) = 0
  <2>1. Does1(b, Lock(s))  BY <1>3, <1>4 DEF Does1
  <2>3. LockedAt(b, s)
    BY <1>1, <1>8
  <2>4. StepsRight(b, c, f)  BY <2>1, <2>3, FormLock
  <2>5. \A j \in Ino : HeldFrom(b, 1, j) <=> s # j /\ LockedAt(b, j)
    BY <2>1, <2>3, FormLock
  <2>6. \A j \in Ino : Cardinality(GivesOf(b.todo, j)) = 0
    BY <2>1, <2>3, FormLock
  <2> QED  BY <2>4, <2>5, <2>6
<1>13. \A j \in Ino : HeldFrom(b, 1, j) \/ Twice(b, j) <=> LockedAt(a, j)
  BY <1>1, <1>7, <1>8, <1>9, <1>12
<1>14. \A j \in Ino : Keeps(b, c, f, j) + Cardinality(GivesOf(b.todo, j))
                       = Keeps(a, c, f, j) + Same(s, j)
  <2> TAKE j \in Ino
  <2>1. /\ Same(c, j) \in Nat /\ Same(f, j) \in Nat /\ Same(s, j) \in Nat
        /\ Same(a.other, j) \in Nat
    BY SameIs
  <2> QED  BY <2>1, <1>10, <1>11, <1>12
<1>15. b.call \in {"open", "create"} => f = None  BY <1>1, <1>4
<1> QED  BY <1>1, <1>4, <1>5, <1>12, <1>13, <1>14, <1>15, ChangeBecomes

LEMMA WentDown ==
  ASSUME NEW a, NEW c, NEW f, Right(a, c, f), a.pc = "walk",
         NEW names \in Seq(Entry), NEW name \in Entry, NEW e \in Ino,
         names = <<>> => a.call \notin ToParent,
         NEW b, b = NewName(FromOf(a, a.call, names, e, UnlockPut(a.ip) \o <<Lock(e)>>), name)
  PROVE  Becomes(a, c, f, b, c, f, e)
<1>1. /\ a \in Calling /\ c \in Ino /\ f \in Ino \cup {None} /\ PointRight(a)
      /\ a.call \in {"open", "create"} => f = None
      /\ a.ip \in Ino /\ a.call \in AtIp \ {"walk"}
  BY Here DEF AtIp, AtOther, AtBoth, PointRight
<1>2. PICK todo : todo = UnlockPut(a.ip) \o <<Lock(e)>>  OBVIOUS
<1>3. todo = <<Unlock(a.ip), Put(a.ip), Lock(e)>> /\ todo \in Seq(Step)
  <2>1. Unlock(a.ip) \in Step /\ Put(a.ip) \in Step /\ Lock(e) \in Step  BY <1>1, Ops
  <2>2. todo = <<Unlock(a.ip), Put(a.ip), Lock(e)>>  BY <1>2, <2>1, Join21 DEF UnlockPut
  <2> QED  BY <2>1, <2>2
<1>4. /\ b \in Calling /\ b.todo = todo
      /\ (b.pc = IF names = <<>> THEN a.call ELSE "walk")
      /\ b.call = a.call /\ b.names = names /\ b.name = name
      /\ b.ip = e /\ b.other = a.other /\ b.then = a.then
  <2>1. a.call \in CallNames /\ a.call \in Places /\ names \in Seq(Entry) /\ e \in Ino
    BY <1>1, EmptySeq DEF AtIp, CallNames, Places, PointRight
  <2>2. PICK d : d = FromOf(a, a.call, names, e, todo)  OBVIOUS
  <2>3. todo \in Seq(Step) /\ a \in Calling  BY <1>1, <1>3
  <2>4. /\ d \in Calling /\ d.pc = (IF names = <<>> THEN a.call ELSE "walk")
        /\ d.todo = todo /\ d.call = a.call /\ d.names = names /\ d.name = a.name
        /\ d.ip = e /\ d.other = a.other /\ d.then = a.then
    BY <2>1, <2>2, <2>3, FromIs
  <2>5. b = NewName(d, name)  BY <1>2, <2>2
  <2>6. name \in Entry  OBVIOUS
  <2> QED  BY <2>4, <2>5, <2>6, NameIs
<1>a. b.ip = e /\ b.other = a.other /\ b.call = a.call  BY <1>4
<1>5. PointRight(b)
  BY <1>1, <1>4 DEF PointRight, AtIp, AtOther, AtBoth, ToParent
<1>6. a.pc \in AtIp /\ b.pc \in AtIp
  BY <1>1, <1>4 DEF AtIp, AtOther, AtBoth
<1>7. \A j \in Ino : LockedAt(a, j) <=> a.ip = j  BY <1>1, <1>6, LockedIp
<1>8. \A j \in Ino : LockedAt(b, j) <=> e = j  BY <1>a, <1>6, LockedIp
<1>9. \A j \in Ino : ~Twice(b, j)  BY <1>a, <1>6, LockedIp
<1>10. \A j \in Ino : Keeps(a, c, f, j) = Same(c, j) + Same(f, j) + Same(a.ip, j) + Spare(a, j)
  BY <1>1, <1>6, KeepsAny
<1>11. \A j \in Ino : Keeps(b, c, f, j) = Same(c, j) + Same(f, j) + Same(e, j) + Spare(b, j)
  BY <1>a, <1>6, KeepsAny
<1>s. \A j \in Ino : Spare(b, j) = Spare(a, j) /\ Spare(a, j) \in Nat
  BY <1>a, <1>6, KeepsAny DEF Spare
<1>12. /\ StepsRight(b, c, f)
       /\ \A j \in Ino : HeldFrom(b, 1, j) <=> a.ip = j \/ (e # j /\ LockedAt(b, j))
       /\ \A j \in Ino : Cardinality(GivesOf(b.todo, j)) = Same(a.ip, j)
  <2>1. Does3(b, Unlock(a.ip), Put(a.ip), Lock(e))  BY <1>3, <1>4 DEF Does3
  <2>3. a.ip \in Ino  BY <1>1
  <2>4. PICK i \in Ino : i = a.ip  BY <2>3
  <2>5. Does3(b, Unlock(i), Put(i), Lock(e))  BY <2>1, <2>4
  <2>6. LockedAt(b, e)  BY <1>8
  <2>7. i # e => ~LockedAt(b, i)  BY <1>8
  <2>8. StepsRight(b, c, f)  BY <2>5, <2>6, <2>7, FormUnlockPutLock
  <2>9. \A j \in Ino : HeldFrom(b, 1, j) <=> i = j \/ (e # j /\ LockedAt(b, j))
    BY <2>5, <2>6, <2>7, FormUnlockPutLock
  <2>10. \A j \in Ino : Cardinality(GivesOf(b.todo, j)) = Same(i, j)
    BY <2>5, <2>6, <2>7, FormUnlockPutLock
  <2> QED  BY <2>4, <2>8, <2>9, <2>10
<1>13. \A j \in Ino : HeldFrom(b, 1, j) \/ Twice(b, j) <=> LockedAt(a, j)
  BY <1>1, <1>7, <1>8, <1>9, <1>12
<1>14. \A j \in Ino : Keeps(b, c, f, j) + Cardinality(GivesOf(b.todo, j))
                       = Keeps(a, c, f, j) + Same(e, j)
  <2> TAKE j \in Ino
  <2>1. /\ Same(c, j) \in Nat /\ Same(f, j) \in Nat /\ Same(a.ip, j) \in Nat
        /\ Same(e, j) \in Nat /\ Spare(b, j) = Spare(a, j) /\ Spare(a, j) \in Nat
    BY <1>s, SameIs
  <2>2. Keeps(a, c, f, j) = Same(c, j) + Same(f, j) + Same(a.ip, j) + Spare(a, j)  BY <1>10
  <2>3. Keeps(b, c, f, j) = Same(c, j) + Same(f, j) + Same(e, j) + Spare(b, j)  BY <1>11
  <2>4. Cardinality(GivesOf(b.todo, j)) = Same(a.ip, j)  BY <1>12
  <2> QED  BY <2>1, <2>2, <2>3, <2>4
<1>15. b.call \in {"open", "create"} => f = None  BY <1>1, <1>4
<1> QED  BY <1>1, <1>4, <1>5, <1>12, <1>13, <1>14, <1>15, ChangeBecomes

LEMMA WentUp ==
  ASSUME NEW a, NEW c, NEW f, Right(a, c, f), a.pc = "walk",
         NEW name \in Entry, a.call \in ToParent,
         NEW b, b = NewName(FromOf(a, a.call, <<>>, a.ip, <<Unlock(a.ip)>> \o <<Lock(a.ip)>>), name)
  PROVE  Becomes(a, c, f, b, c, f, None)
<1>1. /\ a \in Calling /\ c \in Ino /\ f \in Ino \cup {None} /\ PointRight(a)
      /\ a.call \in {"open", "create"} => f = None
      /\ a.ip \in Ino /\ a.call \in AtIp \ {"walk"}
  BY Here DEF AtIp, AtOther, AtBoth, PointRight
<1>2. PICK todo : todo = <<Unlock(a.ip)>> \o <<Lock(a.ip)>>  OBVIOUS
<1>3. todo = <<Unlock(a.ip), Lock(a.ip)>> /\ todo \in Seq(Step)
  <2>1. Unlock(a.ip) \in Step /\ Lock(a.ip) \in Step  BY <1>1, Ops
  <2>2. todo = <<Unlock(a.ip), Lock(a.ip)>>  BY <1>2, <2>1, Join11 DEF UnlockPut
  <2> QED  BY <2>1, <2>2
<1>4. /\ b \in Calling /\ b.todo = todo
      /\ (b.pc = IF <<>> = <<>> THEN a.call ELSE "walk")
      /\ b.call = a.call /\ b.names = <<>> /\ b.name = name
      /\ b.ip = a.ip /\ b.other = a.other /\ b.then = a.then
  <2>1. a.call \in CallNames /\ a.call \in Places /\ <<>> \in Seq(Entry) /\ a.ip \in Ino
    BY <1>1, EmptySeq DEF AtIp, CallNames, Places, PointRight
  <2>2. PICK d : d = FromOf(a, a.call, <<>>, a.ip, todo)  OBVIOUS
  <2>3. todo \in Seq(Step) /\ a \in Calling  BY <1>1, <1>3
  <2>4. /\ d \in Calling /\ d.pc = (IF <<>> = <<>> THEN a.call ELSE "walk")
        /\ d.todo = todo /\ d.call = a.call /\ d.names = <<>> /\ d.name = a.name
        /\ d.ip = a.ip /\ d.other = a.other /\ d.then = a.then
    <3>1. PICK names \in Seq(Entry) : names = <<>>  BY EmptySeq
    <3>2. d = FromOf(a, a.call, names, a.ip, todo)  BY <2>2, <3>1
    <3>3. /\ d \in Calling /\ d.pc = (IF names = <<>> THEN a.call ELSE "walk")
          /\ d.todo = todo /\ d.call = a.call /\ d.names = names /\ d.name = a.name
          /\ d.ip = a.ip /\ d.other = a.other /\ d.then = a.then
      BY <2>1, <2>3, <3>2, FromIs
    <3> QED  BY <3>1, <3>3
  <2>5. b = NewName(d, name)  BY <1>2, <2>2
  <2>6. name \in Entry  OBVIOUS
  <2> QED  BY <2>4, <2>5, <2>6, NameIs
<1>a. b.ip = a.ip /\ b.other = a.other /\ b.call = a.call  BY <1>4
<1>5. PointRight(b)
  BY <1>1, <1>4 DEF PointRight, AtIp, AtOther, AtBoth, ToParent
<1>6. a.pc \in AtIp /\ b.pc \in AtIp
  BY <1>1, <1>4 DEF AtIp, AtOther, AtBoth
<1>7. \A j \in Ino : LockedAt(a, j) <=> a.ip = j  BY <1>1, <1>6, LockedIp
<1>8. \A j \in Ino : LockedAt(b, j) <=> a.ip = j  BY <1>a, <1>6, LockedIp
<1>9. \A j \in Ino : ~Twice(b, j)  BY <1>a, <1>6, LockedIp
<1>10. \A j \in Ino : Keeps(a, c, f, j) = Same(c, j) + Same(f, j) + Same(a.ip, j) + Spare(a, j)
  BY <1>1, <1>6, KeepsAny
<1>11. \A j \in Ino : Keeps(b, c, f, j) = Same(c, j) + Same(f, j) + Same(a.ip, j) + Spare(b, j)
  BY <1>a, <1>6, KeepsAny
<1>s. \A j \in Ino : Spare(b, j) = Spare(a, j) /\ Spare(a, j) \in Nat
  BY <1>a, <1>6, KeepsAny DEF Spare
<1>12. /\ StepsRight(b, c, f)
       /\ \A j \in Ino : HeldFrom(b, 1, j) <=> a.ip = j \/ LockedAt(b, j)
       /\ \A j \in Ino : Cardinality(GivesOf(b.todo, j)) = 0
  <2>1. Does2(b, Unlock(a.ip), Lock(a.ip))  BY <1>3, <1>4 DEF Does2
  <2>2. Keeps(b, c, f, a.ip) > 0
    <3>1. PICK i \in Ino : i = a.ip  BY <1>1
    <3>2. Keeps(b, c, f, i) = Same(c, i) + Same(f, i) + Same(i, i) + Spare(b, i)  BY <1>11, <3>1
    <3>3. /\ Same(c, i) \in Nat /\ Same(f, i) \in Nat /\ Same(i, i) = 1
          /\ Spare(b, i) \in Nat
      BY <1>s, SameIs
    <3> QED  BY <3>1, <3>2, <3>3
  <2>3. a.ip \in Ino  BY <1>1
  <2>4. PICK i \in Ino : i = a.ip  BY <2>3
  <2>5. Does2(b, Unlock(i), Lock(i))  BY <2>1, <2>4
  <2>6. LockedAt(b, i)  BY <1>8, <2>4
  <2>7. Keeps(b, c, f, i) > 0  BY <2>2, <2>4
  <2>8. StepsRight(b, c, f)  BY <2>5, <2>6, <2>7, FormUnlockLock
  <2>9. \A j \in Ino : HeldFrom(b, 1, j) <=> i = j \/ LockedAt(b, j)
    BY <2>5, <2>6, <2>7, FormUnlockLock
  <2>10. \A j \in Ino : Cardinality(GivesOf(b.todo, j)) = 0
    BY <2>5, <2>6, <2>7, FormUnlockLock
  <2> QED  BY <2>4, <2>8, <2>9, <2>10
<1>13. \A j \in Ino : HeldFrom(b, 1, j) \/ Twice(b, j) <=> LockedAt(a, j)
  BY <1>1, <1>7, <1>8, <1>9, <1>12
<1>14. \A j \in Ino : Keeps(b, c, f, j) + Cardinality(GivesOf(b.todo, j))
                       = Keeps(a, c, f, j) + Same(None, j)
  <2> TAKE j \in Ino
  <2>1. /\ Same(c, j) \in Nat /\ Same(f, j) \in Nat /\ Same(a.ip, j) \in Nat
        /\ Same(None, j) = 0 /\ Spare(b, j) = Spare(a, j) /\ Spare(a, j) \in Nat
    BY <1>s, SameIs
  <2>2. Keeps(a, c, f, j) = Same(c, j) + Same(f, j) + Same(a.ip, j) + Spare(a, j)  BY <1>10
  <2>3. Keeps(b, c, f, j) = Same(c, j) + Same(f, j) + Same(a.ip, j) + Spare(b, j)  BY <1>11
  <2>4. Cardinality(GivesOf(b.todo, j)) = 0  BY <1>12
  <2> QED  BY <2>1, <2>2, <2>3, <2>4
<1>15. b.call \in {"open", "create"} => f = None  BY <1>1, <1>4
<1> QED  BY <1>1, <1>4, <1>5, <1>12, <1>13, <1>14, <1>15, ChangeBecomes

-----------------------------------------------------------------------------
(* Steps of the system.                                                    *)

Data ==
    /\ disk \in [Ino -> [type : Type, nlink : Int]]
    /\ ent \in [Ino -> [Entry -> Ino \cup {None}]]
    /\ core \in [Ino -> [type : Type, nlink : Int]]

Flags == ref \in [Ino -> Nat] /\ valid \subseteq Ino /\ busy \subseteq valid

LEMMA Parts ==
  ASSUME TypeOK, Running
  PROVE  /\ Typed /\ Data /\ Flags
         /\ Rights /\ Refs /\ Locks /\ Cached
<1>1. Typed  BY DEF TypeOK, Typed
<1>2. Data  BY DEF TypeOK, Data
<1>3. Flags  BY DEF TypeOK, Flags
<1>4. Rights /\ Refs /\ Locks /\ Cached  BY DEF Running, Rights
<1> QED  BY <1>1, <1>2, <1>3, <1>4

LEMMA Whole ==
  ASSUME Typed', Data', Flags', Rights', Refs', Locks', Cached'
  PROVE  TypeOK' /\ Running'
<1>1. \A i \in Ino : i \in busy' => ref'[i] > 0  BY BusyReferred
<1>2. busy' \subseteq {i \in valid' : ref'[i] > 0}  BY <1>1 DEF Flags
<1>3. TypeOK'
  <2>1. /\ disk' \in [Ino -> [type : Type, nlink : Int]]
        /\ ent' \in [Ino -> [Entry -> Ino \cup {None}]]
        /\ core' \in [Ino -> [type : Type, nlink : Int]]
    BY DEF Data
  <2>2. ref' \in [Ino -> Nat] /\ valid' \subseteq Ino  BY DEF Flags
  <2>3. /\ at' \in [Proc -> Calling]
        /\ cwd' \in [Proc -> Ino] /\ file' \in [Proc -> Ino \cup {None}]
    BY DEF Typed
  <2> QED  BY <1>2, <2>1, <2>2, <2>3 DEF TypeOK
<1>4. Running'  BY DEF Running, Rights
<1> QED  BY <1>3, <1>4

\* iget() of x, or of nothing.
Refers(x) == ref' \in [Ino -> Int] /\ \A i \in Ino : ref'[i] = ref[i] + Same(x, i)

LEMMA IgetRefers ==
  ASSUME Flags, NEW x \in Ino, Iget(x)
  PROVE  Refers(x)
<1>1. ref' \in [Ino -> Int] /\ ref'[x] = ref[x] + 1 /\ \A i \in Ino : i # x => ref'[i] = ref[i]
  BY DEF Flags, Iget
<1>2. ASSUME NEW i \in Ino  PROVE ref'[i] = ref[i] + Same(x, i)
  <2>1. ref[i] \in Nat  BY DEF Flags
  <2>2. CASE i = x  BY <1>1, <2>1, <2>2 DEF Same, One
  <2>3. CASE i # x  BY <1>1, <2>1, <2>3 DEF Same, One
  <2> QED  BY <2>2, <2>3
<1> QED  BY <1>1, <1>2 DEF Refers

LEMMA NoIgetRefers ==
  ASSUME Flags, ref' = ref
  PROVE  Refers(None)
<1>1. \A i \in Ino : ref[i] \in Nat /\ Same(None, i) = 0  BY SameIs DEF Flags
<1> QED  BY <1>1 DEF Flags, Refers

\* A step of p at a point of its call, which becomes b.
LEMMA PointStep ==
  ASSUME TypeOK, Running, NEW p \in Proc, at[p].todo = <<>>, NEW b, NEW c, NEW f, NEW x,
         Becomes(at[p], cwd[p], file[p], b, c, f, x), Moves(p, b, c, f), Refers(x),
         busy' = busy, valid' = valid, Data', Cached'
  PROVE  TypeOK' /\ Running'
<1>1. Typed /\ Data /\ Flags /\ Rights /\ Refs /\ Locks  BY Parts
<1>2. b \in Calling /\ c \in Ino /\ f \in Ino \cup {None} /\ CallRight(b, c, f)  BY DEF Becomes
<1>3. Typed' /\ Rights'  BY <1>1, <1>2, Moved, RightsMove
<1>4. CallRight(at[p], cwd[p], file[p])  BY <1>1 DEF Rights
<1>5. \A i \in Ino : Holds(at[p], i) <=> LockedAt(at[p], i)
  <2>1. \A i \in Ino : HeldFrom(at[p], 1, i) <=> LockedAt(at[p], i)  BY Plan0
  <2>2. \A i \in Ino : Twice(at[p], i) => LockedAt(at[p], i)  BY DEF Twice, LockedAt
  <2> QED  BY <2>1, <2>2 DEF Holds
<1>6. \A i \in Ino : Holds(b, i) <=> Holds(at[p], i)  BY <1>5 DEF Becomes
<1>7. \A i \in Ino : Owns(b, c, f, i) = Owns(at[p], cwd[p], file[p], i) + Same(x, i)
  <2>1. \A i \in Ino : Cardinality(GivesOf(at[p].todo, i)) = 0  BY Plan0
  <2>2. \A i \in Ino : Keeps(at[p], cwd[p], file[p], i) \in Nat  BY KeepsNat
  <2>3. \A i \in Ino : Owns(at[p], cwd[p], file[p], i) = Keeps(at[p], cwd[p], file[p], i)
    BY <2>1, <2>2 DEF Owns
  <2> QED  BY <2>3 DEF Becomes
<1>8. Refs' /\ ref' \in [Ino -> Nat]
  <2>1. \A i \in Ino : /\ ref[i] \in Nat /\ Same(x, i) \in Nat
                       /\ Owns(at[p], cwd[p], file[p], i) \in Nat
    BY <1>1, OwnsRefs, SameIs
  <2>2. \A i \in Ino : ref'[i] = ref[i] + Same(x, i)  BY DEF Refers
  <2>3. ASSUME NEW i \in Ino
        PROVE  ref'[i] = ref[i] + Owns(b, c, f, i) - Owns(at[p], cwd[p], file[p], i)
    BY <1>7, <2>1, <2>2
  <2>4. ref' \in [Ino -> Int]  BY DEF Refers
  <2> QED  BY <1>1, <1>2, <2>3, <2>4, RefsMove
<1>9. Locks'
  <2>1. \A i \in Ino : i \in busy <=> \E q \in Proc : Holds(at[q], i)  BY <1>1 DEF Locks
  <2>2. \A i \in Ino : i \in busy' <=> Holds(b, i) \/ (i \in busy /\ ~Holds(at[p], i))
    BY <1>6, <2>1
  <2>3. \A i \in Ino : Holds(b, i) => Holds(at[p], i) \/ i \notin busy  BY <1>6
  <2> QED  BY <1>1, <1>2, <2>2, <2>3, LocksMove
<1>10. Flags'  BY <1>1, <1>8 DEF Flags
<1> QED  BY <1>3, <1>8, <1>9, <1>10, Whole

\* What other processes are about to do stays to be done, and so does what p is
\* about to do after its next micro-step.
LEMMA ToDoStays ==
  ASSUME Typed, NEW p \in Proc, at[p].todo = <<>>, NEW b, at' = [at EXCEPT ![p] = b], NEW step,
         ToDo(step)
  PROVE  ToDo(step)'
<1>1. PICK q \in Proc : \E k \in 1..Len(at[q].todo) : at[q].todo[k] = step  BY DEF ToDo
<1>2. q # p
  <2>1. Len(<<>>) = 0  OBVIOUS
  <2>2. 1..0 = {}  OBVIOUS
  <2> QED  BY <1>1, <2>1, <2>2
<1>3. at'[q] = at[q]  BY <1>2 DEF Typed
<1> QED  BY <1>1, <1>3 DEF ToDo

LEMMA ToDoTail ==
  ASSUME Typed, NEW p \in Proc, at[p].todo # <<>>, NEW b, at' = [at EXCEPT ![p] = b],
         b.todo = Tail(at[p].todo), NEW step, step # Head(at[p].todo), ToDo(step)
  PROVE  ToDo(step)'
<1>0. PICK q \in Proc : \E m \in 1..Len(at[q].todo) : at[q].todo[m] = step  BY DEF ToDo
<1>1. PICK k \in 1..Len(at[q].todo) : at[q].todo[k] = step  BY <1>0
<1>2. CASE q = p
  <2>1. PICK s : s = at[p].todo  OBVIOUS
  <2>2. s \in Seq(Step) /\ s # <<>>  BY <2>1 DEF Typed, Calling
  <2>3. /\ Len(s) \in Nat /\ Len(Tail(s)) = Len(s) - 1 /\ Head(s) = s[1]
        /\ \A j \in 1..Len(s) - 1 : Tail(s)[j] = s[j + 1]
    BY <2>2, TailIs
  <2>4. k \in 1..Len(s) /\ s[k] = step /\ k # 1  BY <1>1, <1>2, <2>1, <2>3
  <2>5. k - 1 \in 1..Len(s) - 1 /\ (k - 1) + 1 = k  BY <2>3, <2>4
  <2>6. Tail(s)[k - 1] = step /\ k - 1 \in 1..Len(Tail(s))  BY <2>3, <2>4, <2>5
  <2>7. at'[p] = b /\ at'[p].todo = Tail(s)  BY <2>1 DEF Typed
  <2> QED  BY <2>6, <2>7 DEF ToDo
<1>3. CASE q # p
  <2>1. at'[q] = at[q]  BY <1>3 DEF Typed
  <2> QED  BY <1>1, <2>1 DEF ToDo
<1> QED  BY <1>2, <1>3

LEMMA CachedSame ==
  ASSUME Typed, Cached, NEW p \in Proc, at[p].todo = <<>>, NEW b, at' = [at EXCEPT ![p] = b],
         disk' = disk, core' = core, valid' = valid
  PROVE  Cached'
<1>1. \A i \in valid : ToDo(Update(i)) => ToDo(Update(i))'  BY ToDoStays
<1>2. \A i \in valid : ToDo(<<"drop", i>>) => ToDo(<<"drop", i>>)'  BY ToDoStays
<1> QED  BY <1>1, <1>2 DEF Cached

\* A link count is changed, and is to be written.
Counts(x, n) == core' = [core EXCEPT ![x].nlink = n]

LEMMA CountsIs ==
  ASSUME Data, NEW x \in Ino, NEW n \in Int, Counts(x, n)
  PROVE  /\ core' \in [Ino -> [type : Type, nlink : Int]]
         /\ core'[x].type = core[x].type
         /\ \A i \in Ino : i # x => core'[i] = core[i]
BY DEF Data, Counts

LEMMA CachedCount ==
  ASSUME Typed, Data, Flags, Cached, NEW p \in Proc, at[p].todo = <<>>, NEW b,
         at' = [at EXCEPT ![p] = b], NEW x \in Ino, NEW n \in Int, Counts(x, n),
         NEW k \in 1..Len(b.todo), b.todo[k] = Update(x),
         disk' = disk, valid' = valid
  PROVE  Cached'
<1>1. \A i \in valid : ToDo(Update(i)) => ToDo(Update(i))'  BY ToDoStays
<1>2. \A i \in valid : ToDo(<<"drop", i>>) => ToDo(<<"drop", i>>)'  BY ToDoStays
<1>3. core'[x].type = core[x].type /\ \A i \in Ino : i # x => core'[i] = core[i]  BY CountsIs
<1>4. ToDo(Update(x))'
  <2>1. at'[p] = b  BY DEF Typed
  <2> QED  BY <2>1 DEF ToDo
<1>5. valid \subseteq Ino  BY DEF Flags
<1>6. ASSUME NEW i \in valid
      PROVE  /\ core'[i] = disk'[i] \/ ToDo(Update(i))' \/ ToDo(<<"drop", i>>)'
             /\ core'[i].type = "free" \/ disk'[i].type = "free" => ToDo(<<"drop", i>>)'
  <2>1. CASE i = x  BY <1>2, <1>3, <1>4, <2>1 DEF Cached
  <2>2. CASE i # x  BY <1>1, <1>2, <1>3, <1>5, <2>2 DEF Cached
  <2> QED  BY <2>1, <2>2
<1> QED  BY <1>6 DEF Cached

\* ialloc() of an inode that is free on the disk.
LEMMA CachedAlloc ==
  ASSUME Typed, Data, Flags, Cached, NEW p \in Proc, at[p].todo = <<>>, NEW b,
         at' = [at EXCEPT ![p] = b], NEW x \in Ino, disk[x].type = "free",
         NEW d, disk' = [disk EXCEPT ![x] = d], core' = core, valid' = valid
  PROVE  Cached'
<1>1. \A i \in valid : ToDo(Update(i)) => ToDo(Update(i))'  BY ToDoStays
<1>2. \A i \in valid : ToDo(<<"drop", i>>) => ToDo(<<"drop", i>>)'  BY ToDoStays
<1>3. \A i \in Ino : i # x => disk'[i] = disk[i]  BY DEF Data
<1>4. valid \subseteq Ino  BY DEF Flags
<1>5. ASSUME NEW i \in valid
      PROVE  /\ core'[i] = disk'[i] \/ ToDo(Update(i))' \/ ToDo(<<"drop", i>>)'
             /\ core'[i].type = "free" \/ disk'[i].type = "free" => ToDo(<<"drop", i>>)'
  <2>1. CASE i = x  BY <1>2, <2>1 DEF Cached
  <2>2. CASE i # x  BY <1>1, <1>2, <1>3, <1>4, <2>2 DEF Cached
  <2> QED  BY <2>1, <2>2
<1> QED  BY <1>5 DEF Cached

-----------------------------------------------------------------------------
(* Micro-steps.                                                            *)

Later(a) == [a EXCEPT !.todo = Tail(@)]

LEMMA LaterIs ==
  ASSUME NEW a \in Calling, a.todo # <<>>, NEW b, b = Later(a)
  PROVE  /\ b \in Calling /\ SameBut(a, b) /\ b.todo = Tail(a.todo)
         /\ a.todo \in Seq(Step)
<1>1. a.todo \in Seq(Step)  BY DEF Calling
<1>2. Tail(a.todo) \in Seq(Step)  BY <1>1, TailIs
<1> QED  BY <1>1, <1>2 DEF Later, Calling, SameBut

\* The first micro-step of p takes no lock that is held.
Free(p) == \A i \in Ino : Head(at[p].todo) = Lock(i) => i \notin busy

LEMMA NotTwice ==
  ASSUME Typed, Rights, Locks, NEW p \in Proc, at[p].todo # <<>>, Free(p)
  PROVE  \A i \in Ino : ~Twice(at[p], i)
<1> SUFFICES ASSUME NEW i \in Ino, Twice(at[p], i)  PROVE FALSE  OBVIOUS
<1>1. PointRight(at[p])  BY DEF Rights, CallRight
<1>2. at[p].todo = <<Lock(i)>>  BY <1>1 DEF PointRight, Twice
<1>3. Head(at[p].todo) = Lock(i)  BY <1>2
<1>4. Holds(at[p], i)  BY DEF Holds
<1>5. i \in busy  BY <1>4 DEF Locks
<1> QED  BY <1>3, <1>5 DEF Free

\* The next micro-step of p, which may take a lock, release one, or give a
\* reference back.
LEMMA MicroMove ==
  ASSUME TypeOK, Running, NEW p \in Proc, at[p].todo # <<>>, Free(p),
         Did(p), cwd' = cwd, file' = file,
         ref' \in [Ino -> Int],
         \A i \in Ino : ref'[i] = ref[i] - One(Gives(Head(at[p].todo), i)),
         \A i \in Ino : i \in busy' <=> \/ Takes(Head(at[p].todo), i)
                                        \/ i \in busy /\ ~Releases(Head(at[p].todo), i),
         valid' \subseteq Ino, busy' \subseteq valid', Data', Cached'
  PROVE  TypeOK' /\ Running'
<1>1. Typed /\ Data /\ Flags /\ Rights /\ Refs /\ Locks  BY Parts
<1>2. PICK a : a = at[p]  OBVIOUS
<1>3. PICK b : b = Later(a)  OBVIOUS
<1>4. PICK c : c = cwd[p]  OBVIOUS
<1>5. PICK f : f = file[p]  OBVIOUS
<1>6. a \in Calling /\ c \in Ino /\ f \in Ino \cup {None} /\ CallRight(a, c, f)
  BY <1>1, <1>2, <1>4, <1>5 DEF Typed, Rights
<1>7. b \in Calling /\ SameBut(a, b) /\ b.todo = Tail(a.todo) /\ a.todo \in Seq(Step)
  BY <1>2, <1>3, <1>6, LaterIs
<1>8. \A i \in Ino : ~Twice(a, i)  BY <1>1, <1>2, NotTwice
<1>9. Moves(p, b, c, f)
  <2>1. at' = [at EXCEPT ![p] = b]  BY <1>2, <1>3 DEF Did, Later
  <2>2. cwd' = [cwd EXCEPT ![p] = c]  BY <1>1, <1>4 DEF Typed
  <2>3. file' = [file EXCEPT ![p] = f]  BY <1>1, <1>5 DEF Typed
  <2> QED  BY <2>1, <2>2, <2>3 DEF Moves
<1>10. CallRight(b, c, f)  BY <1>2, <1>6, <1>7, <1>8, TailRight
<1>11. Typed' /\ Rights'  BY <1>1, <1>6, <1>7, <1>9, <1>10, Moved, RightsMove
<1>12. PICK h : h = Head(a.todo)  OBVIOUS
<1>13. ASSUME NEW i \in Ino
       PROVE  /\ Holds(b, i) <=> HeldFrom(a, 2, i)
              /\ Holds(a, i) <=> Releases(h, i) \/ (~Takes(h, i) /\ Holds(b, i))
              /\ Owns(b, c, f, i) = Owns(a, c, f, i) - One(Gives(h, i))
  BY <1>2, <1>7, <1>8, <1>12, TailHas
<1>14. Refs' /\ ref' \in [Ino -> Nat]
  <2>1. \A i \in Ino : ref[i] \in Nat /\ Owns(a, c, f, i) \in Nat
    BY <1>1, <1>2, <1>4, <1>5, OwnsRefs
  <2>2. \A i \in Ino : One(Gives(h, i)) \in Int  BY DEF One
  <2>3. \A i \in Ino : ref'[i] = ref[i] - One(Gives(h, i))  BY <1>2, <1>12
  <2>4. ASSUME NEW i \in Ino  PROVE ref'[i] = ref[i] + Owns(b, c, f, i) - Owns(a, c, f, i)
    BY <1>13, <2>1, <2>2, <2>3
  <2>5. \A i \in Ino : ref'[i] = ref[i] + Owns(b, c, f, i) - Owns(at[p], cwd[p], file[p], i)
    BY <1>2, <1>4, <1>5, <2>4
  <2> QED  BY <1>1, <1>6, <1>7, <1>9, <2>5, RefsMove
<1>15. Locks'
  <2>1. \A i \in Ino : i \in busy <=> \E q \in Proc : Holds(at[q], i)  BY <1>1 DEF Locks
  <2>2. \A i \in Ino : i \in busy' <=> Takes(h, i) \/ (i \in busy /\ ~Releases(h, i))
    BY <1>2, <1>12
  <2>3. \A i \in Ino : Holds(a, i) => i \in busy  BY <1>2, <2>1
  <2>4. \A i \in Ino : Takes(h, i) => i \notin busy  BY <1>2, <1>12 DEF Takes, Free
  <2>5. StepRight(a, c, f, 1) /\ h = a.todo[1]
    <3>1. 1 \in 1..Len(a.todo) /\ h = a.todo[1]  BY <1>2, <1>7, <1>12, TailIs
    <3> QED  BY <1>6, <3>1 DEF CallRight
  <2>6. \A i \in Ino : Takes(h, i) => Holds(b, i)
    <3>1. \A i \in Ino : Takes(h, i) => HeldFrom(a, 1 + 1, i)  BY <2>5 DEF StepRight, Takes
    <3> QED  BY <1>13, <3>1
  <2>7. \A i \in Ino : Releases(h, i) => ~Holds(b, i)
    <3>1. \A i \in Ino : Releases(h, i) => ~HeldFrom(a, 1 + 1, i)
      BY <2>5 DEF StepRight, Releases
    <3> QED  BY <1>13, <3>1
  <2>8. \A i \in Ino : i \in busy' <=> Holds(b, i) \/ (i \in busy /\ ~Holds(at[p], i))
    BY <1>2, <1>13, <2>2, <2>3, <2>4, <2>6, <2>7
  <2>9. \A i \in Ino : Holds(b, i) => Holds(at[p], i) \/ i \notin busy
    BY <1>2, <1>13, <2>4, <2>7
  <2> QED  BY <1>1, <1>6, <1>7, <1>9, <2>8, <2>9, LocksMove
<1>16. Flags'  BY <1>14 DEF Flags
<1> QED  BY <1>11, <1>14, <1>15, <1>16, Whole

\* The last reference is not given back of an inode that is locked: whoever has
\* locked it has one as well.
LEMMA PutUnlocked ==
  ASSUME TypeOK, Running, NEW p \in Proc, NEW i \in Ino, Doing(p, "iput", i), ref[i] = 1
  PROVE  i \notin busy
<1> SUFFICES ASSUME i \in busy  PROVE FALSE  OBVIOUS
<1>1. Typed /\ Rights /\ Refs /\ Locks  BY Parts
<1>2. PICK q \in Proc : Holds(at[q], i)  BY <1>1 DEF Locks
<1>3. PICK a : a = at[p]  OBVIOUS
<1>4. PICK c : c = cwd[p]  OBVIOUS
<1>5. PICK f : f = file[p]  OBVIOUS
<1>6. /\ a \in Calling /\ CallRight(a, c, f) /\ a.todo # <<>> /\ Head(a.todo) = Put(i)
  BY <1>1, <1>3, <1>4, <1>5 DEF Typed, Rights, Doing, Put
<1>7. Free(p)  BY <1>3, <1>6 DEF Free, Put, Lock
<1>8. \A j \in Ino : ~Twice(a, j)  BY <1>1, <1>3, <1>6, <1>7, NotTwice
<1>9. PICK b : b = Later(a)  OBVIOUS
<1>10. b \in Calling /\ SameBut(a, b) /\ b.todo = Tail(a.todo) /\ a.todo \in Seq(Step)
  BY <1>6, <1>9, LaterIs
<1>11. b.todo \in Seq(Step) /\ CallRight(b, c, f)  BY <1>6, <1>8, <1>10, TailRight DEF Calling
<1>12. /\ Holds(a, i) <=> Releases(Put(i), i) \/ (~Takes(Put(i), i) /\ Holds(b, i))
       /\ Owns(b, c, f, i) = Owns(a, c, f, i) - One(Gives(Put(i), i))
  BY <1>6, <1>8, <1>10, TailHas
<1>13. ~Takes(Put(i), i) /\ ~Releases(Put(i), i) /\ Gives(Put(i), i)  BY Ops
<1>14. One(Gives(Put(i), i)) = 1  BY <1>13 DEF One
<1>15. Owns(a, c, f, i) \in Nat /\ Owns(b, c, f, i) \in Nat /\ Owns(a, c, f, i) <= 1
  BY <1>1, <1>3, <1>4, <1>5, <1>11, OwnsRefs, OwnsNat
<1>16. Owns(b, c, f, i) = Owns(a, c, f, i) - 1  BY <1>12, <1>14
<1>17. CASE q = p
  <2>1. Holds(b, i)  BY <1>2, <1>3, <1>12, <1>13, <1>17
  <2>2. Owns(b, c, f, i) > 0  BY <1>11, <2>1, HeldOwned
  <2> QED  BY <1>15, <1>16, <2>2
<1>18. CASE q # p
  <2>1. Owns(at[q], cwd[q], file[q], i) > 0  BY <1>1, <1>2, HolderOwns
  <2>2. Owns(a, c, f, i) + Owns(at[q], cwd[q], file[q], i) <= 1
    BY <1>1, <1>3, <1>4, <1>5, <1>18, OwnsRefs
  <2>3. Owns(at[q], cwd[q], file[q], i) \in Nat  BY <1>1, OwnsRefs
  <2> QED  BY <1>15, <1>16, <2>1, <2>2, <2>3
<1> QED  BY <1>17, <1>18

\* The micro-steps to come of all processes, after p has done one.
LEMMA ToDoLater ==
  ASSUME Typed, NEW p \in Proc, at[p].todo # <<>>, Did(p), NEW step,
         step # Head(at[p].todo), ToDo(step)
  PROVE  ToDo(step)'
<1>1. PICK b : b = Later(at[p])  OBVIOUS
<1>2. b.todo = Tail(at[p].todo)  BY <1>1, LaterIs DEF Typed
<1>3. at' = [at EXCEPT ![p] = b]  BY <1>1 DEF Did, Later
<1> QED  BY <1>2, <1>3, ToDoTail

LEMMA DoingIs ==
  ASSUME Typed, NEW p \in Proc, NEW op, NEW i \in Ino, Doing(p, op, i)
  PROVE  at[p].todo # <<>> /\ Head(at[p].todo) = <<op, i>>
BY DEF Doing

LEMMA ILockStep ==
  ASSUME TypeOK, Running, NEW p \in Proc, ILock(p)
  PROVE  TypeOK' /\ Running'
<1>1. Typed /\ Data /\ Flags /\ Rights /\ Refs /\ Locks /\ Cached  BY Parts
<1>2. PICK i \in Ino :
        /\ Doing(p, "ilock", i)
        /\ i \notin busy
        /\ i \in valid \/ disk[i].type # "free"
        /\ busy' = busy \cup {i}
        /\ valid' = valid \cup {i}
        /\ core' = IF i \in valid THEN core ELSE [core EXCEPT ![i] = disk[i]]
        /\ Did(p)
        /\ UNCHANGED <<diskVars, ref, procVars, calls, strays>>
  BY DEF ILock
<1>3. at[p].todo # <<>> /\ Head(at[p].todo) = Lock(i)  BY <1>2 DEF Doing, Lock
<1>4. Free(p)  BY <1>2, <1>3 DEF Free, Lock
<1>5. disk' = disk /\ ent' = ent /\ ref' = ref /\ cwd' = cwd /\ file' = file
  BY <1>2 DEF diskVars, procVars
<1>6. /\ core' \in [Ino -> [type : Type, nlink : Int]]
      /\ i \in valid => core'[i] = core[i]
      /\ i \notin valid => core'[i] = disk[i]
      /\ \A j \in Ino : j # i => core'[j] = core[j]
  BY <1>1, <1>2 DEF Data
<1>7. Data'  BY <1>1, <1>5, <1>6 DEF Data
<1>8. Cached'
  <2>1. \A j \in Ino : ToDo(Update(j)) => ToDo(Update(j))'
    <3>1. \A j \in Ino : Update(j) # Lock(i)  BY DEF Update, Lock
    <3> QED  BY <1>1, <1>2, <1>3, <3>1, ToDoLater
  <2>2. \A j \in Ino : ToDo(<<"drop", j>>) => ToDo(<<"drop", j>>)'
    <3>1. \A j \in Ino : <<"drop", j>> # Lock(i)  BY DEF Lock
    <3> QED  BY <1>1, <1>2, <1>3, <3>1, ToDoLater
  <2>3. valid' = valid \cup {i} /\ valid' \subseteq Ino  BY <1>1, <1>2 DEF Flags
  <2>4. ASSUME NEW j \in valid'
        PROVE  /\ core'[j] = disk'[j] \/ ToDo(Update(j))' \/ ToDo(<<"drop", j>>)'
               /\ core'[j].type = "free" \/ disk'[j].type = "free" => ToDo(<<"drop", j>>)'
    <3>1. j \in Ino  BY <2>3
    <3>2. CASE j \in valid  BY <1>1, <1>5, <1>6, <2>1, <2>2, <3>1, <3>2 DEF Cached
    <3>3. CASE j \notin valid  BY <1>2, <1>5, <1>6, <2>3, <3>1, <3>3
    <3> QED  BY <3>2, <3>3
  <2> QED  BY <2>4 DEF Cached
<1>9. \A j \in Ino : ref'[j] = ref[j] - One(Gives(Head(at[p].todo), j))
  <2>1. \A j \in Ino : ~Gives(Lock(i), j)  BY Ops
  <2>2. \A j \in Ino : One(Gives(Lock(i), j)) = 0  BY <2>1 DEF One
  <2>3. \A j \in Ino : ref[j] \in Nat  BY <1>1 DEF Flags
  <2> QED  BY <1>3, <1>5, <2>2, <2>3
<1>10. \A j \in Ino : j \in busy' <=> \/ Takes(Head(at[p].todo), j)
                                      \/ j \in busy /\ ~Releases(Head(at[p].todo), j)
  <2>1. \A j \in Ino : (Takes(Lock(i), j) <=> i = j) /\ ~Releases(Lock(i), j)  BY Ops
  <2> QED  BY <1>2, <1>3, <2>1
<1>11. ref' \in [Ino -> Int] /\ valid' \subseteq Ino /\ busy' \subseteq valid'
  BY <1>1, <1>2, <1>5 DEF Flags
<1> QED  BY <1>2, <1>3, <1>4, <1>5, <1>7, <1>8, <1>9, <1>10, <1>11, MicroMove

LEMMA IUnlockStep ==
  ASSUME TypeOK, Running, NEW p \in Proc, IUnlock(p)
  PROVE  TypeOK' /\ Running'
<1>1. Typed /\ Data /\ Flags /\ Rights /\ Refs /\ Locks /\ Cached  BY Parts
<1>2. PICK i \in Ino :
        /\ Doing(p, "iunlock", i)
        /\ busy' = busy \ {i}
        /\ Did(p)
        /\ UNCHANGED <<diskVars, core, ref, valid, procVars, calls, strays>>
  BY DEF IUnlock
<1>3. at[p].todo # <<>> /\ Head(at[p].todo) = Unlock(i)  BY <1>2 DEF Doing, Unlock
<1>4. Free(p)  BY <1>3 DEF Free, Lock, Unlock
<1>5. disk' = disk /\ ent' = ent /\ core' = core /\ ref' = ref /\ valid' = valid
      /\ cwd' = cwd /\ file' = file
  BY <1>2 DEF diskVars, procVars
<1>7. Data'  BY <1>1, <1>5 DEF Data
<1>8. Cached'
  <2>1. \A j \in Ino : ToDo(Update(j)) => ToDo(Update(j))'
    <3>1. \A j \in Ino : Update(j) # Unlock(i)  BY DEF Update, Unlock
    <3> QED  BY <1>1, <1>2, <1>3, <3>1, ToDoLater
  <2>2. \A j \in Ino : ToDo(<<"drop", j>>) => ToDo(<<"drop", j>>)'
    <3>1. \A j \in Ino : <<"drop", j>> # Unlock(i)  BY DEF Unlock
    <3> QED  BY <1>1, <1>2, <1>3, <3>1, ToDoLater
  <2> QED  BY <1>1, <1>5, <2>1, <2>2 DEF Cached, Flags
<1>9. \A j \in Ino : ref'[j] = ref[j] - One(Gives(Head(at[p].todo), j))
  <2>1. \A j \in Ino : ~Gives(Unlock(i), j)  BY Ops
  <2>2. \A j \in Ino : One(Gives(Unlock(i), j)) = 0  BY <2>1 DEF One
  <2>3. \A j \in Ino : ref[j] \in Nat  BY <1>1 DEF Flags
  <2> QED  BY <1>3, <1>5, <2>2, <2>3
<1>10. \A j \in Ino : j \in busy' <=> \/ Takes(Head(at[p].todo), j)
                                      \/ j \in busy /\ ~Releases(Head(at[p].todo), j)
  <2>1. \A j \in Ino : (Releases(Unlock(i), j) <=> i = j) /\ ~Takes(Unlock(i), j)  BY Ops
  <2> QED  BY <1>2, <1>3, <2>1
<1>11. ref' \in [Ino -> Int] /\ valid' \subseteq Ino /\ busy' \subseteq valid'
  BY <1>1, <1>2, <1>5 DEF Flags
<1> QED  BY <1>2, <1>3, <1>4, <1>5, <1>7, <1>8, <1>9, <1>10, <1>11, MicroMove

LEMMA IPutStep ==
  ASSUME TypeOK, Running, NEW p \in Proc, IPut(p)
  PROVE  TypeOK' /\ Running'
<1>1. Typed /\ Data /\ Flags /\ Rights /\ Refs /\ Locks /\ Cached  BY Parts
<1>2. PICK i \in Ino :
        /\ Doing(p, "iput", i)
        /\ ref' = [ref EXCEPT ![i] = @ - 1]
        /\ valid' = IF ref[i] = 1 THEN valid \ {i} ELSE valid
        /\ core' = IF ref[i] = 1 THEN [core EXCEPT ![i] = Dinode("free", 0)] ELSE core
        /\ Did(p)
        /\ UNCHANGED <<diskVars, busy, procVars, calls, strays>>
  BY DEF IPut
<1>3. at[p].todo # <<>> /\ Head(at[p].todo) = Put(i)  BY <1>2 DEF Doing, Put
<1>4. Free(p)  BY <1>3 DEF Free, Lock, Put
<1>5. disk' = disk /\ ent' = ent /\ busy' = busy /\ cwd' = cwd /\ file' = file
  BY <1>2 DEF diskVars, procVars
<1>6. /\ core' \in [Ino -> [type : Type, nlink : Int]]
      /\ \A j \in Ino : j # i \/ ref[i] # 1 => core'[j] = core[j]
  BY <1>1, <1>2 DEF Data, Dinode, Type
<1>7. Data'  BY <1>1, <1>5, <1>6 DEF Data
<1>8. Cached'
  <2>1. \A j \in Ino : ToDo(Update(j)) => ToDo(Update(j))'
    <3>1. \A j \in Ino : Update(j) # Put(i)  BY DEF Update, Put
    <3> QED  BY <1>1, <1>2, <1>3, <3>1, ToDoLater
  <2>2. \A j \in Ino : ToDo(<<"drop", j>>) => ToDo(<<"drop", j>>)'
    <3>1. \A j \in Ino : <<"drop", j>> # Put(i)  BY DEF Put
    <3> QED  BY <1>1, <1>2, <1>3, <3>1, ToDoLater
  <2>3. \A j \in valid' : j \in valid /\ j \in Ino /\ core'[j] = core[j]
    BY <1>1, <1>2, <1>6 DEF Flags
  <2> QED  BY <1>1, <1>5, <2>1, <2>2, <2>3 DEF Cached
<1>9. \A j \in Ino : ref'[j] = ref[j] - One(Gives(Head(at[p].todo), j))
  <2>1. \A j \in Ino : Gives(Put(i), j) <=> i = j  BY Ops
  <2>2. \A j \in Ino : One(Gives(Put(i), j)) = IF i = j THEN 1 ELSE 0  BY <2>1 DEF One
  <2>3. \A j \in Ino : ref[j] \in Nat  BY <1>1 DEF Flags
  <2>4. ref'[i] = ref[i] - 1 /\ \A j \in Ino : i # j => ref'[j] = ref[j]
    BY <1>1, <1>2 DEF Flags
  <2> QED  BY <1>3, <2>2, <2>3, <2>4
<1>10. \A j \in Ino : j \in busy' <=> \/ Takes(Head(at[p].todo), j)
                                      \/ j \in busy /\ ~Releases(Head(at[p].todo), j)
  <2>1. \A j \in Ino : ~Releases(Put(i), j) /\ ~Takes(Put(i), j)  BY Ops
  <2> QED  BY <1>3, <1>5, <2>1
<1>11. ref' \in [Ino -> Int]  BY <1>1, <1>2 DEF Flags
<1>12. valid' \subseteq Ino /\ busy' \subseteq valid'
  <2>1. ref[i] = 1 => i \notin busy  BY <1>2, PutUnlocked
  <2> QED  BY <1>1, <1>2, <1>5, <2>1 DEF Flags
<1> QED  BY <1>2, <1>3, <1>4, <1>5, <1>7, <1>8, <1>9, <1>10, <1>11, <1>12, MicroMove

\* A micro-step that writes the inode i to the disk, or drops the cached one.
LEMMA QuietOps ==
  ASSUME NEW i \in Ino, NEW h \in {Update(i), <<"itrunc", i>>, <<"clear", i>>}, NEW j \in Ino
  PROVE  ~Takes(h, j) /\ ~Releases(h, j) /\ ~Gives(h, j) /\ One(Gives(h, j)) = 0
<1>1. ~Takes(h, j) /\ ~Releases(h, j) /\ ~Gives(h, j)
  BY DEF Takes, Releases, Gives, Lock, Unlock, Put, Update
<1> QED  BY <1>1 DEF One

LEMMA QuietStep ==
  ASSUME TypeOK, Running, NEW p \in Proc, at[p].todo # <<>>, NEW i \in Ino,
         Head(at[p].todo) \in {Update(i), <<"itrunc", i>>, <<"clear", i>>},
         Did(p), flagVars' = flagVars, procVars' = procVars, Data', Cached'
  PROVE  TypeOK' /\ Running'
<1>1. Flags  BY Parts
<1>2. Free(p)  BY DEF Free, Lock, Update
<1>3. ref' = ref /\ busy' = busy /\ valid' = valid /\ cwd' = cwd /\ file' = file
  BY DEF flagVars, procVars
<1>4. PICK h : h = Head(at[p].todo)  OBVIOUS
<1>5. \A j \in Ino : ~Takes(h, j) /\ ~Releases(h, j) /\ One(Gives(h, j)) = 0
  BY <1>4, QuietOps
<1>6. \A j \in Ino : ref[j] \in Nat  BY <1>1 DEF Flags
<1>7. \A j \in Ino : ref'[j] = ref[j] - One(Gives(Head(at[p].todo), j))
  BY <1>3, <1>4, <1>5, <1>6
<1>8. \A j \in Ino : j \in busy' <=> \/ Takes(Head(at[p].todo), j)
                                     \/ j \in busy /\ ~Releases(Head(at[p].todo), j)
  BY <1>3, <1>4, <1>5
<1>9. ref' \in [Ino -> Int] /\ valid' \subseteq Ino /\ busy' \subseteq valid'
  BY <1>1, <1>3 DEF Flags
<1> QED  BY <1>2, <1>3, <1>7, <1>8, <1>9, MicroMove

\* The cached inode i has been written.
LEMMA CachedWritten ==
  ASSUME Typed, Data, Flags, Cached, NEW p \in Proc, at[p].todo # <<>>, NEW i \in Ino,
         Head(at[p].todo) \in {Update(i), <<"itrunc", i>>}, Did(p),
         disk' = [disk EXCEPT ![i] = core[i]], core' = core, valid' = valid
  PROVE  Cached'
<1>1. \A j \in Ino : j # i /\ ToDo(Update(j)) => ToDo(Update(j))'
  <2>1. \A j \in Ino : j # i => Update(j) # Update(i) /\ Update(j) # <<"itrunc", i>>
    BY DEF Update
  <2> QED  BY <2>1, ToDoLater
<1>2. \A j \in Ino : ToDo(<<"drop", j>>) => ToDo(<<"drop", j>>)'
  <2>1. \A j \in Ino : <<"drop", j>> # Update(i) /\ <<"drop", j>> # <<"itrunc", i>>
    BY DEF Update
  <2> QED  BY <2>1, ToDoLater
<1>3. disk'[i] = core[i] /\ \A j \in Ino : j # i => disk'[j] = disk[j]  BY DEF Data
<1>4. valid \subseteq Ino  BY DEF Flags
<1>5. ASSUME NEW j \in valid
      PROVE  /\ core'[j] = disk'[j] \/ ToDo(Update(j))' \/ ToDo(<<"drop", j>>)'
             /\ core'[j].type = "free" \/ disk'[j].type = "free" => ToDo(<<"drop", j>>)'
  <2>1. CASE j = i  BY <1>2, <1>3, <1>4, <2>1 DEF Cached
  <2>2. CASE j # i  BY <1>1, <1>2, <1>3, <1>4, <2>2 DEF Cached
  <2> QED  BY <2>1, <2>2
<1> QED  BY <1>5 DEF Cached

LEMMA IUpdateStep ==
  ASSUME TypeOK, Running, NEW p \in Proc, IUpdate(p)
  PROVE  TypeOK' /\ Running'
<1>1. Typed /\ Data /\ Flags /\ Rights /\ Refs /\ Locks /\ Cached  BY Parts
<1>2. PICK i \in Ino :
        /\ Doing(p, "iupdate", i)
        /\ disk' = [disk EXCEPT ![i] = core[i]]
        /\ Did(p)
        /\ UNCHANGED <<ent, core, flagVars, procVars, calls, strays>>
  BY DEF IUpdate
<1>3. at[p].todo # <<>> /\ Head(at[p].todo) = Update(i)  BY <1>2 DEF Doing, Update
<1>4. ent' = ent /\ core' = core /\ valid' = valid  BY <1>2 DEF flagVars
<1>5. Data'  BY <1>1, <1>2, <1>4 DEF Data
<1>6. Cached'  BY <1>1, <1>2, <1>3, <1>4, CachedWritten
<1> QED  BY <1>2, <1>3, <1>5, <1>6, QuietStep

LEMMA ITruncStep ==
  ASSUME TypeOK, Running, NEW p \in Proc, ITrunc(p)
  PROVE  TypeOK' /\ Running'
<1>1. Typed /\ Data /\ Flags /\ Rights /\ Refs /\ Locks /\ Cached  BY Parts
<1>2. PICK i \in Ino :
        /\ Doing(p, "itrunc", i)
        /\ ent' = [ent EXCEPT ![i] = Blank]
        /\ disk' = [disk EXCEPT ![i] = core[i]]
        /\ Did(p)
        /\ UNCHANGED <<core, flagVars, procVars, calls, strays>>
  BY DEF ITrunc
<1>3. at[p].todo # <<>> /\ Head(at[p].todo) = <<"itrunc", i>>  BY <1>2 DEF Doing
<1>4. core' = core /\ valid' = valid  BY <1>2 DEF flagVars
<1>5. Data'
  <2>1. Blank \in [Entry -> Ino \cup {None}]  BY DEF Blank
  <2> QED  BY <1>1, <1>2, <1>4, <2>1 DEF Data
<1>6. Cached'  BY <1>1, <1>2, <1>3, <1>4, CachedWritten
<1> QED  BY <1>2, <1>3, <1>5, <1>6, QuietStep

LEMMA ClearStep ==
  ASSUME TypeOK, Running, NEW p \in Proc, Clear(p)
  PROVE  TypeOK' /\ Running'
<1>1. Typed /\ Data /\ Flags /\ Rights /\ Refs /\ Locks /\ Cached  BY Parts
<1>2. PICK i \in Ino :
        /\ Doing(p, "clear", i)
        /\ core' = [core EXCEPT ![i].type = "free"]
        /\ disk' = [disk EXCEPT ![i] = core'[i]]
        /\ Did(p)
        /\ UNCHANGED <<ent, flagVars, procVars, calls, strays>>
  BY DEF Clear
<1>3. at[p].todo # <<>> /\ Head(at[p].todo) = <<"clear", i>>  BY <1>2 DEF Doing
<1>4. ent' = ent /\ valid' = valid  BY <1>2 DEF flagVars
<1>5. /\ core' \in [Ino -> [type : Type, nlink : Int]]
      /\ \A j \in Ino : j # i => core'[j] = core[j]
  BY <1>1, <1>2 DEF Data, Type
<1>6. disk'[i] = core'[i] /\ \A j \in Ino : j # i => disk'[j] = disk[j]
  BY <1>1, <1>2 DEF Data
<1>7. Data'  BY <1>1, <1>2, <1>4, <1>5 DEF Data
<1>8. Cached'
  <2>1. \A j \in Ino : ToDo(Update(j)) => ToDo(Update(j))'
    <3>1. \A j \in Ino : Update(j) # <<"clear", i>>  BY DEF Update
    <3> QED  BY <1>1, <1>2, <1>3, <3>1, ToDoLater
  <2>2. \A j \in Ino : ToDo(<<"drop", j>>) => ToDo(<<"drop", j>>)'
    <3>1. \A j \in Ino : <<"drop", j>> # <<"clear", i>>  OBVIOUS
    <3> QED  BY <1>1, <1>2, <1>3, <3>1, ToDoLater
  <2>3. ToDo(<<"drop", i>>)
    <3>1. at[p].todo \in Seq(Step)  BY <1>1 DEF Typed, Calling
    <3>2. 1 \in 1..Len(at[p].todo) /\ at[p].todo[1] = <<"clear", i>>
      BY <1>3, <3>1, TailIs
    <3>3. StepRight(at[p], cwd[p], file[p], 1)  BY <1>1, <3>2 DEF Rights, CallRight
    <3>4. \E m \in 1 + 1..Len(at[p].todo) : at[p].todo[m] = <<"drop", i>>
      BY <3>2, <3>3 DEF StepRight
    <3>5. Len(at[p].todo) \in Nat  BY <3>1
    <3>6. \A m \in 1 + 1..Len(at[p].todo) : m \in 1..Len(at[p].todo)  BY <3>5
    <3> QED  BY <3>4, <3>6 DEF ToDo
  <2>4. valid \subseteq Ino  BY <1>1 DEF Flags
  <2>5. ASSUME NEW j \in valid'
        PROVE  /\ core'[j] = disk'[j] \/ ToDo(Update(j))' \/ ToDo(<<"drop", j>>)'
               /\ core'[j].type = "free" \/ disk'[j].type = "free" => ToDo(<<"drop", j>>)'
    <3>1. CASE j = i  BY <2>2, <2>3, <3>1
    <3>2. CASE j # i  BY <1>1, <1>4, <1>5, <1>6, <2>1, <2>2, <2>4, <3>2 DEF Cached
    <3> QED  BY <3>1, <3>2
  <2> QED  BY <2>5 DEF Cached
<1> QED  BY <1>2, <1>3, <1>7, <1>8, QuietStep

LEMMA DropStep ==
  ASSUME TypeOK, Running, NEW p \in Proc, Drop(p)
  PROVE  TypeOK' /\ Running'
<1>1. Typed /\ Data /\ Flags /\ Rights /\ Refs /\ Locks /\ Cached  BY Parts
<1>2. PICK i \in Ino :
        /\ Doing(p, "drop", i)
        /\ busy' = busy \ {i}
        /\ valid' = valid \ {i}
        /\ core' = [core EXCEPT ![i] = Dinode("free", 0)]
        /\ ref' = [ref EXCEPT ![i] = @ - 1]
        /\ Did(p)
        /\ UNCHANGED <<diskVars, procVars, calls, strays>>
  BY DEF Drop
<1>3. at[p].todo # <<>> /\ Head(at[p].todo) = <<"drop", i>>  BY <1>2 DEF Doing
<1>4. Free(p)  BY <1>3 DEF Free, Lock
<1>5. disk' = disk /\ ent' = ent /\ cwd' = cwd /\ file' = file
  BY <1>2 DEF diskVars, procVars
<1>6. /\ core' \in [Ino -> [type : Type, nlink : Int]]
      /\ \A j \in Ino : j # i => core'[j] = core[j]
  BY <1>1, <1>2 DEF Data, Dinode, Type
<1>7. Data'  BY <1>1, <1>5, <1>6 DEF Data
<1>8. Cached'
  <2>1. \A j \in Ino : ToDo(Update(j)) => ToDo(Update(j))'
    <3>1. \A j \in Ino : Update(j) # <<"drop", i>>  BY DEF Update
    <3> QED  BY <1>1, <1>2, <1>3, <3>1, ToDoLater
  <2>2. \A j \in Ino : j # i /\ ToDo(<<"drop", j>>) => ToDo(<<"drop", j>>)'
    <3>1. \A j \in Ino : j # i => <<"drop", j>> # <<"drop", i>>  OBVIOUS
    <3> QED  BY <1>1, <1>2, <1>3, <3>1, ToDoLater
  <2>3. \A j \in valid' : j \in valid /\ j \in Ino /\ j # i /\ core'[j] = core[j]
    BY <1>1, <1>2, <1>6 DEF Flags
  <2> QED  BY <1>1, <1>5, <2>1, <2>2, <2>3 DEF Cached
<1>9. \A j \in Ino : ref'[j] = ref[j] - One(Gives(Head(at[p].todo), j))
  <2>1. \A j \in Ino : Gives(<<"drop", i>>, j) <=> i = j  BY FreeOps
  <2>2. \A j \in Ino : One(Gives(<<"drop", i>>, j)) = IF i = j THEN 1 ELSE 0  BY <2>1 DEF One
  <2>3. \A j \in Ino : ref[j] \in Nat  BY <1>1 DEF Flags
  <2>4. ref'[i] = ref[i] - 1 /\ \A j \in Ino : i # j => ref'[j] = ref[j]
    BY <1>1, <1>2 DEF Flags
  <2> QED  BY <1>3, <2>2, <2>3, <2>4
<1>10. \A j \in Ino : j \in busy' <=> \/ Takes(Head(at[p].todo), j)
                                      \/ j \in busy /\ ~Releases(Head(at[p].todo), j)
  <2>1. \A j \in Ino : (Releases(<<"drop", i>>, j) <=> i = j) /\ ~Takes(<<"drop", i>>, j)
    BY FreeOps
  <2> QED  BY <1>2, <1>3, <2>1
<1>11. ref' \in [Ino -> Int] /\ valid' \subseteq Ino /\ busy' \subseteq valid'
  BY <1>1, <1>2 DEF Flags
<1> QED  BY <1>2, <1>3, <1>4, <1>5, <1>7, <1>8, <1>9, <1>10, <1>11, MicroMove

LEMMA IPutLastStep ==
  ASSUME TypeOK, Running, NEW p \in Proc, IPutLast(p)
  PROVE  TypeOK' /\ Running'
<1>1. Typed /\ Data /\ Flags /\ Rights /\ Refs /\ Locks /\ Cached  BY Parts
<1>2. PICK i \in Ino :
        /\ Doing(p, "iput", i)
        /\ Last(i)
        /\ i \notin busy
        /\ busy' = busy \cup {i}
        /\ at' = [at EXCEPT ![p].todo = FreeSteps(i) \o Tail(@)]
        /\ UNCHANGED <<diskVars, core, ref, valid, procVars, calls, strays>>
  BY DEF IPutLast
<1>3. at[p].todo # <<>> /\ Head(at[p].todo) = Put(i)  BY <1>2 DEF Doing, Put
<1>4. Free(p)  BY <1>3 DEF Free, Lock, Put
<1>5. disk' = disk /\ ent' = ent /\ core' = core /\ ref' = ref /\ valid' = valid
      /\ cwd' = cwd /\ file' = file
  BY <1>2 DEF diskVars, procVars
<1>6. PICK a : a = at[p]  OBVIOUS
<1>7. PICK c : c = cwd[p]  OBVIOUS
<1>8. PICK f : f = file[p]  OBVIOUS
<1>9. PICK s : s = FreeSteps(i) \o Tail(a.todo)  OBVIOUS
<1>10. PICK b : b = [a EXCEPT !.todo = s]  OBVIOUS
<1>11. /\ a \in Calling /\ c \in Ino /\ f \in Ino \cup {None} /\ CallRight(a, c, f)
       /\ a.todo \in Seq(Step) /\ a.todo # <<>> /\ Head(a.todo) = Put(i)
  BY <1>1, <1>3, <1>6, <1>7, <1>8 DEF Typed, Rights, Calling
<1>12. Frees(s, a.todo, i)  BY <1>9 DEF Frees
<1>13. s \in Seq(Step)  BY <1>11, <1>12, FreeIs
<1>14. b \in Calling /\ SameBut(a, b) /\ b.todo = s
  BY <1>10, <1>11, <1>13 DEF Calling, SameBut
<1>15. Frees(b.todo, a.todo, i)  BY <1>12, <1>14
<1>16. \A j \in Ino : ~Twice(a, j)  BY <1>1, <1>3, <1>4, <1>6, NotTwice
<1>17. ~Holds(a, i)  BY <1>1, <1>2, <1>6 DEF Locks
<1>18. CallRight(b, c, f)  BY <1>11, <1>14, <1>15, <1>16, <1>17, FreeRight
<1>19. \A j \in Ino : /\ Holds(b, j) <=> i = j \/ Holds(a, j)
                      /\ Owns(b, c, f, j) = Owns(a, c, f, j)
  BY <1>11, <1>14, <1>15, <1>16, FreeHas
<1>20. Moves(p, b, c, f)
  <2>1. at' = [at EXCEPT ![p] = b]  BY <1>2, <1>6, <1>9, <1>10
  <2>2. cwd' = [cwd EXCEPT ![p] = c]  BY <1>1, <1>5, <1>7 DEF Typed
  <2>3. file' = [file EXCEPT ![p] = f]  BY <1>1, <1>5, <1>8 DEF Typed
  <2> QED  BY <2>1, <2>2, <2>3 DEF Moves
<1>21. Typed' /\ Rights'  BY <1>1, <1>11, <1>14, <1>18, <1>20, Moved, RightsMove
<1>22. Refs' /\ ref' \in [Ino -> Nat]
  <2>1. \A j \in Ino : ref[j] \in Nat /\ Owns(a, c, f, j) \in Nat
    BY <1>1, <1>6, <1>7, <1>8, OwnsRefs
  <2>2. \A j \in Ino : ref'[j] = ref[j] + Owns(b, c, f, j) - Owns(at[p], cwd[p], file[p], j)
    BY <1>5, <1>6, <1>7, <1>8, <1>19, <2>1
  <2>3. ref' \in [Ino -> Int]  BY <1>1, <1>5 DEF Flags
  <2> QED  BY <1>1, <1>11, <1>14, <1>20, <2>2, <2>3, RefsMove
<1>23. Locks'
  <2>1. \A j \in Ino : j \in busy <=> \E q \in Proc : Holds(at[q], j)  BY <1>1 DEF Locks
  <2>2. \A j \in Ino : Holds(a, j) => j \in busy  BY <1>6, <2>1
  <2>3. \A j \in Ino : j \in busy' <=> Holds(b, j) \/ (j \in busy /\ ~Holds(at[p], j))
    BY <1>2, <1>6, <1>19, <2>2
  <2>4. \A j \in Ino : Holds(b, j) => Holds(at[p], j) \/ j \notin busy
    BY <1>2, <1>6, <1>19
  <2> QED  BY <1>1, <1>11, <1>14, <1>20, <2>3, <2>4, LocksMove
<1>24. Flags'  BY <1>1, <1>2, <1>5, <1>22 DEF Flags, Last
<1>25. Data'  BY <1>1, <1>5 DEF Data
<1>26. ASSUME NEW step, step # Put(i), ToDo(step)  PROVE ToDo(step)'
  <2>1. PICK q \in Proc : \E m \in 1..Len(at[q].todo) : at[q].todo[m] = step
    BY <1>26 DEF ToDo
  <2>2. PICK k \in 1..Len(at[q].todo) : at[q].todo[k] = step  BY <2>1
  <2>3. CASE q = p
    <3>1. /\ Len(s) = Len(a.todo) + 2 /\ Len(a.todo) \in Nat
          /\ \A m \in 2..Len(a.todo) : s[m + 2] = a.todo[m]
      BY <1>11, <1>12, FreeIs
    <3>2. k # 1  BY <1>6, <1>11, <1>26, <2>2, <2>3, TailIs
    <3>3. k \in 2..Len(a.todo)  BY <1>6, <2>3, <3>1, <3>2
    <3>4. s[k + 2] = step /\ k + 2 \in 1..Len(s)  BY <1>6, <2>2, <2>3, <3>1, <3>3
    <3>5. at'[p].todo = s  BY <1>1, <1>14, <1>20 DEF Typed, Moves
    <3> QED  BY <3>4, <3>5 DEF ToDo
  <2>4. CASE q # p
    <3>1. at'[q] = at[q]  BY <1>1, <1>20, <2>4 DEF Typed, Moves
    <3> QED  BY <2>1, <3>1 DEF ToDo
  <2> QED  BY <2>3, <2>4
<1>27. Cached'
  <2>1. \A j \in Ino : ToDo(Update(j)) => ToDo(Update(j))'
    <3>1. \A j \in Ino : Update(j) # Put(i)  BY DEF Update, Put
    <3> QED  BY <1>26, <3>1
  <2>2. \A j \in Ino : ToDo(<<"drop", j>>) => ToDo(<<"drop", j>>)'
    <3>1. \A j \in Ino : <<"drop", j>> # Put(i)  BY DEF Put
    <3> QED  BY <1>26, <3>1
  <2> QED  BY <1>1, <1>5, <2>1, <2>2 DEF Cached, Flags
<1> QED  BY <1>21, <1>22, <1>23, <1>24, <1>25, <1>27, Whole

\* panic() stops every process where it is.
LEMMA PanicStep ==
  ASSUME TypeOK, NEW p \in Proc, NEW why \in CallNames, Panic(p, why),
         UNCHANGED <<diskVars, core, flagVars, procVars, calls, strays>>
  PROVE  TypeOK' /\ Stopped'
<1>1. /\ disk' = disk /\ ent' = ent /\ core' = core /\ ref' = ref /\ busy' = busy
      /\ valid' = valid /\ cwd' = cwd /\ file' = file
  BY DEF diskVars, flagVars, procVars
<1>2. ASSUME NEW q \in Proc
      PROVE  at'[q] \in Calling /\ at'[q].pc = "panic" /\ at'[q].todo = <<>>
  <2>1. at'[q] = [Idle EXCEPT !.pc = "panic", !.name = at[q].name,
                              !.call = IF q = p THEN why ELSE "none"]
    BY DEF Panic
  <2>2. PICK call \in CallNames : call = IF q = p THEN why ELSE "none"  BY DEF CallNames
  <2>3. PICK name \in Entry \cup {"none"} : name = at[q].name  BY DEF TypeOK, Calling
  <2>4. at'[q] = [pc |-> "panic", call |-> call, names |-> <<>>, name |-> name,
                  ip |-> None, other |-> None, then |-> <<>>, todo |-> <<>>]
    BY <2>1, <2>2, <2>3 DEF Idle
  <2>5. "panic" \in Places  BY DEF Places
  <2> QED  BY <2>4, <2>5 DEF Calling
<1>3. at' \in [Proc -> Calling]
  <2>1. at' = [q \in Proc |-> at'[q]]  BY DEF Panic
  <2> QED  BY <1>2, <2>1
<1>4. TypeOK'  BY <1>1, <1>3 DEF TypeOK
<1>5. Stopped'  BY <1>2 DEF Stopped
<1> QED  BY <1>4, <1>5

LEMMA MicroStepStep ==
  ASSUME TypeOK, Running, NEW p \in Proc, MicroStep(p)
  PROVE  TypeOK' /\ (Running' \/ Stopped')
<1>1. CASE ILockNoType(p)
  <2>1. "no type" \in CallNames  BY DEF CallNames
  <2> QED  BY <1>1, <2>1, PanicStep DEF ILockNoType
<1> QED
  BY <1>1, ILockStep, IUnlockStep, IUpdateStep, IPutStep, IPutLastStep, ITruncStep, ClearStep,
     DropStep DEF MicroStep

-----------------------------------------------------------------------------
(* Steps between the micro-steps.                                          *)

LEMMA Ready ==
  ASSUME TypeOK, Running, NEW p \in Proc, at[p].todo = <<>>
  PROVE  Right(at[p], cwd[p], file[p])
<1>1. Typed /\ Rights  BY Parts
<1> QED  BY <1>1 DEF Typed, Rights, Right

\* Nothing is written but, perhaps, an entry of a directory.
Quietly ==
    /\ busy' = busy /\ valid' = valid /\ disk' = disk /\ core' = core
    /\ ent' \in [Ino -> [Entry -> Ino \cup {None}]]

LEMMA QuietPoint ==
  ASSUME TypeOK, Running, NEW p \in Proc, at[p].todo = <<>>, NEW b, NEW c, NEW f, NEW x,
         Becomes(at[p], cwd[p], file[p], b, c, f, x), Moves(p, b, c, f), Refers(x), Quietly
  PROVE  TypeOK' /\ Running'
<1>1. Typed /\ Data /\ Cached  BY Parts
<1>2. at' = [at EXCEPT ![p] = b]  BY DEF Moves
<1>3. busy' = busy /\ valid' = valid /\ disk' = disk /\ core' = core  BY DEF Quietly
<1>4. Data'  BY <1>1 DEF Data, Quietly
<1>5. Cached'  BY <1>1, <1>2, <1>3, CachedSame
<1> QED  BY <1>3, <1>4, <1>5, PointStep

LEMMA Unchanged ==
  ASSUME TypeOK, Running, NEW p \in Proc
  PROVE  /\ cwd = [cwd EXCEPT ![p] = cwd[p]] /\ file = [file EXCEPT ![p] = file[p]]
         /\ ent \in [Ino -> [Entry -> Ino \cup {None}]]
         /\ ref' = ref => Refers(None)
         /\ \A i \in Ino : Iget(i) => Refers(i)
<1>1. Typed /\ Data /\ Flags  BY Parts
<1>2. cwd = [cwd EXCEPT ![p] = cwd[p]] /\ file = [file EXCEPT ![p] = file[p]]  BY <1>1 DEF Typed
<1>3. ent \in [Ino -> [Entry -> Ino \cup {None}]]  BY <1>1 DEF Data
<1> QED  BY <1>1, <1>2, <1>3, IgetRefers, NoIgetRefers

\* A call that only goes on, or ends.
LEMMA CallStep ==
  ASSUME TypeOK, Running, NEW p \in Proc, at[p].todo = <<>>, NEW b,
         Becomes(at[p], cwd[p], file[p], b, cwd[p], file[p], None), at' = [at EXCEPT ![p] = b],
         UNCHANGED <<disk, core, flagVars, procVars>>,
         ent' \in [Ino -> [Entry -> Ino \cup {None}]]
  PROVE  TypeOK' /\ Running'
<1>1. /\ disk' = disk /\ core' = core /\ ref' = ref /\ busy' = busy
      /\ valid' = valid /\ cwd' = cwd /\ file' = file
  BY DEF diskVars, flagVars, procVars
<1>2. Refers(None)  BY <1>1, Unchanged
<1>3. cwd' = [cwd EXCEPT ![p] = cwd[p]] /\ file' = [file EXCEPT ![p] = file[p]]
  BY <1>1, Unchanged
<1>4. Moves(p, b, cwd[p], file[p])  BY <1>3 DEF Moves
<1>5. Quietly  BY <1>1 DEF Quietly
<1> QED  BY <1>2, <1>4, <1>5, QuietPoint

\* A call that looks up the inode x.
LEMMA LookStep ==
  ASSUME TypeOK, Running, NEW p \in Proc, at[p].todo = <<>>, NEW b, NEW x \in Ino, Iget(x),
         Becomes(at[p], cwd[p], file[p], b, cwd[p], file[p], x), at' = [at EXCEPT ![p] = b],
         UNCHANGED <<diskVars, core, busy, valid, procVars>>
  PROVE  TypeOK' /\ Running'
<1>1. /\ disk' = disk /\ ent' = ent /\ core' = core /\ busy' = busy
      /\ valid' = valid /\ cwd' = cwd /\ file' = file
  BY DEF diskVars, procVars
<1>2. Refers(x)  BY Unchanged
<1>3. /\ cwd' = [cwd EXCEPT ![p] = cwd[p]] /\ file' = [file EXCEPT ![p] = file[p]]
      /\ ent' \in [Ino -> [Entry -> Ino \cup {None}]]
  BY <1>1, Unchanged
<1>4. Moves(p, b, cwd[p], file[p])  BY <1>3 DEF Moves
<1>5. Quietly  BY <1>1, <1>3 DEF Quietly
<1> QED  BY <1>2, <1>4, <1>5, QuietPoint

\* A call that changes the link count of x.
LEMMA CountStep ==
  ASSUME TypeOK, Running, NEW p \in Proc, at[p].todo = <<>>, NEW b,
         Becomes(at[p], cwd[p], file[p], b, cwd[p], file[p], None), at' = [at EXCEPT ![p] = b],
         NEW x \in Ino, NEW n \in Int, Counts(x, n),
         NEW k \in 1..Len(b.todo), b.todo[k] = Update(x),
         UNCHANGED <<disk, flagVars, procVars>>, ent' \in [Ino -> [Entry -> Ino \cup {None}]]
  PROVE  TypeOK' /\ Running'
<1>1. /\ disk' = disk /\ ref' = ref /\ busy' = busy
      /\ valid' = valid /\ cwd' = cwd /\ file' = file
  BY DEF flagVars, procVars
<1>2. Typed /\ Data /\ Flags /\ Cached  BY Parts
<1>3. Refers(None)  BY <1>1, Unchanged
<1>4. cwd' = [cwd EXCEPT ![p] = cwd[p]] /\ file' = [file EXCEPT ![p] = file[p]]
  BY <1>1, Unchanged
<1>5. Moves(p, b, cwd[p], file[p])  BY <1>4 DEF Moves
<1>6. Data'
  <2>1. core' \in [Ino -> [type : Type, nlink : Int]]  BY <1>2, CountsIs
  <2> QED  BY <1>1, <1>2, <2>1 DEF Data
<1>7. Cached'  BY <1>1, <1>2, CachedCount
<1> QED  BY <1>1, <1>3, <1>5, <1>6, <1>7, PointStep

LEMMA CallCall ==
  ASSUME TypeOK, Running, NEW p \in Proc, NEW call \in AtIp \ {"walk", "newname"},
         NEW w \in Path, NEW w2 \in Path \cup {<<>>}, Call(p, call, w, w2),
         call = "link" => w2 \in Path
  PROVE  TypeOK' /\ Running'
<1>1. at[p].pc = "user" /\ at[p].todo = <<>>  BY DEF Call, At
<1>2. Right(at[p], cwd[p], file[p])  BY <1>1, Ready
<1>3. PICK s : s = Start(w, p)  OBVIOUS
<1>4. s \in Ino
  <2>1. cwd[p] \in Ino  BY DEF TypeOK
  <2>2. ROOTINO \in Ino  BY InodeAssumption DEF ROOTINO, Ino
  <2> QED  BY <1>3, <2>1, <2>2 DEF Start
<1>5. PICK names : names = w.names  OBVIOUS
<1>6. names \in Seq(Entry)  BY <1>5, InodeAssumption
<1>7. PICK b : b = NewThen(FromOf(at[p], call, names, s, <<>> \o <<Lock(s)>>), w2)  OBVIOUS
<1>8. /\ names = <<>> => call \notin ToParent
      /\ call \in {"open", "create"} => file[p] = None
      /\ Iget(s)
      /\ UNCHANGED <<diskVars, core, busy, valid, procVars>>
  BY <1>3, <1>5 DEF Call
<1>9. at' = [at EXCEPT ![p] = b]  BY <1>3, <1>5, <1>7 DEF Call, From, FromOf, NewThen
<1>10. Becomes(at[p], cwd[p], file[p], b, cwd[p], file[p], s)
  BY <1>1, <1>2, <1>4, <1>6, <1>7, <1>8, Began
<1> QED  BY <1>1, <1>4, <1>8, <1>9, <1>10, LookStep

\* Returns and Goes, as steps of the call of p.
LEMMA ReturnsIs ==
  ASSUME NEW p \in Proc, NEW todo, Returns(p, todo)
  PROVE  at' = [at EXCEPT ![p] = Done(todo)]
BY DEF Returns, Done

LEMMA GoesIsStep ==
  ASSUME NEW p \in Proc, NEW place, NEW todo, Goes(p, place, todo)
  PROVE  at' = [at EXCEPT ![p] = GoesTo(at[p], place, todo)]
BY DEF Goes, GoesTo

LEMMA CallNowhereStep ==
  ASSUME TypeOK, Running, NEW p \in Proc, NEW call, NEW w, CallNowhere(p, call, w)
  PROVE  TypeOK' /\ Running'
<1>1. at[p].pc = "user" /\ at[p].todo = <<>>  BY DEF CallNowhere, At
<1>2. Right(at[p], cwd[p], file[p])  BY <1>1, Ready
<1>3. PICK s : s = Start(w, p)  OBVIOUS
<1>4. s \in Ino
  <2>1. cwd[p] \in Ino  BY DEF TypeOK
  <2>2. ROOTINO \in Ino  BY InodeAssumption DEF ROOTINO, Ino
  <2> QED  BY <1>3, <2>1, <2>2 DEF Start
<1>5. Iget(s) /\ UNCHANGED <<diskVars, core, busy, valid, procVars>>  BY <1>3 DEF CallNowhere
<1>6. PICK b : b = Done(<<Put(s)>>)  OBVIOUS
<1>7. at' = [at EXCEPT ![p] = b]  BY <1>3, <1>6, ReturnsIs DEF CallNowhere
<1>8. Becomes(at[p], cwd[p], file[p], b, cwd[p], file[p], s)  BY <1>1, <1>2, <1>4, <1>6, Nowhere
<1> QED  BY <1>1, <1>4, <1>5, <1>7, <1>8, LookStep

LEMMA BeginStep ==
  ASSUME TypeOK, Running, NEW p \in Proc, Begin(p)
  PROVE  TypeOK' /\ Running'
<1>1. PICK call \in Calls, w \in Path :
         IF call = "link"
         THEN \E w2 \in NewPath : Call(p, call, w, w2)
         ELSE Call(p, call, w, <<>>) \/ CallNowhere(p, call, w)
  BY DEF Begin
<1>2. call \in AtIp \ {"walk", "newname"}  BY InodeAssumption DEF AtIp
<1>3. CASE call = "link"
  <2>1. PICK w2 \in Path : Call(p, call, w, w2)  BY <1>1, <1>3, InodeAssumption
  <2> QED  BY <1>2, <2>1, CallCall
<1>4. CASE call # "link" /\ Call(p, call, w, <<>>)  BY <1>2, <1>4, CallCall
<1>5. CASE CallNowhere(p, call, w)  BY <1>5, CallNowhereStep
<1> QED  BY <1>1, <1>3, <1>4, <1>5

\* A call that ends, or goes on, with another directory or file.
LEMMA FileStep ==
  ASSUME TypeOK, Running, NEW p \in Proc, at[p].todo = <<>>, NEW b, NEW c, NEW f,
         Becomes(at[p], cwd[p], file[p], b, c, f, None), Moves(p, b, c, f),
         UNCHANGED <<disk, core, flagVars>>, ent' \in [Ino -> [Entry -> Ino \cup {None}]]
  PROVE  TypeOK' /\ Running'
<1>1. disk' = disk /\ core' = core /\ ref' = ref /\ busy' = busy /\ valid' = valid
  BY DEF flagVars
<1>2. Refers(None)  BY <1>1, Unchanged
<1>3. Quietly  BY <1>1 DEF Quietly
<1> QED  BY <1>2, <1>3, QuietPoint

LEMMA WalkFailsStep ==
  ASSUME TypeOK, Running, NEW p \in Proc, WalkFails(p)
  PROVE  TypeOK' /\ Running'
<1>1. at[p].pc = "walk" /\ at[p].todo = <<>>  BY DEF WalkFails, At
<1>2. Right(at[p], cwd[p], file[p])  BY <1>1, Ready
<1>3. UNCHANGED <<disk, core, flagVars, procVars>>  BY DEF WalkFails, diskVars
<1>4. ent' \in [Ino -> [Entry -> Ino \cup {None}]]  BY Unchanged DEF WalkFails, diskVars
<1>5. CASE at[p].call = "newname"
  <2>1. Goes(p, "undo", UnlockPut(at[p].ip) \o <<Lock(at[p].other)>>)
    BY <1>5 DEF WalkFails, Fail
  <2>2. PICK b : b = GoesTo(at[p], "undo", UnlockPut(at[p].ip) \o <<Lock(at[p].other)>>)
    OBVIOUS
  <2>3. at' = [at EXCEPT ![p] = b]  BY <2>1, <2>2, GoesIsStep
  <2>4. Becomes(at[p], cwd[p], file[p], b, cwd[p], file[p], None)
    BY <1>1, <1>2, <1>5, <2>2, WalkUndone
  <2> QED  BY <1>1, <1>3, <1>4, <2>3, <2>4, CallStep
<1>6. CASE at[p].call # "newname"
  <2>1. Returns(p, UnlockPut(at[p].ip))  BY <1>6 DEF WalkFails, Fail
  <2>2. PICK b : b = Done(UnlockPut(at[p].ip))  OBVIOUS
  <2>3. at' = [at EXCEPT ![p] = b]  BY <2>1, <2>2, ReturnsIs
  <2>4. at[p].pc \in AtIp  BY <1>1 DEF AtIp
  <2>5. Becomes(at[p], cwd[p], file[p], b, cwd[p], file[p], None)
    BY <1>2, <1>6, <2>2, <2>4, BackIp
  <2> QED  BY <1>1, <1>3, <1>4, <2>3, <2>5, CallStep
<1> QED  BY <1>5, <1>6

\* The names of a walk.
LEMMA Names ==
  ASSUME NEW s \in Seq(Entry), s # <<>>
  PROVE  Head(s) \in Entry /\ Tail(s) \in Seq(Entry) /\ (Tail(s) = <<>> => Len(s) = 1)
<1>1. Len(s) \in Nat /\ Len(s) > 0  OBVIOUS
<1>2. Head(s) \in Entry /\ Tail(s) \in Seq(Entry) /\ Len(Tail(s)) = Len(s) - 1
  BY HeadTailProperties
<1>3. ASSUME Tail(s) = <<>>  PROVE Len(s) = 1
  <2>1. PICK t : t = Tail(s)  OBVIOUS
  <2>2. t = <<>> /\ Len(t) = Len(s) - 1  BY <1>2, <1>3, <2>1
  <2>3. Len(t) = 0  BY <2>2
  <2> QED  BY <1>1, <2>2, <2>3
<1> QED  BY <1>2, <1>3

LEMMA WalkDownStep ==
  ASSUME TypeOK, Running, NEW p \in Proc, WalkDown(p)
  PROVE  TypeOK' /\ Running'
<1>1. at[p].pc = "walk" /\ at[p].todo = <<>>  BY DEF WalkDown, At
<1>2. Right(at[p], cwd[p], file[p])  BY <1>1, Ready
<1>3. PointRight(at[p]) /\ at[p] \in Calling  BY <1>2, Here
<1>4. at[p].names \in Seq(Entry) /\ at[p].names # <<>> /\ at[p].ip \in Ino
  BY <1>1, <1>3 DEF PointRight, Calling, AtIp
<1>5. PICK name \in Entry : name = Head(at[p].names)  BY <1>4, Names
<1>6. PICK names \in Seq(Entry) : names = Tail(at[p].names)  BY <1>4, Names
<1>7. PICK e : e = ent[at[p].ip][name]  OBVIOUS
<1>8. /\ ~ToParentOf(p) /\ e # None /\ Iget(e)
      /\ UNCHANGED <<diskVars, core, busy, valid, procVars>>
  BY <1>5, <1>7 DEF WalkDown
<1>9. e \in Ino
  <2>1. ent[at[p].ip][name] \in Ino \cup {None}  BY <1>4 DEF TypeOK
  <2> QED  BY <1>7, <1>8, <2>1
<1>10. PICK b : b = NewName(FromOf(at[p], at[p].call, names, e, UnlockPut(at[p].ip) \o <<Lock(e)>>),
                            name)
  OBVIOUS
<1>11. at' = [at EXCEPT ![p] = b]
  BY <1>5, <1>6, <1>7, <1>10 DEF WalkDown, From, FromOf, NewName
<1>12. names = <<>> => at[p].call \notin ToParent
  <2>1. names = <<>> => Len(at[p].names) = 1  BY <1>4, <1>6, Names
  <2> QED  BY <1>8, <2>1 DEF ToParentOf
<1>13. Becomes(at[p], cwd[p], file[p], b, cwd[p], file[p], e)
  BY <1>1, <1>2, <1>9, <1>10, <1>12, WentDown
<1> QED  BY <1>1, <1>8, <1>9, <1>11, <1>13, LookStep

LEMMA WalkParentStep ==
  ASSUME TypeOK, Running, NEW p \in Proc, WalkParent(p)
  PROVE  TypeOK' /\ Running'
<1>1. at[p].pc = "walk" /\ at[p].todo = <<>>  BY DEF WalkParent, At
<1>2. Right(at[p], cwd[p], file[p])  BY <1>1, Ready
<1>3. PointRight(at[p]) /\ at[p] \in Calling  BY <1>2, Here
<1>4. at[p].names \in Seq(Entry) /\ at[p].names # <<>>
  BY <1>1, <1>3 DEF PointRight, Calling
<1>5. PICK name \in Entry : name = Head(at[p].names)  BY <1>4, Names
<1>6. UNCHANGED <<disk, core, flagVars, procVars>>  BY DEF WalkParent, diskVars
<1>7. ent' \in [Ino -> [Entry -> Ino \cup {None}]]  BY Unchanged DEF WalkParent, diskVars
<1>8. PICK b : b = NewName(FromOf(at[p], at[p].call, <<>>, at[p].ip,
                                  <<Unlock(at[p].ip)>> \o <<Lock(at[p].ip)>>), name)
  OBVIOUS
<1>9. at' = [at EXCEPT ![p] = b]  BY <1>5, <1>8 DEF WalkParent, From, FromOf, NewName
<1>10. at[p].call \in ToParent  BY DEF WalkParent, ToParentOf
<1>11. Becomes(at[p], cwd[p], file[p], b, cwd[p], file[p], None)
  BY <1>1, <1>2, <1>8, <1>10, WentUp
<1> QED  BY <1>1, <1>6, <1>7, <1>9, <1>11, CallStep

LEMMA OpenFailsStep ==
  ASSUME TypeOK, Running, NEW p \in Proc, OpenFails(p)
  PROVE  TypeOK' /\ Running'
<1>1. at[p].pc = "open" /\ at[p].todo = <<>>  BY DEF OpenFails, At
<1>2. Right(at[p], cwd[p], file[p])  BY <1>1, Ready
<1>3. UNCHANGED <<disk, core, flagVars, procVars>>  BY DEF OpenFails, diskVars
<1>4. ent' \in [Ino -> [Entry -> Ino \cup {None}]]  BY Unchanged DEF OpenFails, diskVars
<1>5. Returns(p, UnlockPut(at[p].ip))  BY DEF OpenFails
<1>6. PICK b : b = Done(UnlockPut(at[p].ip))  OBVIOUS
<1>7. at' = [at EXCEPT ![p] = b]  BY <1>5, <1>6, ReturnsIs
<1>8. at[p].pc \in AtIp /\ at[p].call # "newname"
  BY <1>1, <1>2, Here DEF AtIp, AtBoth, PointRight
<1>9. Becomes(at[p], cwd[p], file[p], b, cwd[p], file[p], None)
  BY <1>1, <1>2, <1>6, <1>8, BackIp
<1> QED  BY <1>1, <1>3, <1>4, <1>7, <1>9, CallStep

LEMMA LinkDirStep ==
  ASSUME TypeOK, Running, NEW p \in Proc, LinkDir(p)
  PROVE  TypeOK' /\ Running'
<1>1. at[p].pc = "link" /\ at[p].todo = <<>>  BY DEF LinkDir, At
<1>2. Right(at[p], cwd[p], file[p])  BY <1>1, Ready
<1>3. UNCHANGED <<disk, core, flagVars, procVars>>  BY DEF LinkDir, diskVars
<1>4. ent' \in [Ino -> [Entry -> Ino \cup {None}]]  BY Unchanged DEF LinkDir, diskVars
<1>5. Returns(p, UnlockPut(at[p].ip))  BY DEF LinkDir
<1>6. PICK b : b = Done(UnlockPut(at[p].ip))  OBVIOUS
<1>7. at' = [at EXCEPT ![p] = b]  BY <1>5, <1>6, ReturnsIs
<1>8. at[p].pc \in AtIp /\ at[p].call # "newname"
  BY <1>1, <1>2, Here DEF AtIp, AtBoth, PointRight
<1>9. Becomes(at[p], cwd[p], file[p], b, cwd[p], file[p], None)
  BY <1>1, <1>2, <1>6, <1>8, BackIp
<1> QED  BY <1>1, <1>3, <1>4, <1>7, <1>9, CallStep

LEMMA UnlinkFailsStep ==
  ASSUME TypeOK, Running, NEW p \in Proc, UnlinkFails(p)
  PROVE  TypeOK' /\ Running'
<1>1. at[p].pc = "unlink" /\ at[p].todo = <<>>  BY DEF UnlinkFails, At
<1>2. Right(at[p], cwd[p], file[p])  BY <1>1, Ready
<1>3. UNCHANGED <<disk, core, flagVars, procVars>>  BY DEF UnlinkFails, diskVars
<1>4. ent' \in [Ino -> [Entry -> Ino \cup {None}]]  BY Unchanged DEF UnlinkFails, diskVars
<1>5. Returns(p, UnlockPut(at[p].ip))  BY DEF UnlinkFails
<1>6. PICK b : b = Done(UnlockPut(at[p].ip))  OBVIOUS
<1>7. at' = [at EXCEPT ![p] = b]  BY <1>5, <1>6, ReturnsIs
<1>8. at[p].pc \in AtIp /\ at[p].call # "newname"
  BY <1>1, <1>2, Here DEF AtIp, AtBoth, PointRight
<1>9. Becomes(at[p], cwd[p], file[p], b, cwd[p], file[p], None)
  BY <1>1, <1>2, <1>6, <1>8, BackIp
<1> QED  BY <1>1, <1>3, <1>4, <1>7, <1>9, CallStep

LEMMA UnlinkFullStep ==
  ASSUME TypeOK, Running, NEW p \in Proc, UnlinkFull(p)
  PROVE  TypeOK' /\ Running'
<1>1. at[p].pc = "erase" /\ at[p].todo = <<>>  BY DEF UnlinkFull, At
<1>2. Right(at[p], cwd[p], file[p])  BY <1>1, Ready
<1>3. UNCHANGED <<disk, core, flagVars, procVars>>  BY DEF UnlinkFull, diskVars
<1>4. ent' \in [Ino -> [Entry -> Ino \cup {None}]]  BY Unchanged DEF UnlinkFull, diskVars
<1>5. Returns(p, UnlockPut(at[p].other) \o UnlockPut(at[p].ip))  BY DEF UnlinkFull
<1>6. PICK b : b = Done(UnlockPut(at[p].other) \o UnlockPut(at[p].ip))  OBVIOUS
<1>7. at' = [at EXCEPT ![p] = b]  BY <1>5, <1>6, ReturnsIs
<1>8. at[p].pc \in AtBoth
  BY <1>1, <1>2, Here DEF AtBoth, PointRight
<1>9. Becomes(at[p], cwd[p], file[p], b, cwd[p], file[p], None)
  BY <1>1, <1>2, <1>6, <1>8, Full
<1> QED  BY <1>1, <1>3, <1>4, <1>7, <1>9, CallStep

LEMMA OpenStep ==
  ASSUME TypeOK, Running, NEW p \in Proc, Open(p)
  PROVE  TypeOK' /\ Running'
<1>1. at[p].pc = "open" /\ at[p].todo = <<>>  BY DEF Open, At
<1>2. Right(at[p], cwd[p], file[p])  BY <1>1, Ready
<1>3. UNCHANGED <<disk, core, flagVars>> /\ cwd' = cwd  BY DEF Open, diskVars
<1>4. ent' \in [Ino -> [Entry -> Ino \cup {None}]]  BY Unchanged DEF Open, diskVars
<1>5. PICK b : b = Done(<<Unlock(at[p].ip)>>)  OBVIOUS
<1>6. at' = [at EXCEPT ![p] = b]  BY <1>5, ReturnsIs DEF Open
<1>7. file' = [file EXCEPT ![p] = at[p].ip]  BY DEF Open
<1>8. cwd' = [cwd EXCEPT ![p] = cwd[p]]  BY <1>3, Unchanged
<1>9. Moves(p, b, cwd[p], at[p].ip)  BY <1>6, <1>7, <1>8 DEF Moves
<1>10. Becomes(at[p], cwd[p], file[p], b, cwd[p], at[p].ip, None)  BY <1>1, <1>2, <1>5, Opened
<1> QED  BY <1>1, <1>3, <1>4, <1>9, <1>10, FileStep

LEMMA UseStep ==
  ASSUME TypeOK, Running, NEW p \in Proc, Use(p)
  PROVE  TypeOK' /\ Running'
<1>1. at[p].pc = "user" /\ at[p].todo = <<>>  BY DEF Use, At
<1>2. Right(at[p], cwd[p], file[p])  BY <1>1, Ready
<1>3. UNCHANGED <<disk, core, flagVars, procVars>>  BY DEF Use, diskVars
<1>4. ent' \in [Ino -> [Entry -> Ino \cup {None}]]  BY Unchanged DEF Use, diskVars
<1>5. PICK b : b = Done(<<Lock(file[p]), Unlock(file[p])>>)  OBVIOUS
<1>6. at' = [at EXCEPT ![p] = b] /\ file[p] # None  BY <1>5, ReturnsIs DEF Use
<1>7. Becomes(at[p], cwd[p], file[p], b, cwd[p], file[p], None)
  BY <1>1, <1>2, <1>5, <1>6, Used
<1> QED  BY <1>1, <1>3, <1>4, <1>6, <1>7, CallStep

LEMMA ChdirStep ==
  ASSUME TypeOK, Running, NEW p \in Proc, Chdir(p)
  PROVE  TypeOK' /\ Running'
<1>1. at[p].pc = "chdir" /\ at[p].todo = <<>>  BY DEF Chdir, At
<1>2. Right(at[p], cwd[p], file[p])  BY <1>1, Ready
<1>3. UNCHANGED <<disk, core, flagVars>> /\ file' = file  BY DEF Chdir, diskVars
<1>4. ent' \in [Ino -> [Entry -> Ino \cup {None}]]  BY Unchanged DEF Chdir, diskVars
<1>5. file' = [file EXCEPT ![p] = file[p]]  BY <1>3, Unchanged
<1>6. CASE core[at[p].ip].type = "dir"
  <2>1. PICK b : b = Done(<<Unlock(at[p].ip), Put(cwd[p])>>)  OBVIOUS
  <2>2. at' = [at EXCEPT ![p] = b]  BY <1>6, <2>1, ReturnsIs DEF Chdir
  <2>3. cwd' = [cwd EXCEPT ![p] = at[p].ip]  BY <1>6 DEF Chdir
  <2>4. Moves(p, b, at[p].ip, file[p])  BY <1>5, <2>2, <2>3 DEF Moves
  <2>5. Becomes(at[p], cwd[p], file[p], b, at[p].ip, file[p], None)
    BY <1>1, <1>2, <2>1, WentTo
  <2> QED  BY <1>1, <1>3, <1>4, <2>4, <2>5, FileStep
<1>7. CASE core[at[p].ip].type # "dir"
  <2>1. PICK b : b = Done(UnlockPut(at[p].ip))  OBVIOUS
  <2>2. at' = [at EXCEPT ![p] = b] /\ cwd' = cwd  BY <1>7, <2>1, ReturnsIs DEF Chdir
  <2>3. UNCHANGED procVars  BY <1>3, <2>2 DEF procVars
  <2>4. at[p].pc \in AtIp /\ at[p].call # "newname"
    BY <1>1, <1>2, Here DEF AtIp, PointRight
  <2>5. Becomes(at[p], cwd[p], file[p], b, cwd[p], file[p], None)
    BY <1>2, <2>1, <2>4, BackIp
  <2> QED  BY <1>1, <1>3, <1>4, <2>2, <2>3, <2>5, CallStep
<1> QED  BY <1>6, <1>7

LEMMA CloseStep ==
  ASSUME TypeOK, Running, NEW p \in Proc, Close(p)
  PROVE  TypeOK' /\ Running'
<1>1. at[p].pc = "user" /\ at[p].todo = <<>> /\ file[p] # None  BY DEF Close, At
<1>2. Right(at[p], cwd[p], file[p])  BY <1>1, Ready
<1>3. UNCHANGED <<disk, core, flagVars>> /\ cwd' = cwd  BY DEF Close, diskVars
<1>4. ent' \in [Ino -> [Entry -> Ino \cup {None}]]  BY Unchanged DEF Close, diskVars
<1>5. PICK b : b = Done(<<Put(file[p])>>)  OBVIOUS
<1>6. at' = [at EXCEPT ![p] = b]  BY <1>5, ReturnsIs DEF Close
<1>7. file' = [file EXCEPT ![p] = None]  BY DEF Close
<1>8. cwd' = [cwd EXCEPT ![p] = cwd[p]]  BY <1>3, Unchanged
<1>9. Moves(p, b, cwd[p], None)  BY <1>6, <1>7, <1>8 DEF Moves
<1>10. Becomes(at[p], cwd[p], file[p], b, cwd[p], None, None)  BY <1>1, <1>2, <1>5, Closed
<1> QED  BY <1>1, <1>3, <1>4, <1>9, <1>10, FileStep

\* The inode that the directory of a call names by the last name of its path.
LEMMA EntryIs ==
  ASSUME TypeOK, Running, NEW p \in Proc, at[p].todo = <<>>, at[p].pc \in ToParent
  PROVE  /\ at[p].ip \in Ino /\ at[p].name \in Entry
         /\ ent[at[p].ip][at[p].name] \in Ino \cup {None}
<1>1. Right(at[p], cwd[p], file[p])  BY Ready
<1>2. at[p].pc \in AtIp  BY DEF ToParent, AtIp
<1>3. at[p].ip \in Ino  BY <1>1, <1>2, Here
<1>4. at[p].name \in Entry  BY <1>1, Here DEF PointRight
<1> QED  BY <1>3, <1>4 DEF TypeOK

LEMMA CreatesIs ==
  ASSUME NEW p \in Proc, Creates(p)
  PROVE  at[p].pc \in {"create", "mkdir", "mknod"} /\ at[p].pc \in ToParent /\ at[p].todo = <<>>
BY DEF Creates, At, ToParent

LEMMA CreateExistsStep ==
  ASSUME TypeOK, Running, NEW p \in Proc, CreateExists(p)
  PROVE  TypeOK' /\ Running'
<1>1. at[p].pc \in {"create", "mkdir", "mknod"} /\ at[p].pc \in ToParent /\ at[p].todo = <<>>
  BY CreatesIs DEF CreateExists
<1>2. Right(at[p], cwd[p], file[p])  BY <1>1, Ready
<1>3. PICK e : e = ent[at[p].ip][at[p].name]  OBVIOUS
<1>4. e # None /\ Iget(e) /\ UNCHANGED <<diskVars, core, busy, valid, procVars>>
  BY <1>3 DEF CreateExists
<1>5. e \in Ino  BY <1>1, <1>3, <1>4, EntryIs
<1>6. PICK b : b = With(at[p], "exists", e, UnlockPut(at[p].ip) \o <<Lock(e)>>)  OBVIOUS
<1>7. at' = [at EXCEPT ![p] = b]  BY <1>3, <1>6 DEF CreateExists, With
<1>8. Becomes(at[p], cwd[p], file[p], b, cwd[p], file[p], e)
  BY <1>1, <1>2, <1>5, <1>6, Found
<1> QED  BY <1>1, <1>4, <1>5, <1>7, <1>8, LookStep

LEMMA ExistsStep ==
  ASSUME TypeOK, Running, NEW p \in Proc, Exists(p)
  PROVE  TypeOK' /\ Running'
<1>1. at[p].pc = "exists" /\ at[p].todo = <<>>  BY DEF Exists, At
<1>2. Right(at[p], cwd[p], file[p])  BY <1>1, Ready
<1>3. UNCHANGED <<disk, core, flagVars>> /\ cwd' = cwd  BY DEF Exists, diskVars
<1>4. ent' \in [Ino -> [Entry -> Ino \cup {None}]]  BY Unchanged DEF Exists, diskVars
<1>5. CASE /\ at[p].call = "create"
           /\ Returns(p, <<Unlock(at[p].other)>>)
           /\ file' = [file EXCEPT ![p] = at[p].other]
  <2>1. PICK b : b = Done(<<Unlock(at[p].other)>>)  OBVIOUS
  <2>2. at' = [at EXCEPT ![p] = b]  BY <1>5, <2>1, ReturnsIs
  <2>3. cwd' = [cwd EXCEPT ![p] = cwd[p]]  BY <1>3, Unchanged
  <2>4. Moves(p, b, cwd[p], at[p].other)  BY <1>5, <2>2, <2>3 DEF Moves
  <2>5. Becomes(at[p], cwd[p], file[p], b, cwd[p], at[p].other, None)
    BY <1>1, <1>2, <1>5, <2>1, OpenedMade
  <2> QED  BY <1>1, <1>3, <1>4, <2>4, <2>5, FileStep
<1>6. CASE Returns(p, UnlockPut(at[p].other)) /\ UNCHANGED file
  <2>1. PICK b : b = Done(UnlockPut(at[p].other))  OBVIOUS
  <2>2. at' = [at EXCEPT ![p] = b]  BY <1>6, <2>1, ReturnsIs
  <2>3. UNCHANGED procVars  BY <1>3, <1>6 DEF procVars
  <2>4. at[p].pc \in AtOther  BY <1>1 DEF AtOther
  <2>5. Becomes(at[p], cwd[p], file[p], b, cwd[p], file[p], None)
    BY <1>2, <2>1, <2>4, BackOther
  <2> QED  BY <1>1, <1>3, <1>4, <2>2, <2>3, <2>5, CallStep
<1> QED  BY <1>5, <1>6 DEF Exists

LEMMA CreateNewStep ==
  ASSUME TypeOK, Running, NEW p \in Proc, CreateNew(p)
  PROVE  TypeOK' /\ Running'
<1>1. at[p].pc \in {"create", "mkdir", "mknod"} /\ at[p].pc \in ToParent /\ at[p].todo = <<>>
  BY CreatesIs DEF CreateNew
<1>2. Right(at[p], cwd[p], file[p])  BY <1>1, Ready
<1>3. PICK i \in FreeInodes :
        /\ disk' = [disk EXCEPT ![i] =
                       Dinode(CASE at[p].call = "create" -> "file"
                                [] at[p].call = "mkdir" -> "dir"
                                [] at[p].call = "mknod" -> "dev", 0)]
        /\ Iget(i)
        /\ at' = [at EXCEPT ![p] = [@ EXCEPT !.pc = "fill", !.other = i, !.todo = <<Lock(i)>>]]
  BY DEF CreateNew
<1>4. i \in Ino /\ disk[i].type = "free"  BY <1>3 DEF FreeInodes
<1>5. ent' = ent /\ core' = core /\ busy' = busy /\ valid' = valid /\ cwd' = cwd /\ file' = file
  BY DEF CreateNew, procVars
<1>6. PICK b : b = With(at[p], "fill", i, <<Lock(i)>>)  OBVIOUS
<1>7. at' = [at EXCEPT ![p] = b]  BY <1>3, <1>6 DEF With
<1>8. Becomes(at[p], cwd[p], file[p], b, cwd[p], file[p], i)
  BY <1>1, <1>2, <1>4, <1>6, Allocated
<1>9. Typed /\ Data /\ Flags /\ Cached  BY Parts
<1>10. PICK t \in Type : t = CASE at[p].call = "create" -> "file"
                               [] at[p].call = "mkdir" -> "dir"
                               [] at[p].call = "mknod" -> "dev"
  <2>1. at[p].call \in {"create", "mkdir", "mknod"}
    <3>1. PointRight(at[p])  BY <1>2, Here
    <3>2. at[p].pc \in AtIp \ {"walk"}  BY <1>1 DEF AtIp
    <3> QED  BY <1>1, <3>1, <3>2 DEF PointRight
  <2> QED  BY <2>1 DEF Type
<1>11. disk' = [disk EXCEPT ![i] = Dinode(t, 0)]  BY <1>3, <1>10
<1>12. Data'
  <2>1. Dinode(t, 0) \in [type : Type, nlink : Int]  BY DEF Dinode
  <2>2. disk' \in [Ino -> [type : Type, nlink : Int]]  BY <1>9, <1>11, <2>1 DEF Data
  <2> QED  BY <1>5, <1>9, <2>2 DEF Data
<1>13. Cached'  BY <1>1, <1>4, <1>5, <1>7, <1>9, <1>11, CachedAlloc
<1>14. Refers(i)  BY <1>3, <1>4, Unchanged
<1>15. cwd' = [cwd EXCEPT ![p] = cwd[p]] /\ file' = [file EXCEPT ![p] = file[p]]
  BY <1>5, Unchanged
<1>16. Moves(p, b, cwd[p], file[p])  BY <1>7, <1>15 DEF Moves
<1> QED  BY <1>1, <1>5, <1>8, <1>12, <1>13, <1>14, <1>16, PointStep

\* The inodes of a call that makes or removes an entry.
LEMMA BothIs ==
  ASSUME TypeOK, Running, NEW p \in Proc, at[p].todo = <<>>,
         at[p].pc \in AtOther \cup AtBoth
  PROVE  /\ at[p].other \in Ino
         /\ at[p].pc \in AtBoth => at[p].ip \in Ino
         /\ \A i \in Ino : core[i].nlink \in Int
<1>1. Right(at[p], cwd[p], file[p])  BY Ready
<1>2. at[p].other \in Ino /\ (at[p].pc \in AtBoth => at[p].ip \in Ino)  BY <1>1, Here
<1>3. \A i \in Ino : core[i].nlink \in Int  BY DEF TypeOK
<1> QED  BY <1>2, <1>3

LEMMA FillStep ==
  ASSUME TypeOK, Running, NEW p \in Proc, Fill(p)
  PROVE  TypeOK' /\ Running'
<1>1. at[p].pc = "fill" /\ at[p].todo = <<>>  BY DEF Fill, At
<1>2. Right(at[p], cwd[p], file[p]) /\ at[p].pc \in AtBoth  BY <1>1, Ready DEF AtBoth
<1>3. UNCHANGED <<disk, flagVars, procVars>>  BY DEF Fill, diskVars
<1>4. ent' \in [Ino -> [Entry -> Ino \cup {None}]]  BY Unchanged DEF Fill, diskVars
<1>5. PICK i \in Ino : i = at[p].other  BY <1>1, <1>2, BothIs
<1>6. PICK pc \in {"count", "enter", "dot"} :
        pc = IF at[p].call = "mkdir" THEN "count" ELSE "enter"
  OBVIOUS
<1>7. PICK b : b = GoesTo(at[p], pc, <<Update(i)>>)  OBVIOUS
<1>8. at' = [at EXCEPT ![p] = b]  BY <1>5, <1>6, <1>7 DEF Fill, Goes, GoesTo
<1>9. Becomes(at[p], cwd[p], file[p], b, cwd[p], file[p], None)
  BY <1>2, <1>5, <1>7, Wrote
<1>10. b.todo = <<Update(i)>>  BY <1>7, <1>2 DEF GoesTo, Right, Calling
<1>11. 1 \in 1..Len(b.todo) /\ b.todo[1] = Update(i)  BY <1>10
<1>0. PICK n \in Int : n = 1  OBVIOUS
<1>12. Counts(i, n)  BY <1>0, <1>5 DEF Fill, Counts
<1> QED  BY <1>1, <1>3, <1>4, <1>8, <1>9, <1>11, <1>12, CountStep

LEMMA CountCount ==
  ASSUME TypeOK, Running, NEW p \in Proc, Count(p)
  PROVE  TypeOK' /\ Running'
<1>1. at[p].pc = "count" /\ at[p].todo = <<>>  BY DEF Count, At
<1>2. Right(at[p], cwd[p], file[p]) /\ at[p].pc \in AtBoth  BY <1>1, Ready DEF AtBoth
<1>3. UNCHANGED <<disk, flagVars, procVars>>  BY DEF Count, diskVars
<1>4. ent' \in [Ino -> [Entry -> Ino \cup {None}]]  BY Unchanged DEF Count, diskVars
<1>5. PICK i \in Ino : i = at[p].ip  BY <1>1, <1>2, BothIs
<1>6. PICK n \in Int : n = core[i].nlink + 1  BY <1>1, <1>2, BothIs
<1>7. PICK b : b = GoesTo(at[p], "dot", <<Update(i)>>)  OBVIOUS
<1>8. at' = [at EXCEPT ![p] = b]  BY <1>5, <1>7 DEF Count, Goes, GoesTo
<1>9. Becomes(at[p], cwd[p], file[p], b, cwd[p], file[p], None)
  BY <1>2, <1>5, <1>7, Wrote
<1>10. b.todo = <<Update(i)>>  BY <1>7, <1>2 DEF GoesTo, Right, Calling
<1>11. 1 \in 1..Len(b.todo) /\ b.todo[1] = Update(i)  BY <1>10
<1>12. Counts(i, n)  BY <1>5, <1>6 DEF Count, Counts, TypeOK
<1> QED  BY <1>1, <1>3, <1>4, <1>8, <1>9, <1>11, <1>12, CountStep

\* An entry is written.
LEMMA EntryTyped ==
  ASSUME TypeOK, NEW d \in Ino, NEW e \in Entry, NEW i \in Ino \cup {None},
         ent' = [ent EXCEPT ![d][e] = i]
  PROVE  ent' \in [Ino -> [Entry -> Ino \cup {None}]]
<1>1. ent \in [Ino -> [Entry -> Ino \cup {None}]]  BY DEF TypeOK
<1>2. [ent[d] EXCEPT ![e] = i] \in [Entry -> Ino \cup {None}]  BY <1>1
<1> QED  BY <1>1, <1>2

LEMMA DotStep ==
  ASSUME TypeOK, Running, NEW p \in Proc, Dot(p)
  PROVE  TypeOK' /\ Running'
<1>1. at[p].pc = "dot" /\ at[p].todo = <<>>  BY DEF Dot, At
<1>2. Right(at[p], cwd[p], file[p]) /\ at[p].pc \in AtBoth  BY <1>1, Ready DEF AtBoth
<1>3. UNCHANGED <<disk, core, flagVars, procVars>>  BY DEF Dot
<1>4. at[p].other \in Ino /\ "." \in Entry  BY <1>1, <1>2, BothIs DEF Entry
<1>5. ent' \in [Ino -> [Entry -> Ino \cup {None}]]  BY <1>4, EntryTyped DEF Dot
<1>6. PICK b : b = GoesTo(at[p], "dotdot", <<>>)  OBVIOUS
<1>7. at' = [at EXCEPT ![p] = b]  BY <1>6, GoesIsStep DEF Dot
<1>8. Becomes(at[p], cwd[p], file[p], b, cwd[p], file[p], None)  BY <1>2, <1>6, Dotted
<1> QED  BY <1>1, <1>3, <1>5, <1>7, <1>8, CallStep

LEMMA DotDotStep ==
  ASSUME TypeOK, Running, NEW p \in Proc, DotDot(p)
  PROVE  TypeOK' /\ Running'
<1>1. at[p].pc = "dotdot" /\ at[p].todo = <<>>  BY DEF DotDot, At
<1>2. Right(at[p], cwd[p], file[p]) /\ at[p].pc \in AtBoth  BY <1>1, Ready DEF AtBoth
<1>3. UNCHANGED <<disk, core, flagVars, procVars>>  BY DEF DotDot
<1>4. at[p].other \in Ino /\ at[p].ip \in Ino /\ ".." \in Entry
  BY <1>1, <1>2, BothIs DEF Entry
<1>5. ent' \in [Ino -> [Entry -> Ino \cup {None}]]  BY <1>4, EntryTyped DEF DotDot
<1>6. PICK b : b = GoesTo(at[p], "enter", <<>>)  OBVIOUS
<1>7. at' = [at EXCEPT ![p] = b]  BY <1>6, GoesIsStep DEF DotDot
<1>8. Becomes(at[p], cwd[p], file[p], b, cwd[p], file[p], None)  BY <1>2, <1>6, Dotted
<1> QED  BY <1>1, <1>3, <1>5, <1>7, <1>8, CallStep

\* The name of an entry that is made keeps the type of ent.
LEMMA DirlinkTyped ==
  ASSUME TypeOK, NEW d \in Ino, NEW e, NEW i \in Ino, Dirlink(d, e, i)
  PROVE  ent' \in [Ino -> [Entry -> Ino \cup {None}]]
<1>1. ent \in [Ino -> [Entry -> Ino \cup {None}]]  BY DEF TypeOK
<1>2. [ent[d] EXCEPT ![e] = i] \in [Entry -> Ino \cup {None}]  BY <1>1
<1>3. ent' = [ent EXCEPT ![d] = [ent[d] EXCEPT ![e] = i]]  BY DEF Dirlink
<1> QED  BY <1>1, <1>2, <1>3

LEMMA EnterStep ==
  ASSUME TypeOK, Running, NEW p \in Proc, Enter(p)
  PROVE  TypeOK' /\ Running'
<1>1. at[p].pc = "enter" /\ at[p].todo = <<>>  BY DEF Enter, At
<1>2. Right(at[p], cwd[p], file[p]) /\ at[p].pc \in AtBoth  BY <1>1, Ready DEF AtBoth
<1>3. UNCHANGED <<disk, core, flagVars>> /\ cwd' = cwd  BY DEF Enter
<1>4. at[p].other \in Ino /\ at[p].ip \in Ino  BY <1>1, <1>2, BothIs
<1>5. Dirlink(at[p].ip, at[p].name, at[p].other)  BY DEF Enter
<1>6. ent' \in [Ino -> [Entry -> Ino \cup {None}]]  BY <1>4, <1>5, DirlinkTyped
<1>7. CASE /\ at[p].call = "create"
           /\ Returns(p, UnlockPut(at[p].ip) \o <<Unlock(at[p].other)>>)
           /\ file' = [file EXCEPT ![p] = at[p].other]
  <2>1. PICK b : b = Done(UnlockPut(at[p].ip) \o <<Unlock(at[p].other)>>)  OBVIOUS
  <2>2. at' = [at EXCEPT ![p] = b]  BY <1>7, <2>1, ReturnsIs
  <2>3. cwd' = [cwd EXCEPT ![p] = cwd[p]]  BY <1>3, Unchanged
  <2>4. Moves(p, b, cwd[p], at[p].other)  BY <1>7, <2>2, <2>3 DEF Moves
  <2>5. Becomes(at[p], cwd[p], file[p], b, cwd[p], at[p].other, None)
    BY <1>1, <1>2, <1>7, <2>1, EnteredOpen
  <2> QED  BY <1>1, <1>3, <1>6, <2>4, <2>5, FileStep
<1>8. CASE Returns(p, UnlockPut(at[p].ip) \o UnlockPut(at[p].other)) /\ UNCHANGED file
  <2>1. PICK b : b = Done(UnlockPut(at[p].ip) \o UnlockPut(at[p].other))  OBVIOUS
  <2>2. at' = [at EXCEPT ![p] = b]  BY <1>8, <2>1, ReturnsIs
  <2>3. UNCHANGED procVars  BY <1>3, <1>8 DEF procVars
  <2>4. Becomes(at[p], cwd[p], file[p], b, cwd[p], file[p], None)
    BY <1>1, <1>2, <2>1, Entered
  <2> QED  BY <1>1, <1>3, <1>6, <2>2, <2>3, <2>4, CallStep
<1> QED  BY <1>7, <1>8 DEF Enter

LEMMA LinkStep ==
  ASSUME TypeOK, Running, NEW p \in Proc, Link(p)
  PROVE  TypeOK' /\ Running'
<1>1. at[p].pc = "link" /\ at[p].todo = <<>>  BY DEF Link, At
<1>2. Right(at[p], cwd[p], file[p]) /\ at[p].pc \in AtIp  BY <1>1, Ready DEF AtIp
<1>3. UNCHANGED <<disk, flagVars, procVars>>  BY DEF Link, diskVars
<1>4. ent' \in [Ino -> [Entry -> Ino \cup {None}]]  BY Unchanged DEF Link, diskVars
<1>5. PICK i \in Ino : i = at[p].ip  BY <1>2, Here
<1>6. PICK n \in Int : n = core[i].nlink + 1  BY DEF TypeOK
<1>7. PICK b : b = With(at[p], "renamed", i, <<Update(i), Unlock(i)>>)  OBVIOUS
<1>8. at' = [at EXCEPT ![p] = b]  BY <1>5, <1>7 DEF Link, With
<1>9. Becomes(at[p], cwd[p], file[p], b, cwd[p], file[p], None)
  BY <1>1, <1>2, <1>5, <1>7, LinkCounted
<1>10. b.todo = <<Update(i), Unlock(i)>>  BY <1>7, <1>2 DEF With, Right, Calling
<1>11. 1 \in 1..Len(b.todo) /\ b.todo[1] = Update(i)  BY <1>10
<1>12. Counts(i, n)  BY <1>5, <1>6 DEF Link, Counts, TypeOK
<1> QED  BY <1>1, <1>3, <1>4, <1>8, <1>9, <1>11, <1>12, CountStep

LEMMA LinkNewStep ==
  ASSUME TypeOK, Running, NEW p \in Proc, LinkNew(p)
  PROVE  TypeOK' /\ Running'
<1>1. at[p].pc = "renamed" /\ at[p].todo = <<>>  BY DEF LinkNew, At
<1>2. Right(at[p], cwd[p], file[p])  BY <1>1, Ready
<1>3. PICK w : w = at[p].then  OBVIOUS
<1>4. w \in Path /\ w.names # <<>>  BY <1>1, <1>2, <1>3, Here DEF PointRight, LinkNew
<1>5. PICK s : s = Start(w, p)  OBVIOUS
<1>6. s \in Ino
  <2>1. cwd[p] \in Ino  BY DEF TypeOK
  <2>2. ROOTINO \in Ino  BY InodeAssumption DEF ROOTINO, Ino
  <2> QED  BY <1>5, <2>1, <2>2 DEF Start
<1>7. PICK names \in Seq(Entry) : names = w.names  BY <1>4, InodeAssumption
<1>8. PICK b : b = NewThen(FromOf(at[p], "newname", names, s, <<>> \o <<Lock(s)>>), <<>>)  OBVIOUS
<1>9. Iget(s) /\ UNCHANGED <<diskVars, core, busy, valid, procVars>>  BY <1>3, <1>5 DEF LinkNew
<1>10. at' = [at EXCEPT ![p] = b]  BY <1>3, <1>5, <1>7, <1>8 DEF LinkNew, From, FromOf, NewThen
<1>11. Becomes(at[p], cwd[p], file[p], b, cwd[p], file[p], s)
  BY <1>1, <1>2, <1>4, <1>6, <1>7, <1>8, BeganNew
<1> QED  BY <1>1, <1>6, <1>9, <1>10, <1>11, LookStep

LEMMA LinkNowhereStep ==
  ASSUME TypeOK, Running, NEW p \in Proc, LinkNowhere(p)
  PROVE  TypeOK' /\ Running'
<1>1. at[p].pc = "renamed" /\ at[p].todo = <<>>  BY DEF LinkNowhere, At
<1>2. Right(at[p], cwd[p], file[p])  BY <1>1, Ready
<1>3. PICK s : s = Start(at[p].then, p)  OBVIOUS
<1>4. s \in Ino
  <2>1. cwd[p] \in Ino  BY DEF TypeOK
  <2>2. ROOTINO \in Ino  BY InodeAssumption DEF ROOTINO, Ino
  <2> QED  BY <1>3, <2>1, <2>2 DEF Start
<1>5. Iget(s) /\ UNCHANGED <<diskVars, core, busy, valid, procVars>>  BY <1>3 DEF LinkNowhere
<1>6. PICK b : b = GoesTo(at[p], "undo", <<Put(s), Lock(at[p].other)>>)  OBVIOUS
<1>7. at' = [at EXCEPT ![p] = b]  BY <1>3, <1>6, GoesIsStep DEF LinkNowhere
<1>8. Becomes(at[p], cwd[p], file[p], b, cwd[p], file[p], s)
  BY <1>1, <1>2, <1>4, <1>6, LinkUndone
<1> QED  BY <1>1, <1>4, <1>5, <1>7, <1>8, LookStep

LEMMA NewnameIs ==
  ASSUME TypeOK, Running, NEW p \in Proc, at[p].todo = <<>>, at[p].pc = "newname"
  PROVE  /\ at[p].ip \in Ino /\ at[p].other \in Ino
         /\ ent[at[p].ip][at[p].name] \in Ino \cup {None}
<1>1. Right(at[p], cwd[p], file[p])  BY Ready
<1>2. at[p].pc \in ToParent /\ at[p].pc \in AtIp \ {"walk"}  BY DEF ToParent, AtIp
<1>3. at[p].call = "newname"  BY <1>1, <1>2, Here DEF PointRight
<1>4. at[p].other \in Ino  BY <1>1, <1>3, Here
<1> QED  BY <1>2, <1>4, EntryIs

LEMMA LinkEnterStep ==
  ASSUME TypeOK, Running, NEW p \in Proc, LinkEnter(p)
  PROVE  TypeOK' /\ Running'
<1>1. at[p].pc = "newname" /\ at[p].todo = <<>>  BY DEF LinkEnter, At
<1>2. Right(at[p], cwd[p], file[p])  BY <1>1, Ready
<1>3. UNCHANGED <<disk, core, flagVars, procVars>>  BY DEF LinkEnter
<1>4. at[p].other \in Ino /\ at[p].ip \in Ino  BY <1>1, NewnameIs
<1>5. ent' \in [Ino -> [Entry -> Ino \cup {None}]]  BY <1>4, DirlinkTyped DEF LinkEnter
<1>6. PICK b : b = Done(UnlockPut(at[p].ip) \o <<Put(at[p].other)>>)  OBVIOUS
<1>7. at' = [at EXCEPT ![p] = b]  BY <1>6, ReturnsIs DEF LinkEnter
<1>8. Becomes(at[p], cwd[p], file[p], b, cwd[p], file[p], None)
  BY <1>1, <1>2, <1>6, Linked
<1> QED  BY <1>1, <1>3, <1>5, <1>7, <1>8, CallStep

LEMMA LinkTakenStep ==
  ASSUME TypeOK, Running, NEW p \in Proc, LinkTaken(p)
  PROVE  TypeOK' /\ Running'
<1>1. at[p].pc = "newname" /\ at[p].todo = <<>>  BY DEF LinkTaken, At
<1>2. Right(at[p], cwd[p], file[p])  BY <1>1, Ready
<1>3. PICK e : e = ent[at[p].ip][at[p].name]  OBVIOUS
<1>4. e # None /\ Iget(e) /\ UNCHANGED <<diskVars, core, busy, valid, procVars>>
  BY <1>3 DEF LinkTaken
<1>5. e \in Ino  BY <1>1, <1>3, <1>4, NewnameIs
<1>6. PICK b : b = GoesTo(at[p], "undo", <<Put(e)>> \o UnlockPut(at[p].ip) \o <<Lock(at[p].other)>>)
  OBVIOUS
<1>7. at' = [at EXCEPT ![p] = b]  BY <1>3, <1>6, GoesIsStep DEF LinkTaken
<1>8. Becomes(at[p], cwd[p], file[p], b, cwd[p], file[p], e)
  BY <1>1, <1>2, <1>5, <1>6, Taken
<1> QED  BY <1>1, <1>4, <1>5, <1>7, <1>8, LookStep

\* The count of other goes down, and the inode is given back.
LEMMA LessStep ==
  ASSUME TypeOK, Running, NEW p \in Proc, at[p].todo = <<>>, at[p].pc \in AtOther,
         core' = [core EXCEPT ![at[p].other].nlink = @ - 1],
         Returns(p, <<Update(at[p].other)>> \o UnlockPut(at[p].other)),
         UNCHANGED <<diskVars, flagVars, procVars>>
  PROVE  TypeOK' /\ Running'
<1>1. Right(at[p], cwd[p], file[p])  BY Ready
<1>2. UNCHANGED <<disk, flagVars, procVars>>  BY DEF diskVars
<1>3. ent' \in [Ino -> [Entry -> Ino \cup {None}]]  BY Unchanged DEF diskVars
<1>4. PICK i \in Ino : i = at[p].other  BY BothIs
<1>5. PICK n \in Int : n = core[i].nlink - 1  BY DEF TypeOK
<1>6. PICK b : b = Done(<<Update(at[p].other)>> \o UnlockPut(at[p].other))  OBVIOUS
<1>7. at' = [at EXCEPT ![p] = b]  BY <1>6, ReturnsIs
<1>8. Becomes(at[p], cwd[p], file[p], b, cwd[p], file[p], None)  BY <1>1, <1>6, BackUpdated
<1>9. b.todo = <<Update(i), Unlock(i), Put(i)>>
  <2>1. Update(i) \in Step /\ Unlock(i) \in Step /\ Put(i) \in Step  BY Ops
  <2>2. <<Update(i)>> \o <<Unlock(i), Put(i)>> = <<Update(i), Unlock(i), Put(i)>>
    BY <2>1, Join12
  <2>3. b.todo = <<Update(i)>> \o <<Unlock(i), Put(i)>>  BY <1>4, <1>6, DoneIs DEF UnlockPut
  <2> QED  BY <2>2, <2>3
<1>10. 1 \in 1..Len(b.todo) /\ b.todo[1] = Update(i)  BY <1>9
<1>11. Counts(i, n)  BY <1>4, <1>5 DEF Counts, TypeOK
<1> QED  BY <1>2, <1>3, <1>7, <1>8, <1>10, <1>11, CountStep

LEMMA LinkUndoStep ==
  ASSUME TypeOK, Running, NEW p \in Proc, LinkUndo(p)
  PROVE  TypeOK' /\ Running'
<1>1. at[p].pc \in AtOther /\ at[p].todo = <<>>  BY DEF LinkUndo, At, AtOther
<1> QED  BY <1>1, LessStep DEF LinkUndo

LEMMA UnnamedStep ==
  ASSUME TypeOK, Running, NEW p \in Proc, Unnamed(p)
  PROVE  TypeOK' /\ Running'
<1>1. at[p].pc \in AtOther /\ at[p].todo = <<>>  BY DEF Unnamed, At, AtOther
<1> QED  BY <1>1, LessStep DEF Unnamed

LEMMA UnlinkStep ==
  ASSUME TypeOK, Running, NEW p \in Proc, Unlink(p)
  PROVE  TypeOK' /\ Running'
<1>1. at[p].pc = "unlink" /\ at[p].todo = <<>>  BY DEF Unlink, At
<1>2. Right(at[p], cwd[p], file[p]) /\ at[p].pc \in ToParent  BY <1>1, Ready DEF ToParent
<1>3. PICK e : e = ent[at[p].ip][at[p].name]  OBVIOUS
<1>4. e # None /\ Iget(e) /\ UNCHANGED <<diskVars, core, busy, valid, procVars>>
  BY <1>3 DEF Unlink
<1>5. e \in Ino  BY <1>1, <1>2, <1>3, <1>4, EntryIs
<1>6. PICK b : b = With(at[p], "erase", e, <<Lock(e)>>)  OBVIOUS
<1>7. at' = [at EXCEPT ![p] = b]  BY <1>3, <1>6 DEF Unlink, With
<1>8. Becomes(at[p], cwd[p], file[p], b, cwd[p], file[p], e)
  BY <1>1, <1>2, <1>5, <1>6, LookedUp
<1> QED  BY <1>1, <1>4, <1>5, <1>7, <1>8, LookStep

LEMMA EraseStep ==
  ASSUME TypeOK, Running, NEW p \in Proc, Erase(p)
  PROVE  TypeOK' /\ Running'
<1>1. at[p].pc = "erase" /\ at[p].todo = <<>>  BY DEF Erase, At
<1>2. Right(at[p], cwd[p], file[p]) /\ at[p].pc \in AtBoth  BY <1>1, Ready DEF AtBoth
<1>3. UNCHANGED <<disk, flagVars, procVars>>  BY DEF Erase
<1>4. PICK i \in Ino : i = at[p].ip  BY <1>1, <1>2, BothIs
<1>5. ent' \in [Ino -> [Entry -> Ino \cup {None}]]
  <2>1. ent \in [Ino -> [Entry -> Ino \cup {None}]]  BY DEF TypeOK
  <2>2. PICK e : e = at[p].name  OBVIOUS
  <2>3. [ent[i] EXCEPT ![e] = None] \in [Entry -> Ino \cup {None}]  BY <2>1
  <2>4. ent' = [ent EXCEPT ![i] = [ent[i] EXCEPT ![e] = None]]  BY <1>4, <2>2 DEF Erase
  <2> QED  BY <2>1, <2>3, <2>4
<1>6. CASE core[at[p].other].type = "dir"
  <2>1. PICK n \in Int : n = core[i].nlink - 1  BY DEF TypeOK
  <2>2. PICK b : b = GoesTo(at[p], "unnamed", <<Update(at[p].ip)>> \o UnlockPut(at[p].ip))
    OBVIOUS
  <2>3. at' = [at EXCEPT ![p] = b]  BY <1>6, <2>2, GoesIsStep DEF Erase
  <2>4. Becomes(at[p], cwd[p], file[p], b, cwd[p], file[p], None)
    BY <1>1, <1>2, <2>2, ErasedDir
  <2>5. b.todo = <<Update(i), Unlock(i), Put(i)>>
    <3>1. Update(i) \in Step /\ Unlock(i) \in Step /\ Put(i) \in Step  BY Ops
    <3>2. <<Update(i)>> \o <<Unlock(i), Put(i)>> = <<Update(i), Unlock(i), Put(i)>>
      BY <3>1, Join12
    <3>3. b.todo = <<Update(i)>> \o <<Unlock(i), Put(i)>>
      BY <1>2, <1>4, <2>2 DEF GoesTo, UnlockPut, Right, Calling
    <3> QED  BY <3>2, <3>3
  <2>6. 1 \in 1..Len(b.todo) /\ b.todo[1] = Update(i)  BY <2>5
  <2>7. Counts(i, n)  BY <1>4, <1>6, <2>1 DEF Erase, Counts, TypeOK
  <2> QED  BY <1>1, <1>3, <1>5, <2>3, <2>4, <2>6, <2>7, CountStep
<1>7. CASE core[at[p].other].type # "dir"
  <2>1. PICK b : b = GoesTo(at[p], "unnamed", UnlockPut(at[p].ip))  OBVIOUS
  <2>2. at' = [at EXCEPT ![p] = b] /\ core' = core  BY <1>7, <2>1, GoesIsStep DEF Erase
  <2>3. Becomes(at[p], cwd[p], file[p], b, cwd[p], file[p], None)
    BY <1>1, <1>2, <2>1, Erased
  <2>4. UNCHANGED <<disk, core, flagVars, procVars>>  BY <1>3, <2>2
  <2> QED  BY <1>1, <1>5, <2>2, <2>3, <2>4, CallStep
<1> QED  BY <1>6, <1>7

-----------------------------------------------------------------------------
(* The initial states.                                                     *)

\* Processes in A and in B, those in both counted twice.
LEMMA CountTwo ==
  ASSUME NEW A, NEW B, A \subseteq Proc, B \subseteq Proc, NEW g \in [Proc -> Nat],
         \A p \in Proc : g[p] = One(p \in A) + One(p \in B)
  PROVE  Cardinality(Bag(g)) = Cardinality(A) + Cardinality(B)
<1>1. IsFiniteSet(A) /\ IsFiniteSet(B)  BY InodeAssumption, FS_Subset
<1>2. PICK U : U = A \cup B  OBVIOUS
<1>3. PICK V : V = A \cap B  OBVIOUS
<1>4. IsFiniteSet(U) /\ IsFiniteSet(V) /\ Cardinality(U) = Cardinality(A) + Cardinality(B) - Cardinality(V)
  BY <1>1, <1>2, <1>3, FS_Union, FS_Intersection
<1>5. /\ IsFiniteSet(U \X {1}) /\ Cardinality(U \X {1}) = Cardinality(U)
      /\ IsFiniteSet(V \X {2}) /\ Cardinality(V \X {2}) = Cardinality(V)
  <2>1. \A k : IsFiniteSet({k}) /\ Cardinality({k}) = 1  BY FS_Singleton
  <2>2. Cardinality(U) \in Nat /\ Cardinality(V) \in Nat  BY <1>4, FS_CardinalityType
  <2>3. /\ IsFiniteSet(U \X {1}) /\ Cardinality(U \X {1}) = Cardinality(U) * Cardinality({1})
        /\ IsFiniteSet(V \X {2}) /\ Cardinality(V \X {2}) = Cardinality(V) * Cardinality({2})
    BY <1>4, <2>1, FS_Product
  <2>4. Cardinality({1}) = 1 /\ Cardinality({2}) = 1  BY <2>1
  <2>5. PICK u \in Nat : u = Cardinality(U)  BY <2>2
  <2>6. PICK v \in Nat : v = Cardinality(V)  BY <2>2
  <2>7. u * 1 = u /\ v * 1 = v  OBVIOUS
  <2>8. Cardinality(U \X {1}) = Cardinality(U) /\ Cardinality(V \X {2}) = Cardinality(V)
    BY <2>3, <2>4, <2>5, <2>6, <2>7
  <2> QED  BY <2>3, <2>8
<1>6. (U \X {1}) \cap (V \X {2}) = {}  OBVIOUS
<1>7. Cardinality((U \X {1}) \cup (V \X {2})) = Cardinality(U) + Cardinality(V)
  <2>1. Cardinality((U \X {1}) \cup (V \X {2})) =
            Cardinality(U \X {1}) + Cardinality(V \X {2}) - Cardinality({})
    BY <1>5, <1>6, FS_Union
  <2>2. Cardinality({}) = 0  BY FS_EmptySet
  <2>3. Cardinality(U) \in Nat /\ Cardinality(V) \in Nat  BY <1>4, FS_CardinalityType
  <2> QED  BY <1>5, <2>1, <2>2, <2>3
<1>8. Bag(g) = (U \X {1}) \cup (V \X {2})
  <2>1. \A p \in Proc : /\ p \in V => g[p] = 2
                        /\ p \in U /\ p \notin V => g[p] = 1
                        /\ p \notin U => g[p] = 0
    BY <1>2, <1>3 DEF One
  <2>2. ASSUME NEW x  PROVE x \in Bag(g) <=> x \in (U \X {1}) \cup (V \X {2})
    <3>1. x \in Bag(g) <=> \E q \in Proc : x \in {q} \X (1..g[q])  BY InBag
    <3>2. U \subseteq Proc /\ V \subseteq U  BY <1>2, <1>3
    <3>3. ASSUME NEW q \in Proc, x \in {q} \X (1..g[q])
          PROVE  x \in (U \X {1}) \cup (V \X {2})
      <4>1. g[q] \in Nat  OBVIOUS
      <4>2. PICK k \in 1..g[q] : x = <<q, k>>  BY <3>3
      <4>3. CASE q \in V
        <5>1. k \in {1, 2}  BY <2>1, <4>1, <4>2, <4>3
        <5> QED  BY <3>2, <4>2, <4>3, <5>1
      <4>4. CASE q \in U /\ q \notin V
        <5>1. k = 1  BY <2>1, <4>1, <4>2, <4>4
        <5> QED  BY <4>2, <4>4, <5>1
      <4>5. q \in U
        <5>1. g[q] # 0  BY <4>2
        <5> QED  BY <2>1, <5>1
      <4> QED  BY <4>3, <4>4, <4>5
    <3>4. ASSUME x \in (U \X {1}) \cup (V \X {2})
          PROVE  \E q \in Proc : x \in {q} \X (1..g[q])
      <4>1. CASE x \in U \X {1}
        <5>1. PICK q \in U : x = <<q, 1>>  BY <4>1
        <5>2. q \in Proc /\ 1 \in 1..g[q]  BY <2>1, <3>2, <5>1
        <5> QED  BY <5>1, <5>2
      <4>2. CASE x \in V \X {2}
        <5>1. PICK q \in V : x = <<q, 2>>  BY <4>2
        <5>2. q \in Proc /\ 2 \in 1..g[q]  BY <2>1, <3>2, <5>1
        <5> QED  BY <5>1, <5>2
      <4> QED  BY <3>4, <4>1, <4>2
    <3> QED  BY <3>1, <3>3, <3>4
  <2> QED  BY <2>2
<1>9. Cardinality(A) \in Nat /\ Cardinality(B) \in Nat /\ Cardinality(V) \in Nat
  BY <1>1, <1>4, FS_CardinalityType
<1> QED  BY <1>4, <1>7, <1>8, <1>9

\* A process that makes no call has the references of its directory and file,
\* and no lock.
LEMMA IdleIs ==
  ASSUME NEW c \in Ino, NEW f \in Ino \cup {None}
  PROVE  /\ Idle \in Calling /\ CallRight(Idle, c, f) /\ Idle.todo = <<>>
         /\ \A i \in Ino : ~Holds(Idle, i)
         /\ \A i \in Ino : Owns(Idle, c, f, i) = One(c = i) + One(f = i)
<1>1. PICK b : b = Done(<<>>)  OBVIOUS
<1>2. b = Idle  BY <1>1 DEF Done, Idle
<1>3. <<>> \in Seq(Step) /\ \A i : Cardinality(GivesOf(<<>>, i)) = 0  BY GivesNone
<1>4. /\ b.pc = "user" /\ b.call = "none" /\ b.todo = <<>> /\ b \in Calling /\ PointRight(b)
      /\ \A j : ~LockedAt(b, j) /\ ~Twice(b, j)
      /\ \A j : Keeps(b, c, f, j) = Same(c, j) + Same(f, j)
  <2>1. PICK todo \in Seq(Step) : todo = <<>>  BY <1>3
  <2>2. b = Done(todo)  BY <1>1, <2>1
  <2>3. b.pc = "user" /\ b.call = "none" /\ b.todo = todo /\ b \in Calling /\ PointRight(b)
    BY <2>2, DoneIs
  <2>4. \A j : ~LockedAt(b, j) /\ ~Twice(b, j)  BY <2>2, DoneIs
  <2>5. \A j : Keeps(b, c, f, j) = Same(c, j) + Same(f, j)  BY <2>2, DoneIs
  <2> QED  BY <2>1, <2>3, <2>4, <2>5
<1>5. CallRight(b, c, f)
  <2>1. StepsRight(b, c, f)  BY <1>4, Form0
  <2> QED  BY <1>4, <2>1 DEF CallRight, StepsRight
<1>6. \A i \in Ino : ~Holds(b, i)
  <2>1. \A i \in Ino : HeldFrom(b, 1, i) <=> LockedAt(b, i)  BY <1>4, Plan0
  <2> QED  BY <1>4, <2>1 DEF Holds
<1>7. \A i \in Ino : Owns(b, c, f, i) = One(c = i) + One(f = i)
  <2>1. \A i \in Ino : Owns(b, c, f, i) = Same(c, i) + Same(f, i) + 0
    BY <1>3, <1>4 DEF Owns
  <2>2. \A i \in Ino : Same(c, i) \in Nat /\ Same(f, i) \in Nat  BY SameIs
  <2>3. \A i \in Ino : Owns(b, c, f, i) = Same(c, i) + Same(f, i)  BY <2>1, <2>2
  <2> QED  BY <2>3 DEF Same
<1> QED  BY <1>2, <1>4, <1>5, <1>6, <1>7

\* What is counted when no process makes a call.
LEMMA QuietRefs ==
  ASSUME Typed, Quiet, NEW i \in Ino
  PROVE  Cardinality(References(i)) = Cardinality({p \in Proc : cwd[p] = i})
                                      + Cardinality({p \in Proc : file[p] = i})
<1>1. PICK g : g = Owned(i)  OBVIOUS
<1>2. /\ g \in [Proc -> Nat] /\ References(i) = Bag(g)
      /\ \A p \in Proc : g[p] = Owns(at[p], cwd[p], file[p], i)
  BY <1>1, OwnedIs
<1>3. PICK A : A = {p \in Proc : cwd[p] = i}  OBVIOUS
<1>4. PICK B : B = {p \in Proc : file[p] = i}  OBVIOUS
<1>5. A \subseteq Proc /\ B \subseteq Proc  BY <1>3, <1>4
<1>6. ASSUME NEW p \in Proc  PROVE g[p] = One(p \in A) + One(p \in B)
  <2>1. cwd[p] \in Ino /\ file[p] \in Ino \cup {None} /\ at[p] = Idle  BY DEF Typed, Quiet
  <2>2. g[p] = One(cwd[p] = i) + One(file[p] = i)
    <3>1. PICK c \in Ino : c = cwd[p]  BY <2>1
    <3>2. PICK f \in Ino \cup {None} : f = file[p]  BY <2>1
    <3>3. Owns(Idle, c, f, i) = One(c = i) + One(f = i)  BY IdleIs
    <3>4. g[p] = Owns(Idle, c, f, i)  BY <1>2, <2>1, <3>1, <3>2
    <3> QED  BY <3>1, <3>2, <3>3, <3>4
  <2>3. (p \in A <=> cwd[p] = i) /\ (p \in B <=> file[p] = i)  BY <1>3, <1>4
  <2> QED  BY <2>2, <2>3 DEF One
<1>7. Cardinality(Bag(g)) = Cardinality(A) + Cardinality(B)  BY <1>2, <1>5, <1>6, CountTwo
<1> QED  BY <1>2, <1>3, <1>4, <1>7

LEMMA InitIs ==
  ASSUME Init
  PROVE  /\ \E depth \in 0..Len(Made), in \in SUBSET Proc, gone \in 0..2, leaf \in {"dir", "file"} :
                /\ gone <= depth /\ (gone > 0 => in # {})
                /\ depth = 0 => in = {}
                /\ leaf = "file" => depth > 0 /\ in = {}
                /\ disk = [i \in Ino |->
                       CASE i > depth + 1 \/ (gone = 2 /\ i = depth) -> Dinode("free", 0)
                         [] i = depth + 1 /\ gone > 0 -> Dinode("dir", 0)
                         [] i = depth + 1 /\ leaf = "file" -> Dinode("file", 1)
                         [] OTHER -> Dinode("dir", IF i <= depth - gone
                                                      /\ ~(i + 1 = depth + 1 /\ leaf = "file")
                                                   THEN 2 ELSE 1)]
                /\ ent = [i \in Ino |->
                       IF (i > depth + 1 \/ (gone = 2 /\ i = depth))
                          \/ (i = depth + 1 /\ leaf = "file") THEN Blank
                       ELSE [e \in Entry |->
                                CASE e = "." -> i
                                  [] e = ".." -> IF i = 1 THEN 1 ELSE i - 1
                                  [] OTHER -> IF i <= depth - gone /\ e = Made[i]
                                              THEN i + 1 ELSE None]]
                /\ cwd = [p \in Proc |-> IF p \in in THEN depth + 1 ELSE ROOTINO]
         /\ ref = [i \in Ino |-> Cardinality({p \in Proc : cwd[p] = i})]
         /\ busy = {} /\ valid = {i \in Ino : ref[i] > 0}
         /\ core = [i \in Ino |-> IF i \in valid THEN disk[i] ELSE Dinode("free", 0)]
         /\ file = [p \in Proc |-> None]
         /\ at = [p \in Proc |-> Idle]
BY ZenonT(60) DEF Init

LEMMA InitData ==
  ASSUME Init
  PROVE  /\ disk \in [Ino -> [type : Type, nlink : Int]]
         /\ ent \in [Ino -> [Entry -> Ino \cup {None}]]
         /\ cwd \in [Proc -> Ino]
         /\ \A p \in Proc : disk[cwd[p]].type = "dir"
<1>1. PICK depth \in 0..Len(Made), in \in SUBSET Proc, gone \in 0..2, leaf \in {"dir", "file"} :
                /\ gone <= depth /\ (gone > 0 => in # {})
                /\ depth = 0 => in = {}
                /\ leaf = "file" => depth > 0 /\ in = {}
                /\ disk = [i \in Ino |->
                       CASE i > depth + 1 \/ (gone = 2 /\ i = depth) -> Dinode("free", 0)
                         [] i = depth + 1 /\ gone > 0 -> Dinode("dir", 0)
                         [] i = depth + 1 /\ leaf = "file" -> Dinode("file", 1)
                         [] OTHER -> Dinode("dir", IF i <= depth - gone
                                                      /\ ~(i + 1 = depth + 1 /\ leaf = "file")
                                                   THEN 2 ELSE 1)]
                /\ ent = [i \in Ino |->
                       IF (i > depth + 1 \/ (gone = 2 /\ i = depth))
                          \/ (i = depth + 1 /\ leaf = "file") THEN Blank
                       ELSE [e \in Entry |->
                                CASE e = "." -> i
                                  [] e = ".." -> IF i = 1 THEN 1 ELSE i - 1
                                  [] OTHER -> IF i <= depth - gone /\ e = Made[i]
                                              THEN i + 1 ELSE None]]
                /\ cwd = [p \in Proc |-> IF p \in in THEN depth + 1 ELSE ROOTINO]
  BY InitIs
<1>2. NInodes \in Nat \ {0, 1, 2} /\ Len(Made) \in Nat /\ Len(Made) < NInodes
  BY InodeAssumption
<1>3. depth \in Nat /\ gone \in Nat /\ depth + 1 <= NInodes  BY <1>2
<1>4. \A t, n : Dinode(t, n) = [type |-> t, nlink |-> n]
  BY DEF Dinode
<1>5. ASSUME NEW i \in Ino
      PROVE  /\ disk[i] \in [type : Type, nlink : Int]
             /\ /\ i <= depth + 1 /\ ~(gone = 2 /\ i = depth)
                /\ ~(i = depth + 1 /\ leaf = "file")
                => disk[i].type = "dir"
  <2>1. i \in Nat  BY DEF Ino
  <2>2. CASE i > depth + 1 \/ (gone = 2 /\ i = depth)
    <3>1. disk[i] = Dinode("free", 0)  BY <1>1, <2>2
    <3> QED  BY <1>3, <1>4, <2>1, <2>2, <3>1 DEF Type
  <2>3. CASE ~(i > depth + 1 \/ (gone = 2 /\ i = depth)) /\ i = depth + 1 /\ gone > 0
    <3>1. disk[i] = Dinode("dir", 0)  BY <1>1, <2>3
    <3> QED  BY <1>4, <3>1 DEF Type
  <2>4. CASE /\ ~(i > depth + 1 \/ (gone = 2 /\ i = depth)) /\ ~(i = depth + 1 /\ gone > 0)
             /\ i = depth + 1 /\ leaf = "file"
    <3>1. disk[i] = Dinode("file", 1)  BY <1>1, <2>4
    <3> QED  BY <1>4, <2>4, <3>1 DEF Type
  <2>5. CASE /\ ~(i > depth + 1 \/ (gone = 2 /\ i = depth)) /\ ~(i = depth + 1 /\ gone > 0)
             /\ ~(i = depth + 1 /\ leaf = "file")
    <3>1. PICK n \in Int : n = IF i <= depth - gone /\ ~(i + 1 = depth + 1 /\ leaf = "file")
                               THEN 2 ELSE 1
      OBVIOUS
    <3>2. disk[i] = Dinode("dir", n)  BY <1>1, <2>5, <3>1
    <3> QED  BY <1>4, <3>2 DEF Type
  <2> QED  BY <2>2, <2>3, <2>4, <2>5
<1>6. ASSUME NEW i \in Ino  PROVE ent[i] \in [Entry -> Ino \cup {None}]
  <2>1. CASE (i > depth + 1 \/ (gone = 2 /\ i = depth)) \/ (i = depth + 1 /\ leaf = "file")
    <3>1. ent[i] = Blank  BY <1>1, <2>1
    <3> QED  BY <3>1 DEF Blank
  <2>2. CASE ~((i > depth + 1 \/ (gone = 2 /\ i = depth)) \/ (i = depth + 1 /\ leaf = "file"))
    <3>1. ent[i] = [e \in Entry |->
                        CASE e = "." -> i
                          [] e = ".." -> IF i = 1 THEN 1 ELSE i - 1
                          [] OTHER -> IF i <= depth - gone /\ e = Made[i] THEN i + 1 ELSE None]
      BY <1>1, <2>2
    <3>2. (IF i = 1 THEN 1 ELSE i - 1) \in Ino  BY <1>2 DEF Ino
    <3>3. i <= depth - gone => i + 1 \in Ino  BY <1>2, <1>3 DEF Ino
    <3> QED  BY <3>1, <3>2, <3>3
  <2> QED  BY <2>1, <2>2
<1>7. disk = [i \in Ino |-> disk[i]]  BY <1>1
<1>8. ent = [i \in Ino |-> ent[i]]  BY <1>1
<1>9. ASSUME NEW p \in Proc  PROVE cwd[p] \in Ino /\ disk[cwd[p]].type = "dir"
  <2>1. CASE p \in in
    <3>1. cwd[p] = depth + 1  BY <1>1, <2>1
    <3>2. depth + 1 \in Ino  BY <1>2, <1>3 DEF Ino
    <3>3. depth + 1 <= depth + 1 /\ depth + 1 # depth /\ leaf # "file"  BY <1>1, <1>3, <2>1
    <3>4. disk[depth + 1].type = "dir"  BY <1>5, <3>2, <3>3
    <3> QED  BY <3>1, <3>2, <3>4
  <2>2. CASE p \notin in
    <3>1. cwd[p] = 1  BY <1>1, <2>2 DEF ROOTINO
    <3>2. 1 \in Ino  BY <1>2 DEF Ino
    <3>3. 1 <= depth + 1 /\ ~(gone = 2 /\ 1 = depth) /\ ~(1 = depth + 1 /\ leaf = "file")
      BY <1>1, <1>3
    <3>4. disk[1].type = "dir"  BY <1>5, <3>2, <3>3
    <3> QED  BY <3>1, <3>2, <3>4
  <2> QED  BY <2>1, <2>2
<1>10. cwd \in [Proc -> Ino]
  <2>1. cwd = [p \in Proc |-> cwd[p]]  BY <1>1
  <2> QED  BY <1>9, <2>1
<1> QED  BY <1>5, <1>6, <1>7, <1>8, <1>9, <1>10

LEMMA Starts ==
  ASSUME Init
  PROVE  TypeOK /\ Running
<1>1. /\ ref = [i \in Ino |-> Cardinality({p \in Proc : cwd[p] = i})]
      /\ busy = {} /\ valid = {i \in Ino : ref[i] > 0}
      /\ core = [i \in Ino |-> IF i \in valid THEN disk[i] ELSE Dinode("free", 0)]
      /\ file = [p \in Proc |-> None]
      /\ at = [p \in Proc |-> Idle]
  BY InitIs
<1>2. /\ disk \in [Ino -> [type : Type, nlink : Int]]
      /\ ent \in [Ino -> [Entry -> Ino \cup {None}]]
      /\ cwd \in [Proc -> Ino] /\ \A p \in Proc : disk[cwd[p]].type = "dir"
  BY InitData
<1>3. Idle \in Calling
  <2>1. 1 \in Ino  BY InodeAssumption DEF Ino
  <2> QED  BY <2>1, IdleIs
<1>4. Typed  BY <1>1, <1>2, <1>3 DEF Typed
<1>5. \A i \in Ino : IsFiniteSet({p \in Proc : cwd[p] = i})  BY InodeAssumption, FS_Subset
<1>6. ref \in [Ino -> Nat]  BY <1>1, <1>5, FS_CardinalityType
<1>7. core \in [Ino -> [type : Type, nlink : Int]]
  <2>1. Dinode("free", 0) \in [type : Type, nlink : Int]  BY DEF Dinode, Type
  <2> QED  BY <1>1, <1>2, <2>1
<1>8. TypeOK  BY <1>1, <1>2, <1>4, <1>6, <1>7 DEF TypeOK, Typed
<1>9. \A p \in Proc : at[p] = Idle /\ cwd[p] \in Ino /\ file[p] = None  BY <1>1, <1>2
<1>10. \A p \in Proc : CallRight(at[p], cwd[p], file[p])  BY <1>9, IdleIs
<1>11. Refs
  <2>1. Quiet  BY <1>9 DEF Quiet
  <2>2. ASSUME NEW i \in Ino  PROVE ref[i] = Cardinality(References(i))
    <3>1. {p \in Proc : file[p] = i} = {}  BY <1>9 DEF Ino
    <3>2. Cardinality({p \in Proc : file[p] = i}) = 0  BY <3>1, FS_EmptySet
    <3>3. Cardinality(References(i)) = Cardinality({p \in Proc : cwd[p] = i})
                                       + Cardinality({p \in Proc : file[p] = i})
      BY <1>4, <2>1, QuietRefs
    <3>4. ref[i] = Cardinality({p \in Proc : cwd[p] = i})  BY <1>1
    <3>5. ref[i] \in Nat  BY <1>6
    <3> QED  BY <3>2, <3>3, <3>4, <3>5
  <2> QED  BY <2>2 DEF Refs
<1>12. Locks
  <2>1. \A p \in Proc, i \in Ino : ~Holds(at[p], i)
    <3>1. \A i \in Ino : ~Holds(Idle, i)
      <4>1. 1 \in Ino  BY InodeAssumption DEF Ino
      <4> QED  BY <4>1, IdleIs
    <3> QED  BY <1>9, <3>1
  <2> QED  BY <1>1, <2>1 DEF Locks
<1>13. Cached
  <2>1. ASSUME NEW i \in valid  PROVE core[i] = disk[i] /\ disk[i].type = "dir"
    <3>1. i \in Ino /\ ref[i] > 0 /\ core[i] = disk[i]  BY <1>1
    <3>2. PICK S : S = {p \in Proc : cwd[p] = i}  OBVIOUS
    <3>3. ref[i] = Cardinality(S)  BY <1>1, <3>1, <3>2
    <3>4. S # {}
      <4>1. Cardinality({}) = 0  BY FS_EmptySet
      <4> QED  BY <3>1, <3>3, <4>1
    <3>5. PICK p \in Proc : cwd[p] = i  BY <3>2, <3>4
    <3> QED  BY <1>2, <3>1, <3>5
  <2> QED  BY <2>1 DEF Cached
<1>14. Running  BY <1>10, <1>11, <1>12, <1>13 DEF Running
<1> QED  BY <1>8, <1>14

-----------------------------------------------------------------------------
(* The theorems.                                                           *)

LEMMA CreateStep ==
  ASSUME TypeOK, Running, NEW p \in Proc, Create(p)
  PROVE  TypeOK' /\ (Running' \/ Stopped')
<1>1. CASE CreatePanic(p)
  <2>1. "no inodes" \in CallNames  BY DEF CallNames
  <2> QED  BY <1>1, <2>1, PanicStep DEF CreatePanic
<1> QED
  BY <1>1, CreateExistsStep, ExistsStep, CreateNewStep, FillStep, CountCount, DotStep,
     DotDotStep, EnterStep DEF Create

LEMMA RunningStep ==
  ASSUME TypeOK, Running, Next
  PROVE  TypeOK' /\ (Running' \/ Stopped')
<1>1. PICK p \in Proc :
        \/ Begin(p) \/ MicroStep(p) \/ Walk(p) \/ Open(p) \/ OpenFails(p)
        \/ Use(p) \/ Chdir(p) \/ Close(p)
        \/ Create(p) \/ SysLink(p) \/ SysUnlink(p)
  BY DEF Next
<1>2. CASE Begin(p)  BY <1>2, BeginStep
<1>3. CASE MicroStep(p)  BY <1>3, MicroStepStep
<1>4. CASE Walk(p)  BY <1>4, WalkFailsStep, WalkDownStep, WalkParentStep DEF Walk
<1>5. CASE Open(p) \/ OpenFails(p)  BY <1>5, OpenStep, OpenFailsStep
<1>6. CASE Use(p) \/ Chdir(p) \/ Close(p)  BY <1>6, UseStep, ChdirStep, CloseStep
<1>7. CASE Create(p)  BY <1>7, CreateStep
<1>8. CASE SysLink(p)
  BY <1>8, LinkDirStep, LinkStep, LinkNewStep, LinkNowhereStep, LinkEnterStep, LinkTakenStep, LinkUndoStep
  DEF SysLink
<1>9. CASE SysUnlink(p)
  BY <1>9, UnlinkFailsStep, UnlinkStep, UnlinkFullStep, EraseStep, UnnamedStep DEF SysUnlink
<1> QED  BY <1>1, <1>2, <1>3, <1>4, <1>5, <1>6, <1>7, <1>8, <1>9

\* Nothing goes on once the kernel has stopped.
LEMMA StoppedStays ==
  ASSUME Stopped
  PROVE  ~Next
<1> SUFFICES ASSUME NEW p \in Proc,
                    \/ Begin(p) \/ MicroStep(p) \/ Walk(p) \/ Open(p) \/ OpenFails(p)
                    \/ Use(p) \/ Chdir(p) \/ Close(p)
                    \/ Create(p) \/ SysLink(p) \/ SysUnlink(p)
             PROVE  FALSE
  BY DEF Next
<1>1. at[p].pc = "panic" /\ at[p].todo = <<>>  BY DEF Stopped
<1>2. \A op, i : ~Doing(p, op, i)  BY <1>1 DEF Doing
<1>3. \A place : At(p, place) => place = "panic"  BY <1>1 DEF At
<1>4. ~MicroStep(p)
  BY <1>2 DEF MicroStep, ILock, ILockNoType, NoType, IUnlock, IUpdate, IPut, IPutLast, ITrunc,
              Clear, Drop
<1>5. ~Begin(p)
  <2>1. \A call, w, w2 : ~Call(p, call, w, w2) /\ ~CallNowhere(p, call, w)
    BY <1>3 DEF Call, CallNowhere
  <2> QED  BY <2>1 DEF Begin
<1>6. ~Walk(p)  BY <1>3 DEF Walk, WalkFails, WalkDown, WalkParent
<1>7. ~Open(p) /\ ~OpenFails(p) /\ ~Use(p) /\ ~Chdir(p) /\ ~Close(p)
  BY <1>3 DEF Open, OpenFails, Use, Chdir, Close
<1>8. ~Create(p)
  BY <1>3 DEF Create, Creates, CreateExists, Exists, CreateNew, CreatePanic, Fill, Count, Dot,
              DotDot, Enter
<1>9. ~SysLink(p)
  BY <1>3 DEF SysLink, LinkDir, Link, LinkNew, LinkNowhere, LinkEnter, LinkTaken, LinkUndo
<1>10. ~SysUnlink(p)
  BY <1>3 DEF SysUnlink, UnlinkFails, Unlink, UnlinkFull, Erase, Unnamed
<1> QED  BY <1>4, <1>5, <1>6, <1>7, <1>8, <1>9, <1>10

\* The inductive invariant: until the kernel stops, every reference and every
\* lock of an inode belongs to one call, directory or file, which will give it
\* back, and what is cached is on the disk or about to be written.
THEOREM Invariance == Spec => []IInv
<1>1. Init => IInv  BY Starts DEF IInv
<1>2. IInv /\ [Next]_vars => IInv'
  <2> SUFFICES ASSUME IInv, [Next]_vars  PROVE IInv'  OBVIOUS
  <2>1. CASE Next
    <3>1. TypeOK /\ Running  BY <2>1, StoppedStays DEF IInv
    <3> QED  BY <2>1, <3>1, RunningStep DEF IInv
  <2>2. CASE UNCHANGED vars
    <3>1. /\ disk' = disk /\ ent' = ent /\ core' = core /\ ref' = ref /\ busy' = busy
          /\ valid' = valid /\ cwd' = cwd /\ file' = file /\ at' = at
      BY <2>2 DEF vars, diskVars, flagVars, procVars
    <3>2. TypeOK'  BY <3>1 DEF IInv, TypeOK
    <3>3. CASE Running
      <4>1. \A p \in Proc : CallRight(at'[p], cwd'[p], file'[p])  BY <3>1, <3>3 DEF Running
      <4>2. Refs'  BY <3>1, <3>3 DEF Running, Refs, References
      <4>3. Locks'  BY <3>1, <3>3 DEF Running, Locks
      <4>4. Cached'  BY <3>1, <3>3 DEF Running, Cached, ToDo
      <4> QED  BY <3>2, <4>1, <4>2, <4>3, <4>4 DEF IInv, Running
    <3>4. CASE Stopped  BY <3>1, <3>2, <3>4 DEF IInv, Stopped
    <3> QED  BY <3>3, <3>4 DEF IInv
  <2> QED  BY <2>1, <2>2
<1> QED  BY <1>1, <1>2, PTL DEF Spec

\* The dinodes, the entries, the inode cache and the calls keep their types;
\* no inode is locked that nobody refers to, and none that is not cached.
THEOREM TypeCorrect == Spec => []TypeOK
<1>1. IInv => TypeOK  BY DEF IInv
<1> QED  BY <1>1, Invariance, PTL

LEMMA Balanced ==
  ASSUME IInv
  PROVE  CacheBalanced
<1>1. CASE Stopped
  <2>1. ~Quiet
    <3>1. Idle.pc = "user"  BY DEF Idle
    <3> QED  BY <1>1, <3>1 DEF Quiet, Stopped
  <2>2. \A p \in Proc : ~IPutBusy(p)  BY <1>1 DEF Stopped, IPutBusy, Doing
  <2> QED  BY <2>1, <2>2 DEF CacheBalanced
<1>2. CASE Running
  <2>1. TypeOK  BY DEF IInv
  <2>2. Typed /\ Flags /\ Refs /\ Locks /\ Cached  BY <1>2, <2>1, Parts
  <2>3. \A p \in Proc : ~IPutBusy(p)
    <3> SUFFICES ASSUME NEW p \in Proc, IPutBusy(p)  PROVE FALSE  OBVIOUS
    <3>1. PICK i \in Ino : Doing(p, "iput", i) /\ Last(i) /\ i \in busy  BY DEF IPutBusy
    <3>2. ref[i] = 1  BY <3>1 DEF Last
    <3> QED  BY <1>2, <2>1, <3>1, <3>2, PutUnlocked
  <2>4. ASSUME Quiet
        PROVE  /\ busy = {}
               /\ \A i \in Ino : ref[i] = Cardinality({p \in Proc : cwd[p] = i})
                                          + Cardinality({p \in Proc : file[p] = i})
               /\ \A i \in valid : core[i] = disk[i]
    <3>1. \A p \in Proc : at[p] = Idle /\ at[p].todo = <<>>  BY <2>4 DEF Quiet, Idle
    <3>2. busy = {}
      <4>1. \A i \in Ino : ~Holds(Idle, i)
        <5>1. 1 \in Ino  BY InodeAssumption DEF Ino
        <5> QED  BY <5>1, IdleIs
      <4>2. \A i \in Ino : i \notin busy  BY <2>2, <3>1, <4>1 DEF Locks
      <4> QED  BY <2>2, <4>2 DEF Flags
    <3>3. \A i \in Ino : ref[i] = Cardinality({p \in Proc : cwd[p] = i})
                                  + Cardinality({p \in Proc : file[p] = i})
      BY <2>2, <2>4, QuietRefs DEF Refs
    <3>4. \A step : ~ToDo(step)
      <4>1. \A p \in Proc : 1..Len(at[p].todo) = {}  BY <3>1
      <4> QED  BY <4>1 DEF ToDo
    <3>5. \A i \in valid : core[i] = disk[i]  BY <2>2, <3>4 DEF Cached
    <3> QED  BY <3>2, <3>3, <3>5
  <2> QED  BY <2>3, <2>4 DEF CacheBalanced
<1> QED  BY <1>1, <1>2 DEF IInv

\* Between the calls the references of an inode are those of the directories
\* and files of the processes, no lock is left, and the cache agrees with the
\* disk; iput() never finds the last reference to an inode that is locked.
THEOREM CacheIsBalanced == Spec => []CacheBalanced
<1>1. IInv => CacheBalanced  BY Balanced
<1> QED  BY <1>1, Invariance, PTL
=============================================================================
