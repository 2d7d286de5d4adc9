---------------------------- MODULE MCFcheckers -----------------------------
EXTENDS FcheckersInv

Dir(dot, dotdot, a, b) == "." :> dot @@ ".." :> dotdot @@ "a" :> a @@ "b" :> b
NoDir == Dir(0, 0, 0, 0)

\* Trees of three inodes, with their blocks in order: every way to name them,
\* missing and wrong dots, bad types and link counts.
TreeTypes == {<<1, t, u>> : t \in 0..2, u \in 0..2} \cup {<<1, 3, 2>>, <<1, 2, 4>>, <<2, 2, 1>>}

TreeDirs(i, t) ==
    CASE t # 1 -> {NoDir}
      [] t = 1 /\ i = 1 -> {Dir(1, dd, a, b) : dd \in {1, 2}, a \in 0..3, b \in 0..3}
      [] t = 1 /\ i = 2 -> {Dir(d, dd, a, 0) : d \in 0..2, dd \in {0, 1, 3}, a \in 0..3}
      [] t = 1 /\ i = 3 -> {Dir(3, dd, a, 0) : dd \in {1, 2}, a \in 0..3}

Links(t) == IF t = 2 THEN {0, 1, 2} ELSE {1}

TreeKinds == UNION {{<<"tree", t, e1>> : e1 \in TreeDirs(1, t[1])} : t \in TreeTypes}

Trees(t, e1) ==
    {[type |-> t, nlink |-> <<1, n2, n3>>,
      addrs |-> [i \in Ino |-> IF t[i] = 0 THEN <<0, 0>> ELSE <<i + 1, 0>>],
      ind |-> [i \in Ino |-> <<0, 0>>],
      ent |-> <<e1, e2, e3>>,
      marked |-> {i + 1 : i \in {i \in Ino : t[i] # 0}}] :
         e2 \in TreeDirs(2, t[2]), e3 \in TreeDirs(3, t[3]),
         n2 \in Links(t[2]), n3 \in Links(t[3])}

\* Two files in the root: addresses out of range, used twice or unmarked, in
\* the inode and in an indirect block, and a bitmap with one wrong bit.
Files(a2, x, ind, a3, marked) ==
    [type |-> <<1, 2, 2>>, nlink |-> <<1, 1, 1>>,
     addrs |-> <<<<2, 0>>, <<a2, x>>, <<a3, 0>>>>,
     ind |-> <<<<0, 0>>, ind, <<0, 0>>>>,
     ent |-> <<Dir(1, 1, 2, 3), NoDir, NoDir>>,
     marked |-> marked]

FileKinds ==
    {<<"files", a2, x, a3>> : a2 \in {0, 1, 3, SIZE}, x \in {0, 3, 4, SIZE}, a3 \in {0, 3, 4, 5}}

Addressings(a2, x, a3) ==
    UNION {LET used == {2, a2, x, a3} \cup (IF x = 0 THEN {} ELSE {y, z})
               marked == used \cap Data
           IN  {Files(a2, x, <<y, z>>, a3, m) :
                    m \in {marked} \cup {marked \cup {b} : b \in 2..5 \cup {SIZE}}
                          \cup {marked \ {b} : b \in 3..5}} :
               y \in {0, 1, 3, 4, 5, SIZE}, z \in {0, 1, 3, 4, 5, SIZE}}

AllKinds == TreeKinds \cup FileKinds
ImagesOf(k) == IF k[1] = "tree" THEN Trees(k[2], k[3]) ELSE Addressings(k[2], k[3], k[4])
=============================================================================
