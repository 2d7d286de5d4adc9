------------------------------ MODULE InodeInv ------------------------------
(***************************************************************************)
(* What the inode layer of Inode must keep, on the disk at every moment    *)
(* and in memory between the calls.                                        *)
(***************************************************************************)
EXTENDS Inode

Type == {"free", "file", "dir", "dev"}

Step == {"ilock", "iunlock", "iput", "iupdate", "itrunc", "clear", "drop"} \X Ino

Places == {"user", "walk", "open", "create", "mkdir", "mknod", "exists", "fill", "count",
           "dot", "dotdot", "enter", "link", "renamed", "newname", "undo", "unlink", "erase",
           "unnamed", "chdir", "panic"}

\* With the end of link() and the two ways to panic.
CallNames == {"none", "open", "create", "mkdir", "mknod", "link", "newname", "unlink",
              "chdir", "no type", "no inodes"}

Calling == [pc : Places, call : CallNames, names : Seq(Entry), name : Entry \cup {"none"},
            ip : Ino \cup {None}, other : Ino \cup {None}, then : Path \cup {<<>>},
            todo : Seq(Step)]

\* Type invariant of the disk, the inode cache and the calls in progress.
TypeOK ==
    /\ disk \in [Ino -> [type : Type, nlink : Int]]
    /\ ent \in [Ino -> [Entry -> Ino \cup {None}]]
    /\ core \in [Ino -> [type : Type, nlink : Int]]
    /\ ref \in [Ino -> Nat]
    /\ busy \subseteq {i \in valid : ref[i] > 0}
    /\ valid \subseteq Ino
    /\ cwd \in [Proc -> Ino] /\ file \in [Proc -> Ino \cup {None}]
    /\ at \in [Proc -> Calling]

\* What paths lead to from the inodes of a set.
ReachedFrom(R) ==
    LET Below[S \in SUBSET Ino] ==
            LET Dirs == {d \in S : disk[d].type = "dir"}
                T == S \cup ({ent[d][e] : d \in Dirs, e \in Name} \ {None})
            IN  IF T = S THEN S ELSE Below[T]
    IN  Below[R]

Reached == ReachedFrom({ROOTINO})

Links(i) == {x \in Reached \X (Entry \ {"."}) :
                 disk[x[1]].type = "dir" /\ ent[x[1]][x[2]] = i /\ x # <<ROOTINO, "..">>}

\* Inodes that hang on a directory without a name, or on one that was taken up
\* again while a process still came to it through "..": ilock() of the directory
\* handed out by ialloc() may then come before that of its creator, who sets the
\* link count to 1 whatever has been made in it meanwhile.
Astray == ReachedFrom(strays)

\* Whenever the machine stops, each name on the disk leads to an inode that
\* is allocated there, with a link count that covers all its names: create
\* and link raise the count first, unlink lowers it last.
NamesCovered ==
    \A i \in Reached \ Astray :
        /\ disk[i].type # "free"
        /\ Cardinality(Links(i)) <= disk[i].nlink

Quiet == \A p \in Proc : at[p] = Idle

\* Between the calls an inode has as many references as files and working
\* directories hold, no lock is held, and what is cached is on the disk.  At
\* no time is the last reference given back of an inode that is locked.
CacheBalanced ==
    /\ Quiet => /\ busy = {}
                /\ \A i \in Ino :
                       ref[i] = Cardinality({p \in Proc : cwd[p] = i})
                                + Cardinality({p \in Proc : file[p] = i})
                /\ \A i \in valid : core[i] = disk[i]
    /\ \A p \in Proc : ~IPutBusy(p)

\* Between the calls an allocated inode has a name or is in use; and its link
\* count is exact, unless a name in it leads astray.
NothingLost ==
    Quiet => \A i \in Ino \ Astray :
        disk[i].type # "free" =>
            /\ i \in Reached \/ ref[i] > 0
            /\ i \in Reached =>
                   \/ disk[i].nlink = Cardinality(Links(i)) + (IF i = ROOTINO THEN 1 ELSE 0)
                   \/ \E e \in Name : ent[i][e] \in Astray

\* The kernel stops only when the inodes run out, or when a process goes to
\* the parent of a directory that has been removed, or to what hangs on one:
\* no other name leads to a free inode or to one whose count is too low, and no
\* other process comes into a directory before mkdir() has given it its dots.
PanicOnlyDotDot ==
    \A p \in Proc :
        /\ UnlinkPanic(p) => at[p].other \in Astray
        /\ DotsPanic(p) => {at[p].other, ent[at[p].other][".."]} \cap Astray # {}
        /\ \A i \in Ino : NoType(p, i) => at[p].name = ".." \/ i \in Astray

Waits(p) == \E i \in busy : Doing(p, "ilock", i)

\* Two locks are taken only downwards, a directory before an inode found in it,
\* and every call gives its locks back, also where it fails: the processes
\* inside calls never all wait for inodes, unless one has gone astray.
NoDeadlock ==
    LET Inside == {p \in Proc : at[p] # Idle}
    IN  Inside = {} \/ \E p \in Inside : ~Waits(p) \/ {at[p].ip, at[p].other} \cap Astray # {}
-----------------------------------------------------------------------------
(* The inductive invariant of references and locks.  What is counted is    *)
(* what a call has, and what its micro-steps to come will give back; a     *)
(* process has a lock if the next of them that is about the lock gives it  *)
(* back, or if none is and the point of its call says so.                  *)

\* Points at which a call has locked ip, other, or both.
AtIp == {"walk", "open", "chdir", "link", "unlink", "create", "mkdir", "mknod", "newname"}
AtOther == {"exists", "undo", "unnamed"}
AtBoth == {"fill", "count", "dot", "dotdot", "enter", "erase"}

LockedAt(a, i) ==
    \/ a.pc \in AtIp \cup AtBoth /\ a.ip = i
    \/ a.pc \in AtOther \cup AtBoth /\ a.other = i

Takes(step, i) == step = Lock(i)
Releases(step, i) == step \in {Unlock(i), <<"drop", i>>}
Gives(step, i) == step \in {Put(i), <<"drop", i>>}

\* The call a has locked the inode i before the k-th micro-step to come.
HeldFrom(a, k, i) ==
    \/ \E m \in k..Len(a.todo) :
           Releases(a.todo[m], i) /\ \A j \in k..m - 1 : ~Takes(a.todo[j], i)
    \/ LockedAt(a, i) /\ \A j \in k..Len(a.todo) : ~Takes(a.todo[j], i)

\* Who has locked ip and is to lock it again waits for ever.
Twice(a, i) == a.pc \in AtBoth /\ a.ip = i /\ a.other = i

Holds(a, i) == HeldFrom(a, 1, i) \/ Twice(a, i)

One(b) == IF b THEN 1 ELSE 0

\* The references to the inode i that a call will not give back in its
\* micro-steps to come, with those of its process's directory and file.
Keeps(a, c, f, i) ==
    One(c = i) + One(f = i)
    + One(a.pc \in AtIp \cup AtBoth /\ a.ip = i)
    + One((a.pc \in AtOther \cup AtBoth \cup {"renamed"} \/ a.call = "newname") /\ a.other = i)

GivesOf(todo, i) == {k \in DOMAIN todo : Gives(todo[k], i)}

Owns(a, c, f, i) == Keeps(a, c, f, i) + Cardinality(GivesOf(a.todo, i))

References(i) == UNION {{p} \X (1..Owns(at[p], cwd[p], file[p], i)) : p \in Proc}

\* The k-th micro-step to come of a call with directory c and file f.
StepRight(a, c, f, k) ==
    \A i \in Ino :
        /\ a.todo[k] \in {Lock(i), Update(i), <<"itrunc", i>>, <<"clear", i>>} =>
               HeldFrom(a, k + 1, i)
        /\ a.todo[k] \in {Unlock(i), <<"drop", i>>} => ~HeldFrom(a, k + 1, i)
        /\ a.todo[k] = Unlock(i) =>
               \/ Keeps(a, c, f, i) > 0
               \/ \E m \in k + 1..Len(a.todo) : Gives(a.todo[m], i)
        /\ a.todo[k] = <<"drop", i>> =>
               \A j \in 1..k - 1 : a.todo[j] \in {<<"itrunc", i>>, <<"clear", i>>}
        /\ a.todo[k] = <<"clear", i>> =>
               \E m \in k + 1..Len(a.todo) : a.todo[m] = <<"drop", i>>

\* What a call knows at its points.
PointRight(a) ==
    /\ a.pc \in {"user", "renamed"} \cup AtIp \cup AtOther \cup AtBoth
    /\ a.pc \in AtIp \ {"walk"} => a.call = a.pc
    /\ a.pc = "walk" => a.call \in AtIp \ {"walk"} /\ a.names # <<>>
    /\ a.call = "newname" => a.pc \in {"walk", "newname", "undo"}
    /\ a.pc \in ToParent => a.name \in Entry
    /\ a.pc \in {"fill", "exists"} => a.call \in {"create", "mkdir", "mknod"}
    /\ a.pc \in AtIp \cup AtBoth => a.ip \in Ino
    /\ a.pc \in AtOther \cup AtBoth \cup {"renamed"} \/ a.call = "newname" => a.other \in Ino
    /\ a.pc = "renamed" => a.call = "link"
    /\ a.call = "link" => a.then \in Path
    /\ a.pc \in AtBoth /\ a.ip = a.other => a.todo = <<Lock(a.ip)>>

CallRight(a, c, f) ==
    /\ PointRight(a)
    /\ a.call \in {"open", "create"} => f = None
    /\ \A k \in 1..Len(a.todo) : StepRight(a, c, f, k)

\* Every reference is somebody's.
Refs == \A i \in Ino : ref[i] = Cardinality(References(i))

\* A lock is somebody's, and nobody else's.
Locks ==
    /\ \A i \in Ino : i \in busy <=> \E p \in Proc : Holds(at[p], i)
    /\ \A p, q \in Proc, i \in Ino : Holds(at[p], i) /\ Holds(at[q], i) => p = q

ToDo(step) == \E p \in Proc : \E k \in 1..Len(at[p].todo) : at[p].todo[k] = step

\* What is cached is on the disk, or about to be written or dropped; and an inode
\* that is free while it is cached is being freed.
Cached ==
    \A i \in valid :
        /\ core[i] = disk[i] \/ ToDo(Update(i)) \/ ToDo(<<"drop", i>>)
        /\ core[i].type = "free" \/ disk[i].type = "free" => ToDo(<<"drop", i>>)

Running ==
    /\ \A p \in Proc : CallRight(at[p], cwd[p], file[p])
    /\ Refs /\ Locks /\ Cached

\* panic() has stopped every processor.
Stopped == /\ \E p \in Proc : at[p].pc = "panic"
           /\ \A p \in Proc : at[p].pc = "panic" /\ at[p].todo = <<>>

IInv == TypeOK /\ (Running \/ Stopped)
=============================================================================
