------------------------------- MODULE Inode --------------------------------
(***************************************************************************)
(* Inodes, directories and path names of src/xv6/kernel/fs.c, with the     *)
(* system calls of sysfile.c that make and remove names.                   *)
(*                                                                         *)
(* A process is at a point pc of its call with micro-steps todo before it: *)
(* ilock, iunlock, iput and iupdate of one inode, each of which takes      *)
(* icache.lock or writes one sector.  disk and ent change sector by sector,*)
(* so every state is also one that a crash leaves behind.  Which slot of   *)
(* icache holds an inode does not matter: iget() finds it by its number.   *)
(* Blocks are the subject of module Blocks.                                *)
(***************************************************************************)
EXTENDS Integers, FiniteSets, Sequences

CONSTANTS
    Proc,
    NInodes,        \* sb.ninodes
    Name,           \* names but "." and ".."
    Path,           \* paths the calls are given: [abs, names]
    NewPath,        \* those of them that link() is given as the new name
    Made,           \* names of directories there may be, each in the one before
    Calls,          \* system calls made
    MaxCalls        \* bound: calls made in all

Ino == 1..NInodes
ROOTINO == 1
None == 0
Entry == Name \cup {".", ".."}

ASSUME InodeAssumption ==
    /\ NInodes \in Nat \ {0, 1, 2}
    /\ IsFiniteSet(Proc)
    /\ Name \cap {".", ".."} = {}
    /\ \A w \in Path : w.abs \in BOOLEAN /\ w.names \in Seq(Entry)
    /\ NewPath \subseteq Path
    /\ Made \in Seq(Name) /\ Len(Made) < NInodes
    /\ Calls \subseteq {"open", "create", "mkdir", "mknod", "link", "unlink", "chdir"}
    /\ MaxCalls \in Nat

VARIABLES
    disk,           \* the dinodes: type and nlink
    ent,            \* the entries of the directories, on disk
    core,           \* the same fields of the cached inodes
    ref, busy, valid,   \* ip->ref; I_BUSY and I_VALID
    cwd, file,      \* proc->cwd; the inode of a process's open file
    at,             \* the call in progress of each process
    calls,
    strays          \* inodes named in, or kept by, a directory without a name, or
                    \* linked before create() has given them theirs

diskVars == <<disk, ent>>
flagVars == <<ref, busy, valid>>
procVars == <<cwd, file>>
vars == <<diskVars, core, flagVars, procVars, at, calls, strays>>

Dinode(t, n) == [type |-> t, nlink |-> n]

Blank == [e \in Entry |-> None]

Idle == [pc |-> "user", call |-> "none", names |-> <<>>, name |-> "none",
         ip |-> None, other |-> None, then |-> <<>>, todo |-> <<>>]

\* What mkfs leaves and directories made below the root, one in the other; the
\* last may be a file instead.  Processes have gone to the last directory, which
\* may since have been removed, and then the one before as well, which nobody
\* kept and iput() has freed.
Init ==
    /\ \E depth \in 0..Len(Made), in \in SUBSET Proc, gone \in 0..2, leaf \in {"dir", "file"} :
           LET last == depth + 1
               Named(i) == i <= depth - gone
               Freed(i) == i > last \/ (gone = 2 /\ i = depth)
               IsFile(i) == i = last /\ leaf = "file"
           IN  /\ gone <= depth /\ (gone > 0 => in # {})
               /\ depth = 0 => in = {}
               /\ leaf = "file" => depth > 0 /\ in = {}
               /\ disk = [i \in Ino |->
                      CASE Freed(i) -> Dinode("free", 0)
                        [] i = last /\ gone > 0 -> Dinode("dir", 0)
                        [] IsFile(i) -> Dinode("file", 1)
                        [] OTHER -> Dinode("dir", IF Named(i) /\ ~IsFile(i + 1) THEN 2 ELSE 1)]
               /\ ent = [i \in Ino |->
                      IF Freed(i) \/ IsFile(i) THEN Blank
                      ELSE [e \in Entry |->
                               CASE e = "." -> i
                                 [] e = ".." -> IF i = 1 THEN 1 ELSE i - 1
                                 [] OTHER -> IF Named(i) /\ e = Made[i] THEN i + 1 ELSE None]]
               /\ cwd = [p \in Proc |-> IF p \in in THEN last ELSE ROOTINO]
    /\ ref = [i \in Ino |-> Cardinality({p \in Proc : cwd[p] = i})]
    /\ busy = {} /\ valid = {i \in Ino : ref[i] > 0}
    /\ core = [i \in Ino |-> IF i \in valid THEN disk[i] ELSE Dinode("free", 0)]
    /\ file = [p \in Proc |-> None]
    /\ at = [p \in Proc |-> Idle]
    /\ calls = 0
    /\ strays = {}

Lock(i)   == <<"ilock", i>>
Unlock(i) == <<"iunlock", i>>
Put(i)    == <<"iput", i>>
Update(i) == <<"iupdate", i>>
UnlockPut_Swapped(i) == <<Put(i), Unlock(i)>>

UnlockPut(i) == <<Unlock(i), Put(i)>>

\* The next micro-step of p, and p after it.
Doing(p, op, i) == at[p].todo # <<>> /\ Head(at[p].todo) = <<op, i>>
Did(p) == at' = [at EXCEPT ![p].todo = Tail(@)]
At(p, place) == at[p].pc = place /\ at[p].todo = <<>>

Goes(p, place, todo) == at' = [at EXCEPT ![p].pc = place, ![p].todo = todo]

\* The call ends, but for the inodes it still gives back.
Returns(p, todo) == at' = [at EXCEPT ![p] = [Idle EXCEPT !.todo = todo]]

\* panic() stops every processor.
Panic(p, why) ==
    at' = [q \in Proc |-> [Idle EXCEPT !.pc = "panic", !.name = at[q].name,
                                      !.call = IF q = p THEN why ELSE "none"]]

Iget(i) == ref' = [ref EXCEPT ![i] = @ + 1]

-----------------------------------------------------------------------------
(* ilock, iunlock, iput, iupdate *)

ILock(p) == \E i \in Ino :
    /\ Doing(p, "ilock", i)
    /\ i \notin busy
    /\ i \in valid \/ disk[i].type # "free"
    /\ busy' = busy \cup {i}
    /\ valid' = valid \cup {i}
    /\ core' = IF i \in valid THEN core ELSE [core EXCEPT ![i] = disk[i]]
    /\ Did(p)
    /\ UNCHANGED <<diskVars, ref, procVars, calls, strays>>

NoType(p, i) ==
    /\ Doing(p, "ilock", i)
    /\ i \notin busy \cup valid
    /\ disk[i].type = "free"

\* panic("ilock: no type")
ILockNoType(p) ==
    /\ \E i \in Ino : NoType(p, i)
    /\ Panic(p, "no type")
    /\ UNCHANGED <<diskVars, core, flagVars, procVars, calls, strays>>

IUnlock(p) == \E i \in Ino :
    /\ Doing(p, "iunlock", i)
    /\ busy' = busy \ {i}
    /\ Did(p)
    /\ UNCHANGED <<diskVars, core, ref, valid, procVars, calls, strays>>

IUpdate(p) == \E i \in Ino :
    /\ Doing(p, "iupdate", i)
    /\ disk' = [disk EXCEPT ![i] = core[i]]
    /\ Did(p)
    /\ UNCHANGED <<ent, core, flagVars, procVars, calls, strays>>

Last_AnyRef(i) == i \in valid /\ core[i].nlink = 0

\* The last reference to an inode without a name.
Last(i) == ref[i] = 1 /\ i \in valid /\ core[i].nlink = 0

\* The flags of a slot nobody refers to are cleared when it is used again.
IPut(p) == \E i \in Ino :
    /\ Doing(p, "iput", i)
    /\ ~Last(i)
    /\ ref' = [ref EXCEPT ![i] = @ - 1]
    /\ valid' = IF ref[i] = 1 THEN valid \ {i} ELSE valid
    /\ core' = IF ref[i] = 1 THEN [core EXCEPT ![i] = Dinode("free", 0)] ELSE core
    /\ Did(p)
    /\ UNCHANGED <<diskVars, busy, procVars, calls, strays>>

\* panic("iput busy")
IPutBusy(p) == \E i \in Ino : Doing(p, "iput", i) /\ Last(i) /\ i \in busy

FreeSteps(i) == <<<<"itrunc", i>>, <<"clear", i>>, <<"drop", i>>>>

IPutLast(p) == \E i \in Ino :
    /\ Doing(p, "iput", i)
    /\ Last(i)
    /\ i \notin busy
    /\ busy' = busy \cup {i}
    /\ at' = [at EXCEPT ![p].todo = FreeSteps(i) \o Tail(@)]
    /\ UNCHANGED <<diskVars, core, ref, valid, procVars, calls, strays>>

\* The blocks are zeroed as they are freed, so the entries are gone.
ITrunc(p) == \E i \in Ino :
    /\ Doing(p, "itrunc", i)
    /\ ent' = [ent EXCEPT ![i] = Blank]
    /\ disk' = [disk EXCEPT ![i] = core[i]]
    /\ Did(p)
    /\ UNCHANGED <<core, flagVars, procVars, calls, strays>>

\* ip->type = 0; iupdate(ip)
Clear(p) == \E i \in Ino :
    /\ Doing(p, "clear", i)
    /\ core' = [core EXCEPT ![i].type = "free"]
    /\ disk' = [disk EXCEPT ![i] = core'[i]]
    /\ Did(p)
    /\ UNCHANGED <<ent, flagVars, procVars, calls, strays>>

\* ip->flags = 0: whoever got the inode again meanwhile reads it from the disk.
Drop(p) == \E i \in Ino :
    /\ Doing(p, "drop", i)
    /\ busy' = busy \ {i}
    /\ valid' = valid \ {i}
    /\ core' = [core EXCEPT ![i] = Dinode("free", 0)]
    /\ ref' = [ref EXCEPT ![i] = @ - 1]
    /\ Did(p)
    /\ UNCHANGED <<diskVars, procVars, calls, strays>>

MicroStep(p) ==
    \/ ILock(p) \/ ILockNoType(p) \/ IUnlock(p) \/ IUpdate(p)
    \/ IPut(p) \/ IPutLast(p) \/ ITrunc(p) \/ Clear(p) \/ Drop(p)

-----------------------------------------------------------------------------
(* namex() *)

\* The calls that look up the parent of the last name.
ToParent == {"create", "mkdir", "mknod", "unlink", "newname"}

\* nameiparent: the walk stops one name early.
ToParentOf(p) == at[p].call \in ToParent /\ Len(at[p].names) = 1

\* p goes on from inode i, of which it has a reference: either the walk goes
\* on there, or its caller takes over.  Both begin with ilock().
From(p, call, names, i, before) ==
    [at[p] EXCEPT
        !.call = call, !.ip = i, !.todo = before \o <<Lock(i)>>,
        !.pc = IF names = <<>> THEN call ELSE "walk",
        !.names = names]

Start(w, p) == IF w.abs THEN ROOTINO ELSE cwd[p]

\* link() gives a second path.
Call(p, call, w, w2) ==
    /\ At(p, "user")
    /\ calls < MaxCalls
    /\ calls' = calls + 1
    /\ call \in {"open", "create"} => file[p] = None
    /\ w.names = <<>> => call \notin ToParent
    /\ Iget(Start(w, p))
    /\ at' = [at EXCEPT ![p] =
                 [From(p, call, w.names, Start(w, p), <<>>) EXCEPT !.then = w2]]
    /\ UNCHANGED <<diskVars, core, busy, valid, procVars, strays>>

\* A path without names has no parent: nameiparent() gives its inode back.
CallNowhere(p, call, w) ==
    /\ At(p, "user")
    /\ calls < MaxCalls
    /\ calls' = calls + 1
    /\ w.names = <<>> /\ call \in ToParent
    /\ Iget(Start(w, p))
    /\ Returns(p, <<Put(Start(w, p))>>)
    /\ UNCHANGED <<diskVars, core, busy, valid, procVars, strays>>

\* The walk fails; sys_link() takes its link back.
Fail(p, todo) ==
    IF at[p].call = "newname"
    THEN Goes(p, "undo", todo \o <<Lock(at[p].other)>>)
    ELSE Returns(p, todo)

WalkFails(p) ==
    /\ At(p, "walk")
    /\ LET i == at[p].ip
       IN  /\ \/ core[i].type # "dir"
              \/ ~ToParentOf(p) /\ ent[i][Head(at[p].names)] = None
           /\ Fail(p, UnlockPut(i))
    /\ UNCHANGED <<diskVars, core, flagVars, procVars, calls, strays>>

WalkDown(p) ==
    /\ At(p, "walk")
    /\ LET i == at[p].ip
           name == Head(at[p].names)
       IN  /\ core[i].type = "dir"
           /\ ~ToParentOf(p)
           /\ ent[i][name] # None
           /\ Iget(ent[i][name])
           /\ at' = [at EXCEPT ![p] =
                        [From(p, at[p].call, Tail(at[p].names), ent[i][name], UnlockPut(i))
                            EXCEPT !.name = name]]
    /\ UNCHANGED <<diskVars, core, busy, valid, procVars, calls, strays>>

\* nameiparent() returns the directory unlocked; its caller locks it again.
WalkParent(p) ==
    /\ At(p, "walk")
    /\ ToParentOf(p)
    /\ LET i == at[p].ip
       IN  /\ core[i].type = "dir"
           /\ at' = [at EXCEPT ![p] =
                        [From(p, at[p].call, <<>>, i, <<Unlock(i)>>)
                            EXCEPT !.name = Head(at[p].names)]]
    /\ UNCHANGED <<diskVars, core, flagVars, procVars, calls, strays>>

-----------------------------------------------------------------------------
(* Open files: sys_open without O_CREATE, sys_read, sys_write, sys_fstat and *)
(* sys_close; and sys_chdir                                                  *)

Open(p) ==
    /\ At(p, "open")
    /\ file' = [file EXCEPT ![p] = at[p].ip]
    /\ Returns(p, <<Unlock(at[p].ip)>>)
    /\ UNCHANGED <<diskVars, core, flagVars, cwd, calls, strays>>

OpenFails_Kept(p) ==
    /\ At(p, "open")
    /\ Returns(p, <<Unlock(at[p].ip)>>)
    /\ UNCHANGED <<diskVars, core, flagVars, procVars, calls, strays>>

\* There is no free file or descriptor, or a directory is opened for writing.
OpenFails(p) ==
    /\ At(p, "open")
    /\ Returns(p, UnlockPut(at[p].ip))
    /\ UNCHANGED <<diskVars, core, flagVars, procVars, calls, strays>>

\* Reads and writes lock the inode, which the file keeps.
Use(p) ==
    /\ At(p, "user")
    /\ calls < MaxCalls
    /\ calls' = calls + 1
    /\ file[p] # None
    /\ Returns(p, <<Lock(file[p]), Unlock(file[p])>>)
    /\ UNCHANGED <<diskVars, core, flagVars, procVars, strays>>

Chdir(p) ==
    /\ At(p, "chdir")
    /\ LET i == at[p].ip
       IN  IF core[i].type = "dir"
           THEN /\ Returns(p, <<Unlock(i), Put(cwd[p])>>)
                /\ cwd' = [cwd EXCEPT ![p] = i]
           ELSE Returns(p, UnlockPut(i)) /\ UNCHANGED cwd
    /\ UNCHANGED <<diskVars, core, flagVars, file, calls, strays>>

Close(p) ==
    /\ At(p, "user")
    /\ file[p] # None
    /\ Returns(p, <<Put(file[p])>>)
    /\ file' = [file EXCEPT ![p] = None]
    /\ UNCHANGED <<diskVars, core, flagVars, cwd, calls, strays>>

-----------------------------------------------------------------------------
(* create(), for sys_open with O_CREATE, sys_mkdir and sys_mknod *)

Creates(p) == \E call \in {"create", "mkdir", "mknod"} : At(p, call)

CreateExists_Held(p) ==
    /\ Creates(p)
    /\ LET dp == at[p].ip
           i  == ent[dp][at[p].name]
       IN  /\ i # None
           /\ Iget(i)
           /\ at' = [at EXCEPT ![p] = [@ EXCEPT !.pc = "exists", !.other = i,
                                           !.todo = <<Lock(i)>> \o UnlockPut(dp)]]
    /\ UNCHANGED <<diskVars, core, busy, valid, procVars, calls, strays>>

CreateExists(p) ==
    /\ Creates(p)
    /\ LET dp == at[p].ip
           i  == ent[dp][at[p].name]
       IN  /\ i # None
           /\ Iget(i)
           /\ at' = [at EXCEPT ![p] = [@ EXCEPT !.pc = "exists", !.other = i,
                                           !.todo = UnlockPut(dp) \o <<Lock(i)>>]]
    /\ UNCHANGED <<diskVars, core, busy, valid, procVars, calls, strays>>

\* sys_open() may still find no free file.
Exists(p) ==
    /\ At(p, "exists")
    /\ LET i == at[p].other
       IN  \/ /\ at[p].call = "create" /\ core[i].type = "file"
              /\ Returns(p, <<Unlock(i)>>)
              /\ file' = [file EXCEPT ![p] = i]
           \/ Returns(p, UnlockPut(i)) /\ UNCHANGED file
    /\ UNCHANGED <<diskVars, core, flagVars, cwd, calls, strays>>

FreeInodes == {i \in Ino : disk[i].type = "free"}

\* ialloc(): the first free dinode is taken on the disk, then looked up.
CreateNew(p) ==
    /\ Creates(p)
    /\ ent[at[p].ip][at[p].name] = None
    /\ \E i \in FreeInodes :
           /\ \A j \in FreeInodes : i <= j
           /\ disk' = [disk EXCEPT ![i] =
                          Dinode(CASE at[p].call = "create" -> "file"
                                   [] at[p].call = "mkdir" -> "dir"
                                   [] at[p].call = "mknod" -> "dev", 0)]
           /\ Iget(i)
           /\ at' = [at EXCEPT ![p] = [@ EXCEPT !.pc = "fill", !.other = i,
                                           !.todo = <<Lock(i)>>]]
    /\ UNCHANGED <<ent, core, busy, valid, procVars, calls, strays>>

\* panic("ialloc: no inodes")
CreatePanic(p) ==
    /\ Creates(p)
    /\ ent[at[p].ip][at[p].name] = None
    /\ FreeInodes = {}
    /\ Panic(p, "no inodes")
    /\ UNCHANGED <<diskVars, core, flagVars, procVars, calls, strays>>

Fill_Late(p) ==
    /\ At(p, "fill")
    /\ core' = [core EXCEPT ![at[p].other].nlink = 1]
    /\ Goes(p, IF at[p].call = "mkdir" THEN "count" ELSE "enter", <<>>)
    /\ UNCHANGED <<diskVars, flagVars, procVars, calls, strays>>

Fill(p) ==
    /\ At(p, "fill")
    /\ core' = [core EXCEPT ![at[p].other].nlink = 1]
    /\ Goes(p, IF at[p].call = "mkdir" THEN "count" ELSE "enter",
            <<Update(at[p].other)>>)
    /\ UNCHANGED <<diskVars, flagVars, procVars, calls, strays>>

\* dp->nlink++ for the ".." to come.
Count(p) ==
    /\ At(p, "count")
    /\ core' = [core EXCEPT ![at[p].ip].nlink = @ + 1]
    /\ strays' = IF core[at[p].ip].nlink = 0 THEN strays \cup {at[p].ip} ELSE strays
    /\ Goes(p, "dot", <<Update(at[p].ip)>>)
    /\ UNCHANGED <<diskVars, flagVars, procVars, calls>>

Dot(p) ==
    /\ At(p, "dot")
    /\ ent[at[p].other]["."] = None
    /\ ent' = [ent EXCEPT ![at[p].other]["."] = at[p].other]
    /\ Goes(p, "dotdot", <<>>)
    /\ UNCHANGED <<disk, core, flagVars, procVars, calls, strays>>

DotDot(p) ==
    /\ At(p, "dotdot")
    /\ ent[at[p].other][".."] = None
    /\ ent' = [ent EXCEPT ![at[p].other][".."] = at[p].ip]
    /\ Goes(p, "enter", <<>>)
    /\ UNCHANGED <<disk, core, flagVars, procVars, calls, strays>>

\* panic("create dots")
DotsPanic(p) ==
    \/ At(p, "dot") /\ ent[at[p].other]["."] # None
    \/ At(p, "dotdot") /\ ent[at[p].other][".."] # None

\* dirlink() of a name that is not there.
Dirlink(dp, name, i) ==
    /\ ent[dp][name] = None
    /\ ent' = [ent EXCEPT ![dp][name] = i]
    /\ strays' = IF core[dp].nlink = 0 THEN strays \cup {i} ELSE strays

Enter(p) ==
    /\ At(p, "enter")
    /\ LET dp == at[p].ip
           i  == at[p].other
       IN  /\ Dirlink(dp, at[p].name, i)
           /\ \/ /\ at[p].call = "create"
                 /\ Returns(p, UnlockPut(dp) \o <<Unlock(i)>>)
                 /\ file' = [file EXCEPT ![p] = i]
              \/ Returns(p, UnlockPut(dp) \o UnlockPut(i)) /\ UNCHANGED file
    /\ UNCHANGED <<disk, core, flagVars, cwd, calls>>

-----------------------------------------------------------------------------
(* sys_link *)

LinkDir(p) ==
    /\ At(p, "link")
    /\ core[at[p].ip].type = "dir"
    /\ Returns(p, UnlockPut(at[p].ip))
    /\ UNCHANGED <<diskVars, core, flagVars, procVars, calls, strays>>

Link(p) ==
    /\ At(p, "link")
    /\ LET i == at[p].ip
       IN  /\ core[i].type # "dir"
           /\ core' = [core EXCEPT ![i].nlink = @ + 1]
           /\ at' = [at EXCEPT ![p] = [@ EXCEPT !.pc = "renamed", !.other = i,
                                           !.todo = <<Update(i), Unlock(i)>>]]
           /\ strays' = IF \E q \in Proc : at[q].pc = "fill" /\ at[q].other = i
                        THEN strays \cup {i} ELSE strays
    /\ UNCHANGED <<diskVars, flagVars, procVars, calls>>

LinkNew(p) ==
    /\ At(p, "renamed")
    /\ LET w == at[p].then
       IN  /\ w.names # <<>>
           /\ Iget(Start(w, p))
           /\ at' = [at EXCEPT ![p] =
                        [From(p, "newname", w.names, Start(w, p), <<>>) EXCEPT !.then = <<>>]]
    /\ UNCHANGED <<diskVars, core, busy, valid, procVars, calls, strays>>

LinkNowhere(p) ==
    /\ At(p, "renamed")
    /\ LET w == at[p].then
       IN  /\ w.names = <<>>
           /\ Iget(Start(w, p))
           /\ Goes(p, "undo", <<Put(Start(w, p)), Lock(at[p].other)>>)
    /\ UNCHANGED <<diskVars, core, busy, valid, procVars, calls, strays>>

LinkEnter(p) ==
    /\ At(p, "newname")
    /\ Dirlink(at[p].ip, at[p].name, at[p].other)
    /\ Returns(p, UnlockPut(at[p].ip) \o <<Put(at[p].other)>>)
    /\ UNCHANGED <<disk, core, flagVars, procVars, calls>>

\* The new name is taken: dirlink() has looked its inode up and puts it back.
LinkTaken(p) ==
    /\ At(p, "newname")
    /\ LET dp == at[p].ip
           i  == ent[dp][at[p].name]
       IN  /\ i # None
           /\ Iget(i)
           /\ Goes(p, "undo", <<Put(i)>> \o UnlockPut(dp) \o <<Lock(at[p].other)>>)
    /\ UNCHANGED <<diskVars, core, busy, valid, procVars, calls, strays>>

LinkUndo_Kept(p) ==
    /\ At(p, "undo")
    /\ Returns(p, UnlockPut(at[p].other))
    /\ UNCHANGED <<diskVars, core, flagVars, procVars, calls, strays>>

LinkUndo(p) ==
    /\ At(p, "undo")
    /\ core' = [core EXCEPT ![at[p].other].nlink = @ - 1]
    /\ Returns(p, <<Update(at[p].other)>> \o UnlockPut(at[p].other))
    /\ UNCHANGED <<diskVars, flagVars, procVars, calls, strays>>

-----------------------------------------------------------------------------
(* sys_unlink *)

UnlinkFails(p) ==
    /\ At(p, "unlink")
    /\ at[p].name \notin Name \/ ent[at[p].ip][at[p].name] = None
    /\ Returns(p, UnlockPut(at[p].ip))
    /\ UNCHANGED <<diskVars, core, flagVars, procVars, calls, strays>>

Unlink(p) ==
    /\ At(p, "unlink")
    /\ LET i == ent[at[p].ip][at[p].name]
       IN  /\ at[p].name \in Name /\ i # None
           /\ Iget(i)
           /\ at' = [at EXCEPT ![p] = [@ EXCEPT !.pc = "erase", !.other = i,
                                           !.todo = <<Lock(i)>>]]
    /\ UNCHANGED <<diskVars, core, busy, valid, procVars, calls, strays>>

\* panic("unlink: nlink < 1")
UnlinkPanic(p) == At(p, "erase") /\ core[at[p].other].nlink < 1

IsDirEmpty(i) == \A e \in Name : ent[i][e] = None

UnlinkFull(p) ==
    /\ At(p, "erase")
    /\ LET i == at[p].other
       IN  /\ core[i].nlink > 0
           /\ core[i].type = "dir" /\ ~IsDirEmpty(i)
           /\ Returns(p, UnlockPut(i) \o UnlockPut(at[p].ip))
    /\ UNCHANGED <<diskVars, core, flagVars, procVars, calls, strays>>

Erase(p) ==
    /\ At(p, "erase")
    /\ LET i == at[p].other
       IN  /\ core[i].nlink > 0
           /\ core[i].type = "dir" => IsDirEmpty(i)
           /\ ent' = [ent EXCEPT ![at[p].ip][at[p].name] = None]
           /\ IF core[i].type = "dir"
              THEN /\ core' = [core EXCEPT ![at[p].ip].nlink = @ - 1]
                   /\ Goes(p, "unnamed", <<Update(at[p].ip)>> \o UnlockPut(at[p].ip))
              ELSE /\ UNCHANGED core
                   /\ Goes(p, "unnamed", UnlockPut(at[p].ip))
    /\ UNCHANGED <<disk, flagVars, procVars, calls, strays>>

Unnamed(p) ==
    /\ At(p, "unnamed")
    /\ core' = [core EXCEPT ![at[p].other].nlink = @ - 1]
    /\ Returns(p, <<Update(at[p].other)>> \o UnlockPut(at[p].other))
    /\ UNCHANGED <<diskVars, flagVars, procVars, calls, strays>>

-----------------------------------------------------------------------------
Begin(p) == \E call \in Calls, w \in Path :
    IF call = "link"
    THEN \E w2 \in NewPath : Call(p, call, w, w2)
    ELSE Call(p, call, w, <<>>) \/ CallNowhere(p, call, w)

Walk(p) == WalkFails(p) \/ WalkDown(p) \/ WalkParent(p)

Create(p) ==
    \/ CreateExists(p) \/ Exists(p) \/ CreateNew(p) \/ CreatePanic(p)
    \/ Fill(p) \/ Count(p) \/ Dot(p) \/ DotDot(p) \/ Enter(p)

SysLink(p) ==
    \/ LinkDir(p) \/ Link(p) \/ LinkNew(p) \/ LinkNowhere(p)
    \/ LinkEnter(p) \/ LinkTaken(p) \/ LinkUndo(p)

SysUnlink(p) ==
    UnlinkFails(p) \/ Unlink(p) \/ UnlinkFull(p) \/ Erase(p) \/ Unnamed(p)

Next == \E p \in Proc :
    \/ Begin(p) \/ MicroStep(p) \/ Walk(p) \/ Open(p) \/ OpenFails(p)
    \/ Use(p) \/ Chdir(p) \/ Close(p)
    \/ Create(p) \/ SysLink(p) \/ SysUnlink(p)

Spec == Init /\ [][Next]_vars
=============================================================================
