------------------------------- MODULE TxDisk -------------------------------
(***************************************************************************)
(* What log.c promises the file system: a disk on which the writes of      *)
(* concurrent operations become durable all at once, at a moment when no   *)
(* operation is in progress, and to which a crash returns.                 *)
(***************************************************************************)
CONSTANTS Proc, Block, Writes

VARIABLES
    mem,       \* what a read of a block returns
    durable,   \* what it would return after a crash
    active     \* processes inside an operation

tvars == <<mem, durable, active>>

\* The contents of a block: the writes it holds.
Blank == [b \in Block |-> {}]

TInit == mem = Blank /\ durable = Blank /\ active = {}

Begin(p) ==
    /\ p \notin active
    /\ active' = active \union {p}
    /\ UNCHANGED <<mem, durable>>

Write(p, b) ==
    /\ p \in active
    /\ \E w \in Writes : mem' = [mem EXCEPT ![b] = @ \union {w}]
    /\ UNCHANGED <<durable, active>>

End(p) ==
    /\ p \in active
    /\ active' = active \ {p}
    /\ UNCHANGED <<mem, durable>>

MakeDurable ==
    /\ active = {}
    /\ durable' = mem
    /\ UNCHANGED <<mem, active>>

Lose ==
    /\ mem' = durable
    /\ active' = {}
    /\ UNCHANGED durable

TNext ==
    \/ \E p \in Proc : Begin(p) \/ End(p)
    \/ \E p \in Proc, b \in Block : Write(p, b)
    \/ MakeDurable
    \/ Lose

TSpec == TInit /\ [][TNext]_tvars
=============================================================================
