----------------------------- MODULE BlockStore -----------------------------
(***************************************************************************)
(* What bread, bwrite and brelse promise: a sector is lent to one process  *)
(* at a time, with the contents it was last given; the next contents are   *)
(* in the store before the call that gives them returns.  Sectors do not   *)
(* wait for each other.  The promise ends with the first transfer that the *)
(* drive fails.                                                            *)
(***************************************************************************)
EXTENDS Naturals

CONSTANTS Proc, Sector, Value, Nobody

VARIABLES
    store,     \* the contents of each sector
    lease,     \* who has a sector, the contents it sees, and whether it is
               \* giving them to the sector
    healthy    \* no transfer has failed

bvars == <<store, lease, healthy>>

Lease(p, v, w) == [by |-> p, sees |-> v, writing |-> w]

Free == Lease(Nobody, Nobody, FALSE)

BInit ==
    /\ store \in [Sector -> Value]
    /\ lease = [s \in Sector |-> Free]
    /\ healthy = TRUE

\* A sector goes from lease l and contents c to m and d.
Lend(l, c, m, d)     == d = c /\ l = Free /\ \E p \in Proc : m = Lease(p, c, FALSE)

TakeBack(l, c, m, d) == d = c /\ m = Free /\ \E p \in Proc : l = Lease(p, c, FALSE)

Give(l, c, m, d) ==
    /\ d = c
    /\ \E p \in Proc, v \in Value : l = Lease(p, c, FALSE) /\ m = Lease(p, v, TRUE)

Commit(l, c, m, d)   == l.writing /\ d = l.sees /\ m = l

Given(l, c, m, d)    == l.writing /\ d = c /\ l.sees = c /\ m = [l EXCEPT !.writing = FALSE]

GivenAtOnce(l, c, m, d) == l.writing /\ d = l.sees /\ m = [l EXCEPT !.writing = FALSE]

Moves(l, c, m, d) ==
    \/ Lend(l, c, m, d) \/ TakeBack(l, c, m, d)
    \/ Give(l, c, m, d) \/ Commit(l, c, m, d) \/ Given(l, c, m, d)
    \/ GivenAtOnce(l, c, m, d)

BNext ==
    \/ ~healthy'
    \/ /\ healthy /\ healthy'
       /\ \A s \in Sector :
              \/ lease'[s] = lease[s] /\ store'[s] = store[s]
              \/ Moves(lease[s], store[s], lease'[s], store'[s])

BSpec == BInit /\ [][BNext]_bvars
=============================================================================
