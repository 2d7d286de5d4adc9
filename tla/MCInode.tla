------------------------------ MODULE MCInode -------------------------------
EXTENDS InodeInv, TLC

P(a, n) == [abs |-> a, names |-> n]

Swap == Permutations(Proc)

Chain == <<"a", "b">>

\* Paths from the root, and from a working directory that may have been removed.
Paths == {P(TRUE, <<>>), P(TRUE, <<"a">>), P(TRUE, <<"a", "b">>),
          P(FALSE, <<"b">>), P(FALSE, <<"..", "b">>), P(FALSE, <<"..", "..">>)}

NewPaths == {P(TRUE, <<>>), P(TRUE, <<"a">>), P(FALSE, <<"..", "b">>)}
=============================================================================
