------------------------------ MODULE MCBlocks ------------------------------
EXTENDS BlocksInv, TLC

Swap == Permutations(Proc) \cup Permutations(File)
=============================================================================
