------------------------------- MODULE MCProc -------------------------------
EXTENDS ProcInv
=============================================================================
