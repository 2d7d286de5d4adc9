------------------------------- MODULE MCCsmc -------------------------------
EXTENDS CsmcInv
=============================================================================
