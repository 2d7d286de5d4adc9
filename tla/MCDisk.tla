------------------------------- MODULE MCDisk -------------------------------
EXTENDS DiskInv
=============================================================================
