------------------------------- MODULE MCLog --------------------------------
EXTENDS LogInv
=============================================================================
