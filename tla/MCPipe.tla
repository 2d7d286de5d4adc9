------------------------------- MODULE MCPipe -------------------------------
EXTENDS PipeInv
=============================================================================
