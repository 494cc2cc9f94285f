----------------------------- MODULE MCPidFile -----------------------------
EXTENDS PidFile, TLC
=============================================================================
