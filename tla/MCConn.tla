------------------------------ MODULE MCConn ------------------------------
EXTENDS ReconnectScheduler, TLC
=============================================================================
