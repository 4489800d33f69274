------------------------------ MODULE MCJobs ------------------------------
EXTENDS JobReconnect, TLC
=============================================================================
