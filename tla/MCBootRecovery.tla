--------------------------- MODULE MCBootRecovery ---------------------------
\* Instances of BootRecovery for TLC.
EXTENDS BootRecovery
=============================================================================
