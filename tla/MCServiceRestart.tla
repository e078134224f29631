-------------------------- MODULE MCServiceRestart --------------------------
\* Instances of ServiceRestart for TLC.  The state space is finite as it is; the
\* configurations only choose how long pages may take and whether the lock may
\* be switched off while the bridge is running.
EXTENDS ServiceRestart
=============================================================================
