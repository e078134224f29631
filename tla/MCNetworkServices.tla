-------------------------- MODULE MCNetworkServices --------------------------
\* Instances of NetworkServices for TLC.
EXTENDS NetworkServices
=============================================================================
