---------------------------- MODULE MCKeypadCodes ----------------------------
\* Instances of KeypadCodes for TLC.
EXTENDS KeypadCodes
=============================================================================
