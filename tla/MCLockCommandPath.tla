------------------------- MODULE MCLockCommandPath -------------------------
(***************************************************************************)
(* Small instances of LockCommandPath.  The queries other than the lock    *)
(* state go through the same byte and are not in any property, so the      *)
(* instances leave them out.                                               *)
(***************************************************************************)
EXTENDS LockCommandPath

OnlyLockState == {"lockstate"}
=============================================================================
