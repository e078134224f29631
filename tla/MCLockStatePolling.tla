------------------------- MODULE MCLockStatePolling -------------------------
\* Instances of LockStatePolling for TLC.
EXTENDS LockStatePolling

\* The door moves while the lock is locked; the lock moves while it is closed.
MCLockStatus == {[state |-> "Locked", door |-> "DoorClosed"],
                 [state |-> "Locked", door |-> "DoorOpened"],
                 [state |-> "Undefined", door |-> "DoorClosed"]}

\* The second failure is one too many and waits for longer than the interval.
MCFailures == 0..2
MCBackoff == [n \in MCFailures |-> n + 1]
=============================================================================
