-------------------------- MODULE MCEntryCommands --------------------------
\* Instances of EntryCommands for TLC.
EXTENDS EntryCommands

On == [enabled |-> 1, when |-> 1]
Off == [enabled |-> 0, when |-> 0]

\* The lock has no entries at boot or more than the bridge takes note of.
MCTables == {[i \in Ids |-> None], [i \in Ids |-> On]}

\* The app disables an entry and takes its limits away, or deletes it: the entry that
\* the commands are for.
MCEdits == [id : {1}, entry : {Off, None}]

\* A new entry, a deletion and updates that name no value or one.
Update(w) == [cmd |-> "update", id |-> 1, enabled |-> 2, when |-> w]
MCCommands == {[cmd |-> "add", id |-> 0, enabled |-> 2, when |-> 1],
               [cmd |-> "delete", id |-> 1, enabled |-> 2, when |-> 2],
               Update(2), Update(0)}
=============================================================================
