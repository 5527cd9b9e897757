----------------------------- MODULE MCListSync -----------------------------
(***************************************************************************)
(* What the clients do in the instances of ListSync for TLC.                 *)
(***************************************************************************)
EXTENDS ListSync

Both == {"app", "sdk"}
Sdk  == {"sdk"}
OneOrTwo == {1, 2}
Two      == {2}

Quiet == [cuts |-> 0, faults |-> 0, deletes |-> 0, downloads |-> 0, hasty |-> 0]
Rough == [cuts |-> 1, faults |-> 1, deletes |-> 1, downloads |-> 1, hasty |-> 0]
Hasty == [Rough EXCEPT !.cuts = 0, !.faults = 0, !.hasty = 1]
NoSync  == [syncs |-> 0, lost |-> 0]
OneSync == [syncs |-> 1, lost |-> 1]

DeviceBudgets == {Quiet, Rough, Hasty}
SyncBudgets   == {NoSync, OneSync}
JustQuiet     == {Quiet}
JustOneSync   == {OneSync}
=============================================================================
