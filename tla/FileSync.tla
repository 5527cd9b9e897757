------------------------------ MODULE FileSync ------------------------------
(***************************************************************************)
(* What a session transfer promises, whatever carries it: the client gets   *)
(* the files in order, the device counts a file as synced only when the     *)
(* client has it, so the count is always a point to resume from             *)
(* (docs/protocol.md, "Resume transfer from next file after synced count"). *)
(***************************************************************************)
EXTENDS Naturals

CONSTANT NFiles

VARIABLES
    saved,   \* the files the client keeps, complete
    synced   \* the device's count

Init == saved = {} /\ synced = 0

\* The client completes the file being sent
Save ==
    /\ synced < NFiles
    /\ saved' = saved \union {synced + 1}
    /\ UNCHANGED synced

\* The device learns of it
Confirm ==
    /\ synced + 1 \in saved
    /\ synced' = synced + 1
    /\ UNCHANGED saved

Next == Save \/ Confirm

Spec == Init /\ [][Next]_<<saved, synced>>
=============================================================================
