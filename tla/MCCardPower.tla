---------------------------- MODULE MCCardPower ----------------------------
(***************************************************************************)
(* What happens in the instances of CardPower for TLC.                       *)
(***************************************************************************)
EXTENDS CardPower

Nothing == [starts |-> 0, lists |-> 0, downloads |-> 0, formats |-> 0,
            usbs |-> 0, faults |-> 0]
Records == [Nothing EXCEPT !.starts = 2, !.lists = 2, !.downloads = 2, !.faults = 1]
Hosts   == [Nothing EXCEPT !.usbs = 2, !.lists = 2, !.downloads = 1]
Formats == [Nothing EXCEPT !.formats = 2, !.lists = 1, !.faults = 1]

PunctualUses == {Records, Hosts, Formats}
JustRecords  == {Records}
=============================================================================
