----------------------------- MODULE MCTransfer -----------------------------
(***************************************************************************)
(* Instances of Transfer for TLC.                                           *)
(***************************************************************************)
EXTENDS Transfer

BothLinks == {"UDP", "BLE"}
OneLink   == {"UDP"}
FromStart == {0}
FromLast  == {MaxFile}
=============================================================================
