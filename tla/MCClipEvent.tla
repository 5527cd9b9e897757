----------------------------- MODULE MCClipEvent -----------------------------
(***************************************************************************)
(* Instances of ClipEvent for TLC.                                          *)
(***************************************************************************)
EXTENDS ClipEvent

AllCommands == {"START", "STOP", "PAUSE", "RESUME", "WIFI_ON", "WIFI_OFF"}
StartStop   == {"START", "STOP"}
=============================================================================
