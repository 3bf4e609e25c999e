------------------------------ MODULE MCBridge ------------------------------
(* Small instances of Bridge.                                               *)
EXTENDS Bridge
=============================================================================
