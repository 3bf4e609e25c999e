-------------------------- MODULE MCRemoteForwards --------------------------
(* Small instances of RemoteForwards.                                       *)
EXTENDS RemoteForwards

TwoPorts == {1, 2}
=============================================================================
