---------------------------- MODULE MCProvision ----------------------------
(* Small instances of Provision.                                            *)
EXTENDS Provision
=============================================================================
