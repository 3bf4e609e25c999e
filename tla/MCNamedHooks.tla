---------------------------- MODULE MCNamedHooks ----------------------------
(* A small instance of NamedHooks.                                          *)
EXTENDS NamedHooks
=============================================================================
