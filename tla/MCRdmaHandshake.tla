-------------------------- MODULE MCRdmaHandshake --------------------------
(* Model-checking instance of RdmaHandshake; the constants are in the cfg. *)
EXTENDS RdmaHandshake, TLC
=============================================================================
