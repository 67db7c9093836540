----------------------------- MODULE MCRdmaRpc -----------------------------
(* Model-checking instance of RdmaRpc; the constants are in the cfg files. *)
EXTENDS RdmaRpc, TLC
=============================================================================
