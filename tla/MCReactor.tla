----------------------------- MODULE MCReactor -----------------------------
(* Model-checking instance of Reactor; the constants are in the cfg. *)
EXTENDS Reactor, TLC
=============================================================================
