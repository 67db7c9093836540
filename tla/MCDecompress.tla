---------------------------- MODULE MCDecompress ----------------------------
(* Model-checking instance of Decompress; the constants are in the cfg. *)
EXTENDS Decompress, TLC
=============================================================================
