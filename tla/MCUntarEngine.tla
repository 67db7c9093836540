--------------------------- MODULE MCUntarEngine ---------------------------
(***************************************************************************)
(* Instances of UntarEngine.  In the first, a layer of two segments is     *)
(* pulled twice, by two images one after the other, while layers of one    *)
(* and of two segments are pulled once; two threads, so that the third     *)
(* layer waits.  In the second, the layer of one segment is pulled twice.  *)
(***************************************************************************)
EXTENDS UntarEngine, TLC

MCPulls == {"a1", "a2", "b1", "c1"}
MCLayerOf == [p \in MCPulls |-> CASE p = "b1" -> "b" [] p = "c1" -> "c"
                                  [] OTHER -> "a"]
MCSegs == [p \in MCPulls |-> CASE p = "b1" -> 1 [] OTHER -> 2]

RepullPulls == {"a1", "b1", "b2"}
RepullLayerOf == [p \in RepullPulls |-> IF p = "a1" THEN "a" ELSE "b"]
RepullSegs == [p \in RepullPulls |-> IF p = "a1" THEN 2 ELSE 1]
=============================================================================
