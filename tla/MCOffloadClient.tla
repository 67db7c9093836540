-------------------------- MODULE MCOffloadClient --------------------------
(***************************************************************************)
(* Instances of OffloadClient.  In the first, two CLIs pull one image one  *)
(* after the other, a third another image, a fourth one without metadata   *)
(* and a fifth one whose request does not fit; in the second, three CLIs   *)
(* pull good images and two of them may pull the same at the same time.    *)
(***************************************************************************)
EXTENDS OffloadClient, TLC

MCClis == {"c1", "c2", "c3", "c4", "c5"}
MCWant == [c \in MCClis |-> CASE c \in {"c1", "c2"} -> "a" [] c = "c3" -> "b"
                              [] c = "c4" -> "bad" [] c = "c5" -> "big"]
MCNumLayers == [i \in Images |-> IF i = "a" THEN 2 ELSE 1]

FewClis == {"c1", "c2", "c3"}
FewWant == [c \in FewClis |-> IF c = "c3" THEN "b" ELSE "a"]
=============================================================================
