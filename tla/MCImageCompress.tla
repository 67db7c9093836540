-------------------------- MODULE MCImageCompress --------------------------
\* A layer that ends inside or at the end of a segment, and an empty one.
EXTENDS ImageCompress

MCSize == [l \in LayerFiles |-> IF l = "a" THEN 3 ELSE 0]
=============================================================================
