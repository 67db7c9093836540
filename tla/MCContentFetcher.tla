-------------------------- MODULE MCContentFetcher --------------------------
(* Two images that share a layer; layers of four, two and one segments. *)
EXTENDS ContentFetcher, TLC

CONSTANTS img1, img2, la, lb, lc

MCImages == {img1, img2}
MCLayers == {la, lb, lc}
MCImageLayers == (img1 :> <<la, lb>>) @@ (img2 :> <<lb, lc>>)
MCSegs == (la :> 4) @@ (lb :> 2) @@ (lc :> 1)
=============================================================================
