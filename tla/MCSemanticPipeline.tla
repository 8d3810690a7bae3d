------------------------- MODULE MCSemanticPipeline -------------------------
(* Instance of SemanticPipeline for TLC: the second body has more chunks    *)
(* than the first.                                                          *)
EXTENDS SemanticPipeline

MCChunks == [b \in 1..2 |-> b]
=============================================================================
