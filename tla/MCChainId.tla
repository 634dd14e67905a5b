----------------------------- MODULE MCChainId -----------------------------
(* Instances of ChainId for TLC.                                            *)
EXTENDS ChainId

CONSTANTS x1, x2, x3, n1, n2

FromBoth   == [x \in Call |-> IF x = x1 THEN n1 ELSE NoNode]
=============================================================================
