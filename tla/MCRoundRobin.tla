---------------------------- MODULE MCRoundRobin ----------------------------
(* A small queue for TLC: three data queues over two 2-bit words, so that  *)
(* the scan crosses a word boundary and wraps, and packets of two sizes.   *)
EXTENDS RRFairness

MCSize == [p \in Packets |-> IF p = "big" THEN 2 ELSE 1]
MCZeroed == {{}}
=============================================================================
