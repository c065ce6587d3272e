--------------------------- MODULE MCUninitialised ---------------------------
(* The egress queue as the constructor leaves it: any bitmap.              *)
EXTENDS BEgressQueue

MCSize == [p \in Packets |-> 1]
MCAnyBitmap == SUBSET Queues
=============================================================================
