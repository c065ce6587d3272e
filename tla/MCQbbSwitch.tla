---------------------------- MODULE MCQbbSwitch ----------------------------
(* One switch with three devices.  Flows f1 (in on a) and f2 (in on b)     *)
(* share a VFID, f3 (in on a) has its own; all leave on c, towards another *)
(* switch that sends pause frames.  ACKs leave on a.  The upstream queues  *)
(* 3 and 5 share a bloom filter index, as host queues i and i + 1024 do.   *)
(* The memory of a is zeroed; that of b holds a counter that two marks wrap *)
(* and a bit nobody set, that of c the pauses of a frame nobody sent.      *)
EXTENDS QbbSwitchFifo

CONSTANTS a, b, c, f1, f2, f3

MCDev == {a, b, c}
MCNode == [d \in MCDev |-> "switch"]
MCFlows == {f1, f2, f3}
MCVfid == [f \in MCFlows |-> IF f = f3 THEN 2 ELSE 1]
MCRoute == [f \in MCFlows |-> [d \in MCDev |-> IF d = c THEN a ELSE c]]
MCOffered == { [flow |-> f1, in |-> a, prev |-> 3],
               [flow |-> f2, in |-> b, prev |-> 3],
               [flow |-> f3, in |-> a, prev |-> 5] }
MCOdd == {ix \in Bloom : ix % 2 = 1}      \* none where there is one bit
MCBloom0 == [d \in MCDev |-> IF d = b THEN MCOdd ELSE {}]
MCReceived0 == [d \in MCDev |-> IF d = c THEN MCOdd ELSE {}]
MCCounter0 ==
  [d \in MCDev |-> [ix \in Bloom |-> IF d = b /\ ix = BloomLen - 1 THEN CounterMod - 2 ELSE 0]]
MCPfcFrom == {c}
MCAckOut == {a}
=============================================================================
