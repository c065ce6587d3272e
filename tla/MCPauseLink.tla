---------------------------- MODULE MCPauseLink ----------------------------
(* Two switches.  Packets of two flows enter the first on a1, leave it on   *)
(* b1, arrive at the second on a2 and leave it on c2, where the snapshots   *)
(* delay them enough for a queue to build up.  The memory of a2 is zeroed,  *)
(* as resuming needs it; b1 starts with a pause nobody sent and a1 with a     *)
(* counter and a bit that were never set.                                   *)
EXTENDS PauseLink

CONSTANTS a1, b1, a2, c2, f1, f2

MCDev == {a1, b1, a2, c2}
MCNode == [d \in MCDev |-> IF d \in {a1, b1} THEN "s1" ELSE "s2"]
MCFlows == {f1, f2}
MCVfid == [f \in MCFlows |-> IF f = f1 THEN 1 ELSE 2]
MCRoute == [f \in MCFlows |->
             [d \in MCDev |-> IF d = a1 THEN b1 ELSE IF d = c2 THEN a2 ELSE IF d = a2 THEN c2 ELSE a1]]
MCOffered == {[flow |-> f, in |-> a1, prev |-> 3] : f \in MCFlows}
MCArrivals == [j \in 1 .. 3 |-> [flow |-> IF j = 3 THEN f2 ELSE f1, in |-> a1, prev |-> 3]]
MCBloom0 == [d \in MCDev |-> IF d = a1 THEN {0} ELSE {}]
MCCounter0 == [d \in MCDev |-> [ix \in Bloom |-> IF d = a1 THEN CounterMod - 1 ELSE 0]]
MCReceived0 == [d \in MCDev |-> IF d = b1 THEN {0} ELSE {}]
MCJoined == {b1, a2}
MCMaxLink == [d \in MCJoined |-> 1]
MCPeer == [d \in MCJoined |-> IF d = b1 THEN a2 ELSE b1]
=============================================================================
