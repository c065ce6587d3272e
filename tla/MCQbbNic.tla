------------------------------ MODULE MCQbbNic ------------------------------
(* Flows of different lengths over two sending queues, so that a queue is   *)
(* used again while its other user is still sending.                        *)
EXTENDS QbbNic

CONSTANTS f1, f2, f3

MCFlow == {f1, f2, f3}
MCPackets == [f \in MCFlow |-> IF f = f1 THEN 4 ELSE 1]
MCPauseSets == {{}, {1}}
Plain == [window |-> 1, enable |-> FALSE, ack |-> 2, chunk |-> 4, back0 |-> FALSE, test |-> FALSE]
Windowed(w, a, c) == [Plain EXCEPT !.enable = TRUE, !.window = w, !.ack = a, !.chunk = c]

(* An ACK is due within the window by the chunk, by the interval, and by    *)
(* neither, where a flow longer than the window stalls.                     *)
MCConfigs == { Plain,
               [Windowed(3, 2, 2) EXCEPT !.back0 = TRUE],
               Windowed(1, 2, 1),
               Windowed(3, 2, 4),
               Windowed(2, 2, 4) }

(* One flow, one loss, no window.                                           *)
OneFlow == {f1}
OnePackets == [f \in OneFlow |-> 3]
OneConfig == {Plain}
=============================================================================
