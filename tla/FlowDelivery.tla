---------------------------- MODULE FlowDelivery ----------------------------
(***************************************************************************)
(* What a host promises for the flows it sends: a flow is open from its     *)
(* first packet until every packet of it has been received, it is closed    *)
(* only then, and it is never opened again.                                 *)
(***************************************************************************)
EXTENDS Naturals

CONSTANTS Flow, Size    \* the flows, and the packets each of them has

VARIABLES sent, received, open

dvars == <<sent, received, open>>

Init ==
  /\ sent = [f \in Flow |-> 0]
  /\ received = [f \in Flow |-> 0]
  /\ open = {}

(* The client hands over the next packet; the first one opens the flow.    *)
Offer(f) ==
  /\ sent[f] < Size[f]
  /\ f \in open \/ sent[f] = 0
  /\ sent' = [sent EXCEPT ![f] = @ + 1]
  /\ open' = open \cup {f}
  /\ UNCHANGED received

(* Packets are received in order, each counted once.                       *)
Deliver(f) ==
  /\ received[f] < sent[f]
  /\ received' = [received EXCEPT ![f] = @ + 1]
  /\ UNCHANGED <<sent, open>>

Close(f) ==
  /\ f \in open
  /\ received[f] = Size[f]
  /\ open' = open \ {f}
  /\ UNCHANGED <<sent, received>>

Next == \E f \in Flow : Offer(f) \/ Deliver(f) \/ Close(f)

Spec == Init /\ [][Next]_dvars
=============================================================================
