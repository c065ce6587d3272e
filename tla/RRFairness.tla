----------------------------- MODULE RRFairness -----------------------------
(***************************************************************************)
(* BEgressQueue with a history variable that counts how often a queue that *)
(* could have been served was passed over, to state what round robin owes  *)
(* every queue.                                                            *)
(***************************************************************************)
EXTENDS BEgressQueue

(* The constructor leaves active_queues_arr as it finds it; from here on   *)
(* the memory is taken to be zero.                                         *)
ASSUME ZeroedAssumption == InitArr = {{}}

VARIABLE bypass  \* bypass[q][r]: services of r since q was last served or ineligible

fvars == <<vars, bypass>>

DataQueues == Queues \ Strict

FInit == Init /\ bypass = [q \in DataQueues |-> [r \in DataQueues |-> 0]]

(* A service of a data queue c passes over every other queue that holds a  *)
(* packet and is not paused.  A queue served, empty or paused starts anew.  *)
Passing(c, paused) ==
  bypass' = [q \in DataQueues |-> [r \in DataQueues |->
              IF q = c \/ q \notin activeArr \ paused THEN 0
              ELSE IF r = c THEN bypass[q][r] + 1 ELSE bypass[q][r]]]

FDequeue(paused) ==
  /\ DequeueRR(paused)
  /\ IF Chosen(paused) \in Strict THEN UNCHANGED bypass
                                  ELSE Passing(Chosen(paused), paused)

FNext ==
  \/ \E p \in Packets, q \in Queues : (Enqueue(p, q) \/ EnqueueFails(p, q)) /\ UNCHANGED bypass
  \/ \E paused \in SUBSET Queues : FDequeue(paused)
  \/ \E paused \in SUBSET Queues : DequeueNone(paused) /\ UNCHANGED bypass

FSpec == FInit /\ [][FNext]_fvars

(* Round robin is fair over any mix of packets, sizes and pauses: while a  *)
(* queue stays eligible, no other data queue is served twice before it.    *)
BoundedBypass ==
  \A q, r \in DataQueues : bypass[q][r] <= 1
=============================================================================
