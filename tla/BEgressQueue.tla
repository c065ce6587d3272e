---------------------------- MODULE BEgressQueue ----------------------------
(***************************************************************************)
(* The multi-queue of a switch port (network/utils/broadcom-egress-queue): *)
(* NQ FIFO queues with byte counts, the active set kept twice (an ordered  *)
(* set and a bitmap), two strict-priority queues and round robin over the  *)
(* rest.  The caller of DequeueRR passes the paused bitmap; here it is any *)
(* subset of the queues.                                                   *)
(***************************************************************************)
EXTENDS Naturals, Sequences, FiniteSets, Functions, RoundRobin

CONSTANTS
  NQ,        \* qCnt: number of queues of a switch port
  W,         \* bits per word of the active and paused bitmaps (64 in the code)
  Packets,   \* packets offered to the queue
  Size,      \* bytes of each packet
  MaxBytes,  \* m_maxBytes
  InitArr    \* contents active_queues_arr may have when the queue is constructed

ASSUME QueueAssumption ==
  /\ NQ \in Nat /\ NQ > 2
  /\ W \in Nat /\ W > 0
  /\ Size \in [Packets -> Nat \ {0}]
  /\ MaxBytes \in Nat
  /\ InitArr \subseteq SUBSET (0 .. NQ - 1)

Queues == 0 .. NQ - 1
TopQ == NQ - 1       \* PFC, ACK, NACK: served first
SecondQ == NQ - 2    \* served next, and never held back by a pause
Strict == {TopQ, SecondQ}

VARIABLES
  queue,      \* m_queues[q]: the packets of each queue, oldest first
  bytes,      \* m_bytesInQueue[q]
  total,      \* m_bytesInQueueTotal (m_nBytes moves with it)
  nPackets,   \* m_nPackets
  activeSet,  \* active_queues
  activeArr,  \* active_queues_arr, as the set of its 1 bits
  rrlast,     \* m_rrlast
  qlast       \* m_qlast, read by GetLastQueue after a dequeue

vars == <<queue, bytes, total, nPackets, activeSet, activeArr, rrlast, qlast>>

-----------------------------------------------------------------------------
(* The constructor clears everything but active_queues_arr and m_qlast.    *)
Init ==
  /\ queue = [q \in Queues |-> <<>>]
  /\ bytes = [q \in Queues |-> 0]
  /\ total = 0
  /\ nPackets = 0
  /\ activeSet = {}
  /\ activeArr \in InitArr
  /\ rrlast = 0
  /\ qlast \in Queues

(* DoEnqueue accepts a packet while the total stays below m_maxBytes.       *)
Accepts(p) == total + Size[p] < MaxBytes

(* Enqueue marks the queue active when the packet is its only content,     *)
(* which it tells from the byte count.                                     *)
ActivatedBefore(S, p, q) == IF bytes[q] = Size[p] THEN S \cup {q} ELSE S  \* deviation: count read too early
Activated(S, p, q) == IF bytes[q] + Size[p] = Size[p] THEN S \cup {q} ELSE S

EnqueueUncounted(p, q) ==                              \* deviation: no m_nPackets++
  /\ Accepts(p)
  /\ queue' = [queue EXCEPT ![q] = Append(@, p)]
  /\ bytes' = [bytes EXCEPT ![q] = @ + Size[p]]
  /\ total' = total + Size[p]
  /\ activeSet' = Activated(activeSet, p, q)
  /\ activeArr' = Activated(activeArr, p, q)
  /\ UNCHANGED <<nPackets, rrlast, qlast>>

Enqueue(p, q) ==
  /\ Accepts(p)
  /\ queue' = [queue EXCEPT ![q] = Append(@, p)]
  /\ bytes' = [bytes EXCEPT ![q] = @ + Size[p]]
  /\ total' = total + Size[p]
  /\ nPackets' = nPackets + 1
  /\ activeSet' = Activated(activeSet, p, q)
  /\ activeArr' = Activated(activeArr, p, q)
  /\ UNCHANGED <<rrlast, qlast>>

(* Full: DoEnqueue returns false and the packet is gone.                   *)
EnqueueFails(p, q) ==
  /\ ~ Accepts(p)
  /\ UNCHANGED vars

(* DoDequeueRR has a queue to serve under this pause bitmap ...             *)
Sendable(paused) ==
  /\ total > 0
  /\ \/ \E q \in Strict : queue[q] # <<>>
     \/ activeSet # {} /\ activeArr \ paused # {}

(* ... and this is the queue.                                               *)
ChosenUnpaused(paused) ==                              \* deviation: the bitmap is not masked
  CASE queue[TopQ] # <<>>    -> TopQ
    [] queue[TopQ] = <<>> /\ queue[SecondQ] # <<>> -> SecondQ
    [] OTHER -> WordScan(activeArr, rrlast, W)

Chosen(paused) ==
  CASE queue[TopQ] # <<>>    -> TopQ
    [] queue[TopQ] = <<>> /\ queue[SecondQ] # <<>> -> SecondQ
    [] OTHER -> WordScan(activeArr \ paused, rrlast, W)

LeftOfTotal(q) == total - Size[Head(queue[q])]         \* deviation: the wrong counter
Left(q) == bytes[q] - Size[Head(queue[q])]

DeactivatedBefore(S, q) == IF bytes[q] = 0 THEN S \ {q} ELSE S  \* deviation: count read too early
Deactivated(S, q) == IF Left(q) = 0 THEN S \ {q} ELSE S

DequeueRR(paused) ==
  /\ Sendable(paused)
  /\ LET q == Chosen(paused)
     IN  /\ bytes[q] > 0                       \* NS_ASSERT
         /\ queue' = [queue EXCEPT ![q] = Tail(@)]
         /\ bytes' = [bytes EXCEPT ![q] = Left(q)]
         /\ total' = total - Size[Head(queue[q])]
         /\ nPackets' = nPackets - 1
         /\ rrlast' = IF q \in Strict THEN rrlast ELSE q
         /\ qlast' = q
         /\ activeSet' = Deactivated(activeSet, q)
         /\ activeArr' = Deactivated(activeArr, q)

(* Nothing may be sent: DequeueRR returns 0 and changes nothing.           *)
DequeueNone(paused) ==
  /\ ~ Sendable(paused)
  /\ UNCHANGED vars

Next ==
  \/ \E p \in Packets, q \in Queues : Enqueue(p, q) \/ EnqueueFails(p, q)
  \/ \E paused \in SUBSET Queues : DequeueRR(paused) \/ DequeueNone(paused)

Spec == Init /\ [][Next]_vars
-----------------------------------------------------------------------------
TypeOK ==
  /\ queue \in [Queues -> Seq(Packets)]
  /\ bytes \in [Queues -> Nat]
  /\ total \in Nat
  /\ nPackets \in Nat
  /\ activeSet \subseteq Queues
  /\ activeArr \subseteq Queues
  /\ rrlast \in Queues
  /\ qlast \in Queues

(* The active set, its bitmap and the byte counts agree on which queues    *)
(* hold packets: Enqueue and DoDequeueRR maintain the two copies by a byte *)
(* count compared with one packet's size.                                  *)
ActiveExact ==
  \A q \in Queues : /\ q \in activeArr <=> q \in activeSet
                    /\ q \in activeSet <=> queue[q] # <<>>
                    /\ queue[q] # <<>> <=> bytes[q] > 0

(* m_bytesInQueue[q] is the size of the packets queued, and                *)
(* m_bytesInQueueTotal, which decides whether DequeueRR looks at all, is   *)
(* the sum over the queues; m_nPackets counts the packets.                 *)
BytesOf(s) == SumFunction([j \in 1 .. Len(s) |-> Size[s[j]]])

BytesExact ==
  /\ \A q \in Queues : bytes[q] = BytesOf(queue[q])
  /\ total = SumFunction(bytes)
  /\ nPackets = SumFunction([q \in Queues |-> Len(queue[q])])

(* NS_ASSERT(GetNBytes(qIndex)>0) in DoDequeueRR: whatever is paused, the  *)
(* queue that round robin picks holds a packet.                            *)
ServedQueueHoldsPacket ==
  \A paused \in SUBSET Queues : Sendable(paused) => bytes[Chosen(paused)] > 0

(* DequeueRR returns nothing only when nothing may go: an unpaused queue   *)
(* with a packet is always found by the two word loops, and a paused data  *)
(* queue is never served.                                                  *)
WorkConserving ==
  \A paused \in SUBSET Queues :
    LET eligible == {q \in Queues : queue[q] # <<>> /\ (q \in Strict \/ q \notin paused)}
    IN  /\ Sendable(paused) <=> eligible # {}
        /\ eligible # {} => Chosen(paused) \in eligible
=============================================================================
