------------------------- MODULE BroadcomAdmission -------------------------
(***************************************************************************)
(* The buffer accounting of a switch (network/model/broadcom-node.cc):      *)
(* Send charges every data packet to counters of its incoming and outgoing *)
(* port, DequeueAndTransmit takes the charge back.  Both admission checks   *)
(* return true, so nothing is refused.                                     *)
(*                                                                         *)
(* An egress queue has two counters, guaranteed (QMin) and shared bytes.    *)
(* All counters are unsigned and wrap; the sums the code forms wrap too.   *)
(***************************************************************************)
EXTENDS Integers, Sequences, FiniteSets, FiniteSetsExt

CONSTANTS
  Port,       \* ports of the switch
  Queue,      \* physical queues for data: 3 .. qCnt - 3
  Traffic,    \* <<input port, output port, queue>> of the packets the switch gets
  Sizes,      \* packet sizes
  Guarantee,  \* m_q_min_cell, and the 1030 of the patch
  SpLimit,    \* m_buffer_cell_limit_sp
  Wrap,       \* 2^32: the unsigned counters are kept modulo Wrap
  MaxHeld     \* bound: packets the switch holds

ASSUME AdmissionAssumption ==
  /\ IsFiniteSet(Port) /\ IsFiniteSet(Queue)
  /\ Traffic \subseteq {t \in Port \X Port \X Queue : t[1] # t[2]}
  /\ Sizes \subseteq Nat \ {0} /\ Sizes # {}
  /\ Guarantee \in Nat /\ SpLimit \in Nat /\ MaxHeld \in Nat
  /\ Wrap \in Nat
  /\ \A n \in Sizes : n < Guarantee /\ MaxHeld * n + 2 * Guarantee < Wrap

VARIABLES
  fifo,      \* fifo[o][q]: the packets charged to queue q of port o, in their order
  total,     \* m_usedTotalBytes
  inPort,    \* m_usedIngressPortBytes
  inPG,      \* m_usedIngressPGBytes
  inOut,     \* m_usedIngressBytes, by output port, input port and queue
  inSP,      \* m_usedIngressSPBytes[0], the pool of every queue but queue 1
  headroom,  \* m_usedIngressPGHeadroomBytes
  qMin,      \* m_usedEgressQMinBytes
  qShared,   \* m_usedEgressQSharedBytes
  outPort,   \* m_usedEgressPortBytes
  outSP      \* m_usedEgressSPBytes[0]

ingress == <<total, inPort, inPG, inOut, inSP, headroom>>
egress == <<qMin, qShared, outPort, outSP>>
vars == <<fifo, ingress, egress>>

Packet == [in : Port, size : Sizes]

MinusUnwrapped(x, n) == x - n                          \* deviation: a signed counter
Plus(x, n) == (x + n) % Wrap
Minus(x, n) == (x - n) % Wrap

Held == SumFunction([t \in Port \X Queue |-> Len(fifo[t[1]][t[2]])])

Init ==
  /\ fifo = [o \in Port |-> [q \in Queue |-> <<>>]]
  /\ total = 0 /\ inSP = 0 /\ outSP = 0
  /\ inPort = [i \in Port |-> 0] /\ outPort = [o \in Port |-> 0]
  /\ inPG = [i \in Port |-> [q \in Queue |-> 0]]
  /\ headroom = [i \in Port |-> [q \in Queue |-> 0]]
  /\ inOut = [o \in Port |-> [i \in Port |-> [q \in Queue |-> 0]]]
  /\ qMin = [o \in Port |-> [q \in Queue |-> 0]]
  /\ qShared = [o \in Port |-> [q \in Queue |-> 0]]

(* Charges of a packet that came in on i, goes out on o and waits in q. *)
UpdateIngressAdmission(i, q, n, o) ==
  /\ total' = Plus(total, n)
  /\ inSP' = Plus(inSP, n)
  /\ inPort' = [inPort EXCEPT ![i] = Plus(@, n)]
  /\ inPG' = [inPG EXCEPT ![i][q] = Plus(@, n)]
  /\ inOut' = [inOut EXCEPT ![o][i][q] = @ + n]
  /\ headroom' = [headroom EXCEPT ![i][q] = IF inSP' > SpLimit THEN Plus(@, n) ELSE @]

HeadroomUnclamped(h, n) == Minus(h, n)                  \* deviation: charged back unconditionally
HeadroomLess(h, n) == IF h - n > 0 THEN h - n ELSE 0

RemoveFromIngressOfOut(i, q, n, o) ==                  \* deviation: the ports are swapped
  /\ total' = Minus(total, n)
  /\ inSP' = Minus(inSP, n)
  /\ inPort' = [inPort EXCEPT ![o] = Minus(@, n)]
  /\ inPG' = [inPG EXCEPT ![i][q] = Minus(@, n)]
  /\ inOut' = [inOut EXCEPT ![o][i][q] = @ - n]
  /\ headroom' = [headroom EXCEPT ![i][q] = HeadroomLess(@, n)]

RemoveFromIngressAdmission(i, q, n, o) ==
  /\ total' = Minus(total, n)
  /\ inSP' = Minus(inSP, n)
  /\ inPort' = [inPort EXCEPT ![i] = Minus(@, n)]
  /\ inPG' = [inPG EXCEPT ![i][q] = Minus(@, n)]
  /\ inOut' = [inOut EXCEPT ![o][i][q] = @ - n]
  /\ headroom' = [headroom EXCEPT ![i][q] = HeadroomLess(@, n)]

(* An egress queue's two counters become min and shared; the port's and    *)
(* the pool's follow the shared one.                                       *)
Split(o, q, min, shared) ==
  /\ qMin' = [qMin EXCEPT ![o][q] = min]
  /\ qShared' = [qShared EXCEPT ![o][q] = shared]
  /\ outPort' = [outPort EXCEPT ![o] = Plus(@, shared - qShared[o][q])]
  /\ outSP' = Plus(outSP, shared - qShared[o][q])

(* The patch for packets of different sizes fills the guarantee up from    *)
(* the shared bytes once these exceed it.                                  *)
FillWhole(o, q, min, shared) ==                        \* deviation: what min held is lost
  IF min < Guarantee /\ shared > Guarantee
  THEN Split(o, q, Guarantee, Minus(shared, Guarantee))
  ELSE Split(o, q, min, shared)

Fill(o, q, min, shared) ==
  IF min < Guarantee /\ shared > Guarantee
  THEN Split(o, q, Guarantee, Plus(Minus(shared, Guarantee), min))
  ELSE Split(o, q, min, shared)

UpdateEgressAdmission(o, q, n) ==
  IF Plus(qMin[o][q], n) < Guarantee
  THEN Split(o, q, Plus(qMin[o][q], n), qShared[o][q])
  ELSE Fill(o, q, qMin[o][q], Plus(qShared[o][q], n))

RemoveWhileShared(o, q, n) ==                          \* deviation: any shared byte pays for the packet
  IF qShared[o][q] > 0
  THEN Split(o, q, qMin[o][q], Minus(qShared[o][q], n))
  ELSE Fill(o, q, Minus(qMin[o][q], n), qShared[o][q])

RemoveFromEgressAdmission(o, q, n) ==
  IF qShared[o][q] >= n
  THEN Split(o, q, qMin[o][q], Minus(qShared[o][q], n))
  ELSE Fill(o, q, Minus(qMin[o][q], n), qShared[o][q])

-----------------------------------------------------------------------------
(* Send: the checks pass, the packet is charged and queued. *)
Admit(i, o, q, n) ==
  /\ Held < MaxHeld
  /\ UpdateIngressAdmission(i, q, n, o)
  /\ UpdateEgressAdmission(o, q, n)
  /\ fifo' = [fifo EXCEPT ![o][q] = Append(@, [in |-> i, size |-> n])]

(* DequeueAndTransmit of a data packet. *)
Release(o, q) ==
  /\ fifo[o][q] # <<>>
  /\ LET p == Head(fifo[o][q]) IN
       /\ RemoveFromIngressAdmission(p.in, q, p.size, o)
       /\ RemoveFromEgressAdmission(o, q, p.size)
  /\ fifo' = [fifo EXCEPT ![o][q] = Tail(@)]

Next ==
  \/ \E t \in Traffic, n \in Sizes : Admit(t[1], t[2], t[3], n)
  \/ \E o \in Port, q \in Queue : Release(o, q)

Spec == Init /\ [][Next]_vars
-----------------------------------------------------------------------------
Counter == 0 .. Wrap - 1

TypeOK ==
  /\ fifo \in [Port -> [Queue -> Seq(Packet)]]
  /\ total \in Counter /\ inSP \in Counter /\ outSP \in Counter
  /\ inPort \in [Port -> Counter] /\ outPort \in [Port -> Counter]
  /\ inPG \in [Port -> [Queue -> Counter]] /\ headroom \in [Port -> [Queue -> Counter]]
  /\ inOut \in [Port -> [Port -> [Queue -> Int]]]
  /\ qMin \in [Port -> [Queue -> Counter]] /\ qShared \in [Port -> [Queue -> Counter]]

(* Bytes of the packets of queue q of port o that came in on a port of I. *)
Bytes(o, q, I) ==
  LET s == fifo[o][q]
  IN  SumFunction([j \in 1 .. Len(s) |-> IF s[j].in \in I THEN s[j].size ELSE 0])

SumBytes(O, Q, I) == SumFunction([t \in O \X Q |-> Bytes(t[1], t[2], I)])

(* Every ingress counter is the number of bytes the switch holds of that   *)
(* port, of that port and queue, of that pair of ports; none wraps.        *)
IngressExact ==
  /\ total = SumBytes(Port, Queue, Port) /\ inSP = total
  /\ \A i \in Port :
       /\ inPort[i] = SumBytes(Port, Queue, {i})
       /\ \A q \in Queue :
            /\ inPG[i][q] = SumBytes(Port, {q}, {i})
            /\ \A o \in Port : inOut[o][i][q] = Bytes(o, q, {i})

(* Headroom is charged packet by packet while the pool is over its limit   *)
(* and charged back for packets that never used it; even so a port and     *)
(* queue never has more of it than bytes, and none when it holds none.     *)
HeadroomCovered == \A i \in Port, q \in Queue : headroom[i][q] <= inPG[i][q]

(* The two counters of an egress queue add up, modulo Wrap, to the bytes   *)
(* in it, whatever the patch moved between them.                           *)
EgressExact ==
  \A o \in Port, q \in Queue : (qMin[o][q] + qShared[o][q]) % Wrap = Bytes(o, q, Port)

(* A packet is charged back to one counter though the patch may have split *)
(* its charge, so QMin does fall below zero and wraps: but by less than    *)
(* one packet, after which the shared counter covers every packet left.    *)
(* Hence shared bytes overstate the queue by less than one packet.         *)
WrapsByLessThanAPacket ==
  \A o \in Port, q \in Queue :
    /\ qMin[o][q] <= Guarantee \/ Wrap - qMin[o][q] < Max(Sizes)
    /\ qShared[o][q] < Bytes(o, q, Port) + Max(Sizes)
=============================================================================
