------------------------------- MODULE QbbNic -------------------------------
(***************************************************************************)
(* A host of the BFC network: QbbNetDevice with node type 0 (point-to-      *)
(* point/model/qbb-net-device.cc) under UdpClient, sending flows to the     *)
(* receiving side of other hosts.  A flow gets a queue of its own from its  *)
(* first packet to its last ACK; the queue can be paused by the switch and  *)
(* held back by a window; a copy of every unacknowledged packet is kept for *)
(* retransmission.  The receiver takes packets in order, acknowledges every *)
(* so often and answers a gap with a NACK.                                  *)
(*                                                                         *)
(* The network between them delivers in order per flow, and may lose: the   *)
(* receive error model of any device on the path drops packets and ACKs.    *)
(***************************************************************************)
EXTENDS Integers, Sequences, FiniteSets, RoundRobin

CONSTANTS
  Flow,      \* flows, told apart by source port and priority group
  Packets,   \* [Flow -> packets]: m_count of the flow's client
  Queues,    \* available_sending_queues: 1 .. fCnt - 1
  Keys,      \* available_receiving_queues of the receiving side
  BufCap,    \* packets a sending buffer keeps (8000)
  Pace,      \* a client waits while its queue holds more packets than this
  BloomLen,  \* bloom_filter_length
  PauseSets, \* the snapshots the switch may send
  Configs,   \* the attribute settings of a simulation
  MaxFlight, \* bound: packets, and answers, of one flow in the network
  MaxLoss,   \* bound: packets and answers lost
  Idle,      \* m_txMachineState READY
  None       \* no entry in a map

(* The constructor fills window[] before the attributes are set: window is  *)
(* what FixedWindowSize held then, any number, and not its configured value.*)
Config == [window : Nat, enable : BOOLEAN,   \* window[], EnableWindow
           ack : Nat, chunk : Nat \ {0},     \* L2AckInterval, L2ChunkSize
           back0 : BOOLEAN, test : BOOLEAN]  \* L2BackToZero, L2TestRead

ASSUME NicAssumption ==
  /\ IsFiniteSet(Flow)
  /\ Packets \in [Flow -> Nat \ {0}]
  /\ Queues \subseteq Nat \ {0} /\ IsFiniteSet(Queues) /\ None \notin Queues
  /\ Keys \subseteq Nat /\ IsFiniteSet(Keys) /\ None \notin Keys
  /\ Cardinality(Flow) =< Cardinality(Keys)
  /\ BufCap \in Nat \ {0} /\ Pace \in Nat /\ Pace < BufCap
  /\ BloomLen \in Nat \ {0}
  /\ Configs \subseteq Config
  /\ MaxFlight \in Nat \ {0} /\ MaxLoss \in Nat

Packet == [flow : Flow, seq : Nat]
Answer == [kind : {"ack", "nack"}, seq : Nat]

ASSUME NicSentinels == Idle \notin Packet /\ PauseSets \subseteq SUBSET (0 .. BloomLen - 1)

VARIABLES
  conf,      \* the attributes, set before the simulation starts
  sent,      \* m_sent of a flow's client
  owner,     \* queue_index_map: the queue of a flow
  free,      \* available_sending_queues
  queue,     \* m_queues
  active,    \* active_queues
  rrlast,    \* m_rrlast
  buf,       \* m_sendingBuffer: the sequence numbers it holds
  acked,     \* m_acked
  cur,       \* curr_seq
  lastseq,   \* m_lastseq
  ended,     \* m_available_queue: the client has sent its last packet
  paused,    \* paused_map
  tx,        \* m_currentPkt
  key,       \* receiver_index_map: the receiver's entry of a flow
  entry,     \* ReceiverNextExpectedSeq, m_milestone_rx and m_lastNACK
  wire,      \* packets under way, by flow
  answers,   \* ACKs and NACKs under way, by flow
  lost,      \* how many of either were lost
  got        \* packets received in order, counted at the receiver

port == <<queue, active, rrlast, cur, tx>>
flows == <<sent, owner, free, buf, acked, lastseq, ended>>
receiver == <<key, entry, got>>
network == <<wire, answers, lost>>
vars == <<conf, port, flows, paused, receiver, network>>

(* A fresh entry; -1 is the unsigned m_lastNACK no packet has.             *)
FreshEntry == [expected |-> 0, milestone |-> conf.ack, lastNack |-> -1]

Init ==
  /\ conf \in Configs
  /\ sent = [f \in Flow |-> 0]
  /\ owner = [f \in Flow |-> None]
  /\ free \in {p \in [1 .. Cardinality(Queues) -> Queues] :      \* shuffled
                 \A i, j \in DOMAIN p : p[i] = p[j] => i = j}
  /\ queue = [i \in Queues |-> <<>>]
  /\ active = {}
  /\ rrlast = 0
  /\ buf = [i \in Queues |-> <<>>]
  /\ acked = [i \in Queues |-> 0]
  /\ cur = [i \in Queues |-> 0]
  /\ lastseq = [i \in Queues |-> 0]
  /\ ended = [i \in Queues |-> TRUE]
  /\ paused = {}
  /\ tx = Idle
  /\ key = [f \in Flow |-> None]
  /\ entry = [k \in Keys |-> FreshEntry]
  /\ wire = [f \in Flow |-> <<>>]
  /\ answers = [f \in Flow |-> <<>>]
  /\ lost = 0
  /\ got = [f \in Flow |-> 0]

-----------------------------------------------------------------------------
(* Transmission *)

Admits(i, c, a) == conf.enable => c[i] < conf.window + a[i]

(* curr_seq follows the head of a queue, when the window is enabled.       *)
FollowNothing(c, q, i) == c                            \* deviation: curr_seq is not kept
FollowHead(c, q, i) ==
  IF conf.enable /\ q[i] # <<>> THEN [c EXCEPT ![i] = Head(q[i]).seq] ELSE c

DeactivatedBefore(act, q, i) == act                    \* deviation: tested before the dequeue
Deactivated(act, q, i) == IF q[i] = <<>> THEN act \ {i} ELSE act

(* DequeueQCN and TransmitStart, on queues q with active set act, curr_seq *)
(* c, acknowledgements a and pauses p.  Queues are served round robin.     *)
Transmit(q, act, c, a, p) ==
  LET ready == {i \in act \ p : Admits(i, c, a)}
      i     == SetScan(ready, rrlast)
      rest  == [q EXCEPT ![i] = Tail(@)]
  IN  \/ /\ ready = {}
         /\ queue' = q /\ active' = act /\ cur' = c /\ tx' = Idle
         /\ UNCHANGED rrlast
      \/ /\ ready # {}
         /\ queue' = rest
         /\ active' = Deactivated(act, rest, i)
         /\ rrlast' = i
         /\ cur' = FollowHead(c, rest, i)
         /\ tx' = Head(q[i])

DequeueAndTransmit(q, act, c, a, p) ==
  \/ tx = Idle /\ Transmit(q, act, c, a, p)
  \/ /\ tx # Idle
     /\ queue' = q /\ active' = act /\ cur' = c
     /\ UNCHANGED <<rrlast, tx>>

(* The packet is on the link; the device takes the next one.               *)
TransmitComplete ==
  /\ tx # Idle
  /\ Len(wire[tx.flow]) < MaxFlight
  /\ wire' = [wire EXCEPT ![tx.flow] = Append(@, tx.seq)]
  /\ Transmit(queue, active, cur, acked, paused)
  /\ UNCHANGED <<conf, flows, paused, receiver, answers, lost>>

(* An idle device that found nothing to send looks again every microsecond.*)
Poll ==
  /\ tx = Idle
  /\ Transmit(queue, active, cur, acked, paused)
  /\ UNCHANGED <<conf, flows, paused, receiver, network>>

-----------------------------------------------------------------------------
(* The client *)

UsedBuffer(f) == IF owner[f] = None THEN 0 ELSE Len(queue[owner[f]])

(* Enqueue makes a queue active only when its byte count becomes the       *)
(* packet's own size, that is, when the queue was empty.                   *)
Activated(q, i) == IF Len(q[i]) = 1 THEN active \cup {i} ELSE active

Kept(b) == IF Len(b) = BufCap THEN Tail(b) ELSE b

(* Send of the client's next packet on queue i, and FlowFinished in the    *)
(* same event when it was the last one.                                    *)
SendOn(i, f, c, a, e) ==
  LET q    == [queue EXCEPT ![i] = Append(@, [flow |-> f, seq |-> sent[f]])]
      last == sent[f] + 1 = Packets[f]
  IN  /\ buf' = [buf EXCEPT ![i] = Append(Kept(@), sent[f])]
      /\ acked' = a
      /\ ended' = IF last THEN [e EXCEPT ![i] = TRUE] ELSE e
      /\ lastseq' = IF last THEN [lastseq EXCEPT ![i] = Packets[f]] ELSE lastseq
      /\ sent' = [sent EXCEPT ![f] = @ + 1]
      /\ DequeueAndTransmit(q, Activated(q, i), FollowHead(c, q, i), a, paused)

(* The first packet of a flow takes a queue.  A simulation that runs out   *)
(* of them uses an index it never set; the model stops before that.        *)
FirstSend(f) ==
  /\ owner[f] = None
  /\ free # <<>>
  /\ LET i == Head(free) IN
     /\ free' = Tail(free)
     /\ owner' = [owner EXCEPT ![f] = i]
     /\ SendOn(i, f, [cur EXCEPT ![i] = 0], [acked EXCEPT ![i] = 0],
                     [ended EXCEPT ![i] = FALSE])

FurtherSend(f) ==
  /\ owner[f] # None
  /\ SendOn(owner[f], f, cur, acked, ended)
  /\ UNCHANGED <<owner, free>>

ClientSendOneMore(f) ==                                \* deviation: m_sent =< m_allowed
  /\ sent[f] =< Packets[f]
  /\ UsedBuffer(f) =< Pace
  /\ FirstSend(f) \/ FurtherSend(f)
  /\ UNCHANGED <<conf, paused, receiver, network>>

ClientSend(f) ==
  /\ sent[f] < Packets[f]
  /\ UsedBuffer(f) =< Pace
  /\ FirstSend(f) \/ FurtherSend(f)
  /\ UNCHANGED <<conf, paused, receiver, network>>

-----------------------------------------------------------------------------
(* What a host receives for the flows it sends *)

(* The frame overwrites received_bloom_filter, which the constructor leaves *)
(* unset and nothing else of a host reads, before paused_map is drawn from  *)
(* it: bits stands for it.  A queue without a flow is never paused.         *)
ReceivePfc(bits) ==
  LET p == {i \in Queues : (\E f \in Flow : owner[f] = i) /\ i % BloomLen \in bits}
  IN  /\ paused' = p
      /\ DequeueAndTransmit(queue, active, cur, acked, p)
      /\ UNCHANGED <<conf, flows, receiver, network>>

ChunkStart(s) == (s \div conf.chunk) * conf.chunk
GoBack(s) == IF conf.back0 THEN ChunkStart(s) ELSE s

(* The sending buffer without its leading packets before s.                *)
TrimThrough(b, s) ==                                   \* deviation: s itself goes too
  LET kept == {j \in 1 .. Len(b) : b[j] > s}
  IN  IF kept = {} THEN <<>> ELSE SubSeq(b, Min(kept), Len(b))

Trim(b, s) ==
  LET kept == {j \in 1 .. Len(b) : b[j] >= s}
  IN  IF kept = {} THEN <<>> ELSE SubSeq(b, Min(kept), Len(b))

Answered(f, kind) ==
  /\ answers[f] # <<>>
  /\ Head(answers[f]).kind = kind
  /\ answers' = [answers EXCEPT ![f] = Tail(@)]
  /\ UNCHANGED <<conf, paused, receiver, wire, lost, sent>>

(* RecoverQueue refills the flow's queue from the buffer.  The active set  *)
(* is left as it was, and no transmission is started.                      *)
Recover(f, i, b) ==
  /\ buf' = [buf EXCEPT ![i] = b]
  /\ LET q == [queue EXCEPT ![i] = [j \in 1 .. Len(b) |-> [flow |-> f, seq |-> b[j]]]]
     IN  queue' = q /\ cur' = FollowHead(cur, q, i)
  /\ UNCHANGED <<active, rrlast, tx, owner, free, acked, lastseq, ended>>

ReceiveNack(f) ==
  /\ Answered(f, "nack")
  /\ \/ owner[f] = None /\ UNCHANGED <<port, flows>>
     \/ /\ owner[f] # None
        /\ Recover(f, owner[f], Trim(buf[owner[f]], GoBack(Head(answers[f]).seq)))

(* The last ACK gives the queue back; what the queue still holds stays.    *)
ReleaseUnerased(f, i) ==                               \* deviation: queue_index_map keeps it
  /\ buf' = [buf EXCEPT ![i] = <<>>]
  /\ free' = Append(free, i)
  /\ UNCHANGED owner

Release(f, i) ==
  /\ owner' = [owner EXCEPT ![f] = None]
  /\ buf' = [buf EXCEPT ![i] = <<>>]
  /\ free' = Append(free, i)

AcknowledgeAsNack(f, i, s) ==                          \* deviation: the queue is refilled too
  /\ acked' = [acked EXCEPT ![i] = s]
  /\ LET b == Trim(buf[i], GoBack(s)) IN
     IF s >= lastseq[i] /\ ended[i]
       THEN Release(f, i) /\ UNCHANGED port
       ELSE /\ buf' = [buf EXCEPT ![i] = b]
            /\ queue' = [queue EXCEPT ![i] = [j \in 1 .. Len(b) |-> [flow |-> f, seq |-> b[j]]]]
            /\ UNCHANGED <<owner, free, active, cur, rrlast, tx>>
  /\ UNCHANGED <<lastseq, ended>>

AcknowledgeHasty(f, i, s) ==                           \* deviation: m_available_queue not asked
  /\ acked' = [acked EXCEPT ![i] = s]
  /\ IF s >= lastseq[i]
       THEN Release(f, i)
       ELSE buf' = [buf EXCEPT ![i] = Trim(@, GoBack(s))] /\ UNCHANGED <<owner, free>>
  /\ UNCHANGED <<port, lastseq, ended>>

Acknowledge(f, i, s) ==
  /\ acked' = [acked EXCEPT ![i] = s]
  /\ \/ /\ buf[i] = <<>> \/ conf.ack = 0
        /\ UNCHANGED <<owner, buf, free>>
     \/ /\ buf[i] # <<>> /\ conf.ack # 0
        /\ IF s >= lastseq[i] /\ ended[i]
             THEN Release(f, i)
             ELSE /\ buf' = [buf EXCEPT ![i] = Trim(@, GoBack(s))]
                  /\ UNCHANGED <<owner, free>>
  /\ UNCHANGED <<port, lastseq, ended>>

ReceiveAck(f) ==
  /\ Answered(f, "ack")
  /\ \/ owner[f] = None /\ UNCHANGED <<port, flows>>
     \/ owner[f] # None /\ Acknowledge(f, owner[f], Head(answers[f]).seq)

-----------------------------------------------------------------------------
(* The receiver: Receive of a data packet and ReceiverCheckSeq *)

NewKey == Min(Keys \ {key[g] : g \in Flow})
KeyOf(f) == IF key[f] = None THEN NewKey ELSE key[f]
EntryOf(f) == IF key[f] = None THEN FreshEntry ELSE entry[key[f]]

Reply(f, kind, s) ==
  answers' = [answers EXCEPT ![f] = Append(@, [kind |-> kind, seq |-> s])]

Remember(f, e) ==
  /\ key' = [key EXCEPT ![f] = KeyOf(f)]
  /\ entry' = [entry EXCEPT ![KeyOf(f)] = e]

(* The packet with sequence number EndSeq - 1 frees the receiver's entry.  *)
LastKept(f, s) ==                                      \* deviation: the entry stays in the map
  /\ s = Packets[f] - 1
  /\ Remember(f, [EntryOf(f) EXCEPT !.expected = Packets[f] + 1])
  /\ Reply(f, "ack", Packets[f] + 1)

LastWithoutAck(f, s) ==                                \* deviation: no ACK off the milestones
  /\ s = Packets[f] - 1
  /\ key' = [key EXCEPT ![f] = None]
  /\ entry' = [entry EXCEPT ![KeyOf(f)] = [EntryOf(f) EXCEPT !.expected = Packets[f] + 1]]
  /\ IF s + 1 > EntryOf(f).milestone
       THEN Reply(f, "ack", Packets[f] + 1) ELSE UNCHANGED answers

LastInOrder(f, s) ==
  /\ s = Packets[f] - 1
  /\ key' = [key EXCEPT ![f] = None]
  /\ entry' = [entry EXCEPT ![KeyOf(f)] = [EntryOf(f) EXCEPT !.expected = Packets[f] + 1]]
  /\ Reply(f, "ack", Packets[f] + 1)

InOrder(f, s) ==
  LET e    == [EntryOf(f) EXCEPT !.expected = s + 1]
      past == s + 1 > e.milestone
  IN  /\ s # Packets[f] - 1
      /\ Remember(f, IF past THEN [e EXCEPT !.milestone = @ + conf.ack] ELSE e)
      /\ IF past \/ (s + 1) % conf.chunk = 0
           THEN Reply(f, "ack", s + 1) ELSE UNCHANGED answers

(* A gap: one NACK, and another one for the same packet only when the      *)
(* NACK timer has run out.  The branch begins with NS_ASSERT(false), so a   *)
(* build with assertions stops here, and what it does is a prefix of this;  *)
(* NACKs, and going back, are of builds without them.                       *)
Gap(f) ==
  LET e    == EntryOf(f)
      back == IF conf.back0 /\ ~conf.test THEN ChunkStart(e.expected) ELSE e.expected
  IN  \/ /\ Remember(f, [e EXCEPT !.lastNack = e.expected, !.expected = back])
         /\ Reply(f, "nack", back)
      \/ /\ e.lastNack = e.expected
         /\ Remember(f, e)
         /\ UNCHANGED answers

ReceiveData(f) ==
  LET s == Head(wire[f])
      x == EntryOf(f).expected
  IN  /\ wire[f] # <<>>
      /\ Len(answers[f]) < MaxFlight
      /\ wire' = [wire EXCEPT ![f] = Tail(@)]
      /\ \/ s = x /\ (LastInOrder(f, s) \/ InOrder(f, s))
         \/ s > x /\ Gap(f)
         \/ s < x /\ Remember(f, EntryOf(f)) /\ UNCHANGED answers
      /\ got' = IF s = x /\ s = got[f] THEN [got EXCEPT ![f] = s + 1] ELSE got
      /\ UNCHANGED <<conf, port, flows, paused, lost>>

-----------------------------------------------------------------------------
(* The receive error model of a device on the path drops the packet.       *)

LoseData(f) ==
  /\ wire[f] # <<>> /\ lost < MaxLoss
  /\ wire' = [wire EXCEPT ![f] = Tail(@)]
  /\ lost' = lost + 1
  /\ UNCHANGED <<conf, port, flows, paused, receiver, answers>>

LoseAnswer(f) ==
  /\ answers[f] # <<>> /\ lost < MaxLoss
  /\ answers' = [answers EXCEPT ![f] = Tail(@)]
  /\ lost' = lost + 1
  /\ UNCHANGED <<conf, port, flows, paused, receiver, wire>>

Scheduled ==
  \/ \E f \in Flow : ClientSend(f) \/ ReceiveData(f) \/ ReceiveAck(f) \/ ReceiveNack(f)
  \/ TransmitComplete \/ Poll

Next ==
  \/ Scheduled
  \/ \E bits \in PauseSets : ReceivePfc(bits)
  \/ \E f \in Flow : LoseData(f) \/ LoseAnswer(f)

Spec == Init /\ [][Next]_vars

(* The simulator runs every event that is scheduled: the client's next     *)
(* Send, the end of a transmission, a poll, a delivery.  The switch sends   *)
(* a snapshot every microsecond or so; that one is empty in the end is the  *)
(* switch's part.                                                           *)
Fairness == WF_vars(Scheduled) /\ WF_vars(ReceivePfc({}))

FairSpec == Spec /\ Fairness

-----------------------------------------------------------------------------
Owned == {owner[f] : f \in Flow} \ {None}
InBuffer(i) == {buf[i][j] : j \in DOMAIN buf[i]}

TypeOK ==
  /\ conf \in Configs
  /\ sent \in [Flow -> Nat] /\ \A f \in Flow : sent[f] =< Packets[f]
  /\ owner \in [Flow -> Queues \cup {None}]
  /\ free \in Seq(Queues)
  /\ queue \in [Queues -> Seq(Packet)]
  /\ active \subseteq Queues
  /\ rrlast \in Queues \cup {0}
  /\ buf \in [Queues -> Seq(Nat)]
  /\ acked \in [Queues -> Nat] /\ cur \in [Queues -> Nat] /\ lastseq \in [Queues -> Nat]
  /\ ended \in [Queues -> BOOLEAN]
  /\ paused \subseteq Queues
  /\ tx \in Packet \cup {Idle}
  /\ key \in [Flow -> Keys \cup {None}]
  /\ entry \in [Keys -> [expected : Nat, milestone : Nat, lastNack : Int]]
  /\ wire \in [Flow -> Seq(Nat)]
  /\ answers \in [Flow -> Seq(Answer)]
  /\ lost \in 0 .. MaxLoss
  /\ got \in [Flow -> Nat]

(* Every sending queue is either free, once, or owned by exactly one flow, *)
(* through any sequence of allocations and final ACKs; two flows never     *)
(* share a receiver entry.                                                 *)
QueuesConserved ==
  /\ \A f, g \in Flow : f # g /\ owner[f] # None => owner[f] # owner[g]
  /\ \A i, j \in DOMAIN free : free[i] = free[j] => i = j
  /\ \A i \in DOMAIN free : free[i] \notin Owned
  /\ Len(free) + Cardinality(Owned) = Cardinality(Queues)
  /\ \A f, g \in Flow : f # g /\ key[f] # None => key[f] # key[g]

(* DoDequeueQCN takes the head of a queue of the active set without looking *)
(* whether there is one (it asserts that there is): no NACK may empty an    *)
(* active queue.                                                            *)
ActiveHoldsPacket == \A i \in active : queue[i] # <<>>

(* Whatever the receiver of an unfinished flow still needs can be sent      *)
(* again: it is in the sending buffer, unless more than BufCap packets have *)
(* been sent since.                                                         *)
UnreceivedIsBuffered ==
  \A f \in Flow :
    owner[f] # None /\ got[f] < Packets[f] =>
      \A s \in EntryOf(f).expected .. sent[f] - 1 :
        s >= sent[f] - BufCap => s \in InBuffer(owner[f])

(* A receiver's entry is given back with the last packet for good: no late  *)
(* duplicate of a finished flow opens another, which nothing would close.   *)
EntryFreed == \A f \in Flow : got[f] = Packets[f] => key[f] = None

(* While nothing has been lost, the packets between client and receiver are *)
(* the ones sent and not yet received, in order: nothing is retransmitted,  *)
(* and a queue never holds a packet of an earlier flow.                     *)
InTransitExact ==
  lost = 0 => \A f \in Flow :
    LET q  == IF owner[f] = None THEN <<>> ELSE queue[owner[f]]
        t  == IF tx # Idle /\ tx.flow = f THEN <<tx.seq>> ELSE <<>>
        on == wire[f] \o t \o [j \in DOMAIN q |-> q[j].seq]
    IN  /\ on = [j \in 1 .. sent[f] - got[f] |-> got[f] + j - 1]
        /\ \A j \in DOMAIN q : q[j].flow = f

(* With the window enabled no packet leaves that is a window or more ahead  *)
(* of the last acknowledgement its queue has had, retransmissions included. *)
WindowObeyed ==
  [][tx' # tx /\ tx' # Idle /\ conf.enable => tx'.seq < conf.window + acked[rrlast']]_vars

(* A flow keeps its queue until the receiver has every packet of it, and    *)
(* never takes a second one.                                                *)
Delivery == INSTANCE FlowDelivery
  WITH Size <- Packets, received <- got, open <- {f \in Flow : owner[f] # None}
DeliverySpec == Delivery!Spec

(* Without losses every flow is received and gives its queue back, if ACKs  *)
(* are on and one is due within each window: at every chunk-th packet, or   *)
(* at the packet past the interval.  Without one the window closes on an    *)
(* unfinished flow for good.                                                *)
Finished(f) == sent[f] = Packets[f] /\ got[f] = Packets[f] /\ owner[f] = None
AcksWithinWindow(c) == c.enable => c.window >= c.chunk \/ c.window > c.ack
AllFinish ==
  conf.ack > 0 /\ AcksWithinWindow(conf) =>
    <>(lost > 0 \/ \A f \in Flow : Finished(f))

(* What RecoverQueue is called for ("recover queue and preserve buffer"):   *)
(* the packets a NACK puts back in the flow's queue are sent again, in a    *)
(* build that gets past the gap's assertion.                                *)
RecoveredAreSent == \A i \in Queues : queue[i] # <<>> ~> queue[i] = <<>>
=============================================================================
