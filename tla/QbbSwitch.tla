------------------------------ MODULE QbbSwitch ------------------------------
(***************************************************************************)
(* A BFC switch: QbbNetDevice with node type 1 (point-to-point/model/       *)
(* qbb-net-device.cc) over BroadcomNode's central flow table.  A packet     *)
(* that comes in on one device is queued on another, in the physical queue  *)
(* its virtual flow (VFID) holds; when that queue is overloaded the packet  *)
(* is marked, and the incoming device pauses the upstream queue the packet  *)
(* came from until the last marked packet of that queue has left.           *)
(*                                                                         *)
(* The simulator runs one event at a time, so a handler and everything it   *)
(* calls is one action.  Operators from a state record to a state record    *)
(* stand for the methods; the actions compose them as the handlers do.      *)
(***************************************************************************)
EXTENDS Integers, Sequences, FiniteSets, RoundRobin

CONSTANTS
  Dev,        \* the devices (ports) of the switches
  Node,       \* [Dev -> switches]: the node a device is installed on
  Flows,      \* flows, told apart by source, source port and EndSeq
  Vfid,       \* [Flows -> hash value]: GethqCnt without the output device
  Route,      \* [Flows -> [Dev -> Dev]]: output device by input device
  DataQ,      \* physical queues for data: 3 .. qCnt - 3
  W,          \* bits per word of the queue bitmaps
  PrevQ,      \* queues upstream devices may have sent a packet from
  Offered,    \* the packets upstream devices may send
  PfcFrom,    \* devices whose neighbour is a switch (a host never sends a pause frame)
  AckOut,     \* devices ACKs and NACKs of the flows leave on
  BloomLen,   \* bloom_filter_length
  CounterMod, \* bloom_filter_counter wraps at this value (2^16)
  Bloom0, Counter0, Received0,
              \* what a device's memory holds in bloom_filter, bloom_filter_counter and
              \* received_bloom_filter when it is created: no constructor sets them
  Threshold,  \* pause threshold of a queue that has the link to itself, in packets
  MaxQueue,   \* bound: packets in one physical queue
  MaxCtl,     \* bound: control packets waiting on a device
  Idle        \* m_txMachineState READY; otherwise tx is the item on the wire

Vfids == {Vfid[f] : f \in Flows}
Bloom == 0 .. BloomLen - 1
Unassigned == 0    \* physicalQ of a table entry never used

ASSUME SwitchAssumption ==
  /\ IsFiniteSet(Dev)
  /\ Route \in [Flows -> [Dev -> Dev]]
  /\ \A f \in Flows, d \in Dev : Route[f][d] # d
  /\ DataQ \subseteq Nat /\ IsFiniteSet(DataQ) /\ DataQ # {} /\ Unassigned \notin DataQ
  /\ W \in Nat /\ W > 0
  /\ PrevQ \subseteq Nat
  /\ BloomLen \in Nat /\ BloomLen > 0
  /\ Threshold \in Nat /\ MaxQueue \in Nat /\ MaxCtl \in Nat
  /\ CounterMod \in Nat
  /\ MaxQueue * Cardinality(Dev \X DataQ) < CounterMod

Packet == [flow : Flows, in : Dev, prev : PrevQ]   \* in: the FlowIdTag; prev: the header's queue
PfcFrame == [pause : SUBSET Bloom]                 \* protocol 0xFE: a bloom filter snapshot
Transit == [ack : {"ack"}]                         \* an ACK or NACK, or data under 100 bytes
Control == PfcFrame \cup Transit
Data == [flow : Flows, q : DataQ]                  \* a data packet on the wire, header rewritten

ASSUME MemoryAssumption ==
  /\ Bloom0 \in [Dev -> SUBSET Bloom] /\ Received0 \in [Dev -> SUBSET Bloom]
  /\ Counter0 \in [Dev -> [Bloom -> 0 .. CounterMod - 1]]

ASSUME EnvironmentAssumption ==
  Offered \subseteq Packet /\ PfcFrom \subseteq Dev /\ AckOut \subseteq Dev
ASSUME IdleAssumption == Idle \notin Control \cup Data

VARIABLES
  queue,     \* queue[o][q]: m_queues of device o
  heads,     \* heads[o][q]: egress_physicalQ_head_virtualQ_Index, TRUE for a value >= 100000
  active,    \* active_queues and active_queues_arr, data queues only
  rrlast,    \* m_rrlast
  paused,    \* paused_map
  received,  \* received_bloom_filter: what the downstream neighbour asked for
  bloom,     \* bloom_filter: what this device asks its neighbour to pause
  counter,   \* bloom_filter_counter
  size,      \* central_entry_array[vfid, o].size
  phys,      \* central_entry_array[vfid, o].physicalQ
  ctl,       \* queue qCnt - 1: control packets, served first
  tx         \* m_txMachineState and m_currentPkt

vars == <<queue, heads, active, rrlast, paused, received, bloom, counter, size, phys, ctl, tx>>

Now == [queue |-> queue, heads |-> heads, active |-> active, rrlast |-> rrlast,
        paused |-> paused, received |-> received, bloom |-> bloom, counter |-> counter,
        size |-> size, phys |-> phys, ctl |-> ctl, tx |-> tx]

Become(s) ==
  /\ queue' = s.queue       /\ heads' = s.heads     /\ active' = s.active
  /\ rrlast' = s.rrlast     /\ paused' = s.paused   /\ received' = s.received
  /\ bloom' = s.bloom       /\ counter' = s.counter /\ size' = s.size
  /\ phys' = s.phys         /\ ctl' = s.ctl         /\ tx' = s.tx

-----------------------------------------------------------------------------
(* Control packets *)

(* Send of a control packet frame[d] on each device d of D: it joins the   *)
(* control queue, and DequeueAndTransmit puts the head of that queue on    *)
(* the wire at once when the device is READY.                              *)
SendControl(s, D, frame) ==
  LET waiting == [d \in D |-> Append(s.ctl[d], frame[d])]
      goes(d) == d \in D /\ s.tx[d] = Idle
  IN  [s EXCEPT !.ctl = [d \in Dev |-> IF goes(d) THEN Tail(waiting[d])
                                       ELSE IF d \in D THEN waiting[d] ELSE s.ctl[d]],
                !.tx  = [d \in Dev |-> IF goes(d) THEN Head(waiting[d]) ELSE s.tx[d]]]

(* SendPauseFrame: a snapshot of the whole bloom filter.                   *)
SendPauseFrames(s, D) == SendControl(s, D, [d \in D |-> [pause |-> s.bloom[d]]])

-----------------------------------------------------------------------------
(* Pausing the upstream queue *)

Index(prev) == prev % BloomLen

UpdatePauseQueue(s, d, ix) ==
  [s EXCEPT !.bloom[d]       = IF s.counter[d][ix] = 0 THEN @ \cup {ix} ELSE @,
            !.counter[d][ix] = (@ + 1) % CounterMod]

(* The last marked packet of an upstream queue: clear its bit and tell the *)
(* neighbour at once.                                                      *)
ResumeBeforeClear(s, d, ix) ==                         \* deviation: the frame is built too early
  LET last == s.counter[d][ix] = 1
      s1   == IF last THEN SendPauseFrames(s, {d}) ELSE s
  IN  [s1 EXCEPT !.bloom[d]       = IF last THEN @ \ {ix} ELSE @,
                 !.counter[d][ix] = (@ - 1) % CounterMod]

ResumeWithoutClearing(s, d, ix) ==                     \* deviation: the bit is not cleared
  LET s1 == [s EXCEPT !.counter[d][ix] = (@ - 1) % CounterMod]
  IN  IF s.counter[d][ix] = 1 THEN SendPauseFrames(s1, {d}) ELSE s1

UpdateResumeQueue(s, d, ix) ==
  LET last == s.counter[d][ix] = 1
      s1   == [s EXCEPT !.bloom[d]       = IF last THEN @ \ {ix} ELSE @,
                        !.counter[d][ix] = (@ - 1) % CounterMod]
  IN  IF last THEN SendPauseFrames(s1, {d}) ELSE s1

(* UpdatePauseState: the threshold is shared among the queues that could   *)
(* send now.                                                               *)
UsedQueues(s, o) ==
  LET n == Cardinality(s.active[o] \ s.paused[o]) IN IF n = 0 THEN 1 ELSE n

Overloaded(s, o, q) == Len(s.queue[o][q]) * UsedQueues(s, o) > Threshold

PausedByBit(bits) == bits                              \* deviation: a bit taken for a queue
PausedBy(bits) == {q \in DataQ : Index(q) \in bits}

UpdatePausedPhysicalQ(s, o, q) ==
  [s EXCEPT !.paused[o] = IF Index(q) \in s.received[o] THEN @ \cup {q} ELSE @ \ {q}]

-----------------------------------------------------------------------------
(* Transmission *)

(* DoDequeueRR and the bookkeeping of DequeueAndTransmit for a data queue. *)
DequeueMarkKept(s, o, q) ==                            \* deviation: the mark is not popped
  [s EXCEPT !.queue[o][q] = Tail(@),
            !.rrlast[o]   = q,
            !.active[o]   = IF Tail(s.queue[o][q]) = <<>> THEN @ \ {q} ELSE @,
            !.size[Vfid[Head(s.queue[o][q]).flow]][o] = @ - 1,
            !.tx[o]       = [flow |-> Head(s.queue[o][q]).flow, q |-> q]]

DequeueData(s, o, q) ==
  [s EXCEPT !.queue[o][q] = Tail(@),
            !.heads[o][q] = Tail(@),
            !.rrlast[o]   = q,
            !.active[o]   = IF Tail(s.queue[o][q]) = <<>> THEN @ \ {q} ELSE @,
            !.size[Vfid[Head(s.queue[o][q]).flow]][o] = @ - 1,
            !.tx[o]       = [flow |-> Head(s.queue[o][q]).flow, q |-> q]]

NextQueue(s, o) == WordScan(s.active[o] \ s.paused[o], s.rrlast[o], W)

(* A marked packet releases its upstream queue, whatever the load is now.  *)
TransmitWhenCalm(s, o) ==                              \* deviation: resume by load, not by mark
  LET q  == NextQueue(s, o)
      p  == Head(s.queue[o][q])
      s1 == UpdatePausedPhysicalQ(DequeueData(s, o, q), o, q)
  IN  IF ~ Overloaded(s1, o, q) THEN UpdateResumeQueue(s1, p.in, Index(p.prev)) ELSE s1

TransmitData(s, o) ==
  LET q  == NextQueue(s, o)
      p  == Head(s.queue[o][q])
      s1 == UpdatePausedPhysicalQ(DequeueData(s, o, q), o, q)
  IN  IF Head(s.heads[o][q]) THEN UpdateResumeQueue(s1, p.in, Index(p.prev)) ELSE s1

TransmitControl(s, o) ==
  [s EXCEPT !.ctl[o] = Tail(@), !.tx[o] = Head(s.ctl[o])]

CanSendData(s, o) == s.active[o] \ s.paused[o] # {}

DequeueAndTransmit(s, o) ==
  CASE s.tx[o] = Idle /\ s.ctl[o] # <<>> -> TransmitControl(s, o)
    [] s.tx[o] = Idle /\ s.ctl[o] = <<>> /\ CanSendData(s, o) -> TransmitData(s, o)
    [] OTHER -> s

-----------------------------------------------------------------------------
(* Admission of a data packet *)

(* Assign_hqCnt_qCnt: a random empty queue that is not paused, or any.     *)
AssignChoices(s, o) ==
  LET free == {q \in DataQ : s.queue[o][q] = <<>> /\ q \notin s.paused[o]}
  IN  IF free = {} THEN DataQ ELSE free

(* GetCentralArrayIndex: the queues the VFID may be in after the lookup.   *)
(* An entry without packets that was not touched for 6 us is reassigned;   *)
(* whether it was is left open, except that the first packet is (traffic   *)
(* starts at 1 s and last_time at 0).                                      *)
PlacementsAnew(s, v, o) ==                             \* deviation: moved with packets queued
  AssignChoices(s, o) \cup ({s.phys[v][o]} \ {Unassigned})

Placements(s, v, o) ==
  IF s.size[v][o] > 0 THEN {s.phys[v][o]}
  ELSE AssignChoices(s, o) \cup ({s.phys[v][o]} \ {Unassigned})

EnqueueData(s, p, o, q) ==
  [s EXCEPT !.phys[Vfid[p.flow]][o] = q,
            !.size[Vfid[p.flow]][o] = @ + 1,
            !.queue[o][q] = Append(@, p),
            !.active[o]   = IF s.queue[o][q] = <<>> THEN @ \cup {q} ELSE @]

(* The switch branch of Send up to the attempt to transmit.  A packet      *)
(* alone in its virtual queue is never marked.                             *)
AdmitData(s, p, o, q) ==
  LET s1   == EnqueueData(s, p, o, q)
      mark == s1.size[Vfid[p.flow]][o] > 1 /\ Overloaded(s1, o, q)
      s2   == IF mark THEN UpdatePauseQueue(s1, p.in, Index(p.prev)) ELSE s1
      s3   == [s2 EXCEPT !.heads[o][q] = Append(@, mark)]
  IN  UpdatePausedPhysicalQ(s3, o, q)

(* A data packet under 100 bytes goes to the control queue instead; see     *)
(* ForwardControl.                                                         *)
SendData(s, p, o, q) == DequeueAndTransmit(AdmitData(s, p, o, q), o)

-----------------------------------------------------------------------------
(* The constructor of a device clears paused_map, not the three filters.   *)
DeviceInit ==
  /\ queue    = [o \in Dev |-> [q \in DataQ |-> <<>>]]
  /\ heads    = [o \in Dev |-> [q \in DataQ |-> <<>>]]
  /\ active   = [o \in Dev |-> {}]
  /\ rrlast   = [o \in Dev |-> 0]
  /\ paused   = [o \in Dev |-> {}]
  /\ received = Received0
  /\ bloom    = Bloom0
  /\ counter  = Counter0
  /\ ctl      = [o \in Dev |-> <<>>]
  /\ tx       = [o \in Dev |-> Idle]

(* The constructor of a node.                                              *)
TableInit ==
  /\ size = [v \in Vfids |-> [o \in Dev |-> 0]]
  /\ phys = [v \in Vfids |-> [o \in Dev |-> Unassigned]]

Init == DeviceInit /\ TableInit

(* Bound: control packets, a fraction of a data packet's length and served *)
(* first, do not pile up behind it.  No periodic or transit packet joins   *)
(* MaxCtl waiting ones, and no data packet, whose departure may add a      *)
(* resume frame, leaves while more than MaxCtl wait somewhere.             *)
Paced == \A d \in Dev : Len(ctl[d]) <= MaxCtl

(* A data packet arrives on p.in and is forwarded.                         *)
ReceiveData(p) ==
  /\ Paced
  /\ LET o == Route[p.flow][p.in] IN
      \E q \in Placements(Now, Vfid[p.flow], o) :
        /\ Len(queue[o][q]) < MaxQueue
        /\ Become(SendData(Now, p, o, q))

(* A pause frame arrives: take its bits and look for something to send.    *)
ReceivePfcNoRestart(d, bits) ==                        \* deviation: no attempt to transmit
  /\ Paced
  /\ Become([Now EXCEPT !.received[d] = bits, !.paused[d] = PausedBy(bits)])

ReceivePfcLazily(d, bits) ==                           \* deviation: paused_map is not refreshed
  /\ Paced
  /\ Become(DequeueAndTransmit([Now EXCEPT !.received[d] = bits], d))

ReceivePfcSticky(d, bits) ==                           \* deviation: pauses are only added
  /\ Paced
  /\ Become(DequeueAndTransmit([Now EXCEPT !.received[d] = bits,
                                           !.paused[d]   = @ \cup PausedBy(bits)], d))

ReceivePfc(d, bits) ==
  /\ Paced
  /\ Become(DequeueAndTransmit([Now EXCEPT !.received[d] = bits,
                                           !.paused[d]   = PausedBy(bits)], d))

(* An ACK, a NACK or a data packet under 100 bytes is forwarded on o.      *)
ForwardControl(o) ==
  /\ Len(ctl[o]) < MaxCtl
  /\ Become(SendControl(Now, {o}, [d \in {o} |-> [ack |-> "ack"]]))

(* Every microsecond, on every device of a switch.                         *)
CheckAndSendPause(n) ==
  LET D == {d \in Dev : Node[d] = n}
  IN  /\ \A d \in D : Len(ctl[d]) < MaxCtl
      /\ Become(SendPauseFrames(Now, D))

TransmitComplete(o) ==
  /\ tx[o] # Idle
  /\ ctl[o] # <<>> \/ Paced
  /\ Become(DequeueAndTransmit([Now EXCEPT !.tx[o] = Idle], o))

(* m_nextSend: a device that found nothing to send looks again after 1 us. *)
Poll(o) ==
  /\ tx[o] = Idle
  /\ Become(DequeueAndTransmit(Now, o))

Next ==
  \/ \E p \in Offered : ReceiveData(p)
  \/ \E d \in PfcFrom, bits \in SUBSET Bloom : ReceivePfc(d, bits)
  \/ \E o \in AckOut : ForwardControl(o)
  \/ \E o \in Dev : TransmitComplete(o) \/ Poll(o)
  \/ \E n \in {Node[d] : d \in Dev} : CheckAndSendPause(n)

Spec == Init /\ [][Next]_vars
-----------------------------------------------------------------------------
(* Properties.  Those the proofs carry through the methods are stated of a *)
(* state record.                                                           *)

State ==
  [ queue    : [Dev -> [DataQ -> Seq(Packet)]],
    heads    : [Dev -> [DataQ -> Seq(BOOLEAN)]],
    active   : [Dev -> SUBSET DataQ],
    rrlast   : [Dev -> DataQ \cup {0}],
    paused   : [Dev -> SUBSET DataQ],
    received : [Dev -> SUBSET Bloom],
    bloom    : [Dev -> SUBSET Bloom],
    counter  : [Dev -> [Bloom -> Int]],
    size     : [Vfids -> [Dev -> Int]],
    phys     : [Vfids -> [Dev -> DataQ \cup {Unassigned}]],
    ctl      : [Dev -> Seq(Control)],
    tx       : [Dev -> Control \cup Data \cup {Idle}] ]

TypeOK == Now \in State

(* Positions of queued packets. *)
Slots(s) ==
  {t \in Dev \X DataQ \X (1 .. MaxQueue) : t[3] <= Len(s.queue[t[1]][t[2]])}

At(s, t) == s.queue[t[1]][t[2]][t[3]]

(* The marks FIFO of a physical queue, filled by Send and emptied by       *)
(* DequeueAndTransmit, stays in step with the packet FIFO BEgressQueue     *)
(* keeps (the assertion that it has one element left when the bytes reach  *)
(* zero), and the bitmap round robin scans names the nonempty queues.      *)
InStepOf(s) ==
  \A o \in Dev, q \in DataQ :
    /\ Len(s.heads[o][q]) = Len(s.queue[o][q])
    /\ q \in s.active[o] <=> s.queue[o][q] # <<>>
    /\ Len(s.queue[o][q]) <= MaxQueue

InStep == InStepOf(Now)

(* A flow table entry counts exactly the packets of its VFID queued on its *)
(* device, and all of them are in the one queue the entry names: an entry  *)
(* is never moved while it has packets, so a flow cannot overtake itself,  *)
(* and the decrement in DequeueAndTransmit never meets zero.               *)
EntrySlots(s, v, o) ==
  {t \in Slots(s) : t[1] = o /\ Vfid[At(s, t).flow] = v}

EntryExactOf(s) ==
  \A v \in Vfids, o \in Dev :
    /\ s.size[v][o] = Cardinality(EntrySlots(s, v, o))
    /\ \A t \in EntrySlots(s, v, o) : t[2] = s.phys[v][o]

EntryExact == EntryExactOf(Now)

(* A counter of device d has moved from what the memory held by the number *)
(* of marked packets still queued, on whatever device, that came in on d   *)
(* from an upstream queue with that index.  Where the memory held zeros, a *)
(* bit is set exactly while there is such a packet: no upstream queue      *)
(* stays paused for packets that have left, none is resumed too early, and *)
(* the 16-bit counter neither wraps nor underflows.                        *)
MarkedSlots(s, d, ix) ==
  {t \in Slots(s) : /\ s.heads[t[1]][t[2]][t[3]]
                    /\ At(s, t).in = d
                    /\ Index(At(s, t).prev) = ix}

Zeroed(d, ix) == Counter0[d][ix] = 0 /\ ix \notin Bloom0[d]

CounterExactOf(s) ==
  \A d \in Dev, ix \in Bloom :
    LET n == Cardinality(MarkedSlots(s, d, ix)) IN
      /\ s.counter[d][ix] = (Counter0[d][ix] + n) % CounterMod
      /\ Zeroed(d, ix) => (ix \in s.bloom[d] <=> n > 0)

CounterExact == CounterExactOf(Now)

(* A device is READY only when it has nothing it may send: every handler   *)
(* that adds a packet, lifts a pause or ends a transmission restarts it, so *)
(* the 1 us poll never finds work on a switch.                             *)
NoLostWakeupOf(s) ==
  \A o \in Dev : s.tx[o] = Idle => s.ctl[o] = <<>> /\ ~ CanSendData(s, o)

NoLostWakeup == NoLostWakeupOf(Now)

(* A data packet starts on the wire only from a queue that the newest       *)
(* pause frame of the downstream neighbour does not hold back.             *)
Starts(o, q) ==
  /\ tx'[o] \in Data /\ tx'[o].q = q
  /\ tx[o] = Idle \/ Len(queue'[o][q]) < Len(queue[o][q])

PauseObeyed ==
  [][\A o \in Dev, q \in DataQ : Starts(o, q) => Index(q) \notin received'[o]]_vars

(* When a device stops asking for a pause it says so in the same step: a   *)
(* frame without the bit is the newest on the wire or in its queue.        *)
NewestControl(c, t) == IF c = <<>> THEN t ELSE c[Len(c)]

ResumeAnnounced ==
  [][\A d \in Dev : \A ix \in bloom[d] \ bloom'[d] :
       LET f == NewestControl(ctl'[d], tx'[d]) IN f \in PfcFrame /\ ix \notin f.pause]_vars
=============================================================================
