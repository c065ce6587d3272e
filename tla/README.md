# A formal model of BFC (backpressure flow control) in ns-3

BFC gives every active flow of a switch a queue of its own, or nearly so, and
lets a switch pause single *queues* of its upstream neighbour: a packet that
finds its queue overloaded is marked, the queue it came from is counted in a
bloom filter, and snapshots of that filter are sent upstream every microsecond
and whenever a bit is cleared.  The code is a fork of ns-3's point-to-point
"qbb" device under `src/ns3-backpressure/src`.  This directory holds TLA+
modules of its core, TLC runs that check them on small instances, and TLAPS
proofs that hold for every instance.

## 1. Inventory of the system

The simulator (`core/model/default-simulator-impl.cc`) runs one event at a time
to completion.  The network code has no threads: a handler and every method it
calls form one atomic step, and all interleaving is the order of events.  Threads
are found around the simulator, in the regression runner `test.py` and in the
visualizer.

| Component | Code | State | Operations | Hard parts |
|---|---|---|---|---|
| Egress queue | `network/utils/broadcom-egress-queue.cc` | one FIFO and one byte count per queue, totals, the active set *twice* (`active_queues`, `active_queues_arr`), `m_rrlast`, `m_qlast` | `Enqueue`, `DequeueRR` (switch), `DequeueQCN` (NIC), `RecoverQueue` | the two copies are kept by comparing byte counts with a packet's size; masks and word boundaries of the scan; a bitmap the constructor never clears |
| Switch port | `point-to-point/model/qbb-net-device.cc`, node type 1 | transmitter, `paused_map`, `received_bloom_filter`, `bloom_filter` and its counters, the FIFO of marks per queue | `Send`, `Receive`, `DequeueAndTransmit`, `TransmitComplete`, `SendPauseFrame`, `UpdatePauseQueue`, `UpdateResumeQueue` | a handler of one port calls into another (a resume leaves the *incoming* port while the outgoing one is in the middle of its dequeue), which may start a transmission there |
| Switch node | `network/model/broadcom-node.cc` | `central_entry_array` (per VFID and output device: size, physical queue, last use), ingress and egress byte counters | `CheckAndSendPause`, `Update/RemoveFrom{Ingress,Egress}Admission` | entries move between queues; counters are unsigned and unchecked |
| NIC | `qbb-net-device.cc`, node type 0 | a queue per flow, the sending buffer, window state, receiver state per flow | `Send`, `DequeueQCN` with the window, `Receive` of data, ACK, NACK, `RecoverQueue`, `ReceiverCheckSeq`, `FlowFinished` | go-back recovery from a bounded buffer; a late duplicate after the end of a flow; the last ACK racing the client's end |
| Channel | `qbb-channel.cc` | frames in flight | `TransmitStart` | fixed delay, hence FIFO per direction |
| Applications | `applications/model/udp-client.cc`, `udp-server.cc`, `packet-loss-counter.cc` | packets sent, timers | `ScheduleTransmit`, `Send`, `StopApplication` | pacing by the NIC's buffer |
| Routing | `internet/model/ipv4-global-routing.cc` | none per packet | ECMP hash | - |
| Helper, scripts | `qbb-helper.cc`, `scratch/nsdifinal.cc` | set-up only | - | - |
| Regression runner | `test.py` | an input and an output queue of jobs, a flag, a thread per processor | `run_tests`, `worker_thread`, `run_job_synchronously`, `sigint_hook` | an interrupt between a check and a launch; a worker that dies; counting jobs that come back in any order |
| Visualizer | `visualizer/visualizer/core.py`, `visualizer/model/pyviz.cc` | a lock, an event, a flag, a timer, the play button | `SimulationThread.run`, `update_view_timeout`, `_on_play_button_toggled`, the speed button, `_quit` | a tick that waits for the lock runs the main loop, so other callbacks happen inside it |
| Generated bindings | `*/bindings/modulegen__*.py` | none | registrations | - |
| Build system | `waf`, `wscript`, `wutils.py` | files | - | - |

Interactions: an arriving data packet is handed by `Receive` of the incoming
device to the node, which routes it to `Send` of the outgoing device; that looks
up the flow table of the node, charges its counters, enqueues, may call
`UpdatePauseQueue` on the incoming device, and ends in `DequeueAndTransmit`.
`DequeueAndTransmit` asks the egress queue for a packet under `paused_map`,
updates table and counters, and for a marked packet calls `UpdateResumeQueue` on
the device the packet came in on, which may `Send` a pause frame there.  A pause
frame coming in replaces `received_bloom_filter` and `paused_map`.  On a host the
client calls `Send` of its device directly and waits while the flow's queue is
long; ACKs and NACKs coming back trim the sending buffer, move the window, refill
the queue or give it back.  Devices meet through channels only.

What makes the parts correct:

- egress queue: the active set names the nonempty queues; the scan finds a
  queue whenever one may send, and starves none;
- switch port: marks stay with their packets; a counter is the number of marked
  packets still there; pauses are obeyed at once and resumes are announced; a
  device never sleeps over work;
- switch node: an entry counts its packets and moves only when it has none, so
  that a flow is never reordered; the byte counters add up;
- NIC: a flow closes only when all of it has been received, packets stay within
  the window, and what a flow occupied is released once;
- link: a pause does not outlive the packets that caused it by more than the way
  of a frame, and everything is delivered in the end;
- runner: no job is lost or counted twice, and the exit code says what happened;
- visualizer: a playing view keeps its timer, the model keeps advancing, and
  closing the window ends both threads.

## 2. Modules

| Module | What it is |
|---|---|
| `RoundRobin` | the word-by-word scan of `DoDequeueRR` (`WordScan`), the NIC's scan of the ordered set (`SetScan`), and the reference both must equal (`NextAfter`) |
| `BEgressQueue` | the egress queue: `Enqueue`, a refused `Enqueue`, `DequeueRR` under any pause bitmap |
| `RRFairness` | the same with a history variable counting how often an eligible queue is passed over |
| `QbbSwitch` | the ports and the flow table of one or several switches, with open neighbours |
| `VirtualFifo` | the abstract switch: one FIFO queue per virtual flow |
| `QbbSwitchFifo` | the refinement mapping from `QbbSwitch` to `VirtualFifo` |
| `BroadcomAdmission` | the byte accounting of a switch |
| `PauseLink` | switches of `QbbSwitch` joined by links (`QbbChannel`), with losses: each device's neighbour is another device of the model |
| `FlowDelivery` | the abstract host: flows open, deliver and close |
| `QbbNic` | the host: clients, sending queues, window and recovery, the network to the receiver, and the receiver's sequence check; it implements `FlowDelivery` |
| `TestRunner` | `test.py`: main thread, workers, interrupt |
| `Visualizer` | the view thread and the simulation thread |
| `CommonLemmas` | lemmas the proofs share (induction, sums) and the theorems about `RoundRobin` |
| `*_proofs` | the theorems of the module they are named after |
| `MC*` | instances for TLC |

### How the code corresponds to `QbbSwitch`

The methods are operators from a state record to a state record, composed as the
handlers compose them, and an action installs the result with `Become`:
`SendData` is the switch branch of `Send` (`AdmitData` up to the call of
`DequeueAndTransmit`), `TransmitData` the data branch of `DequeueAndTransmit`,
`UpdateResumeQueue` includes the nested `SendPauseFrame`, `Send` and
`DequeueAndTransmit` on the incoming device.  The actions are the events:
`ReceiveData`, `ReceivePfc`, `ForwardControl` (an ACK or NACK in transit),
`CheckAndSendPause`, `TransmitComplete` and `Poll` (`m_nextSend`).

Abstractions, each with its reason:

- a pause frame is the set of its bits; the layout of `PauseHeader` is left out;
- packets have one size, so the pause threshold is counted in packets
  (`Threshold` for a queue that has the link alone, divided by the queues that
  could send, as in `UpdatePauseState`, where the division is turned into a
  multiplication);
- `active_queues` and its bitmap are one set here; `BEgressQueue` shows they
  agree;
- an entry unused for 6 us may be reassigned: time is not modelled, so whether
  6 us have passed is left open whenever the entry has no packets.  The first
  packet of an entry is always assigned a queue, because `last_time` is 0 and
  the experiments start traffic at 1 s;
- the queue `Assign_hqCnt_qCnt` draws at random is any of its candidates;
- `Route` is the outcome of the routing, and no packet leaves by the device it
  came in on (shortest paths);
- a host never sends a pause frame (`PfcFrom`): its bloom filter is only
  changed in the switch branch;
- the constructor of a device never sets `bloom_filter`, `bloom_filter_counter`
  and `received_bloom_filter` (`qbb-net-device.h:59-61`), so their first contents
  are constants, `Bloom0`, `Counter0` and `Received0`, of which `MemoryAssumption`
  says only their type.  `paused_map` and the rest are set, by `DeviceInit` and, for
  the node's table, `TableInit`;
- a data packet under 100 bytes is queued with the control packets
  (`qbb-net-device.cc:880-883`): it is a transit packet here (`ForwardControl`).
  The experiment asserts packets of more than 99 bytes (`nsdifinal.cc:615`);
- a device goes on past a failed `NS_ASSERT`, as a build without assertions does.
  Only the uninitialised counters lead to one (line 1238);
- the byte counters are in `BroadcomAdmission` instead: both admission checks
  return `true`, so no branch of the data path reads them;
- the switch's queues do not fill up (`m_maxBytes`); `BEgressQueue` models the
  refusal, and the hazard list names what `Send` would do about it.

### `BEgressQueue` and `BroadcomAdmission`

`BEgressQueue` keeps every counter of the class.  `InitArr` is what the
memory of `active_queues_arr` may hold when the constructor returns.
`BroadcomAdmission` keeps all ingress and egress counters modulo `Wrap`; a packet
is charged by `Admit` and charged back by `Release` in FIFO order.  The port's
and the pool's egress counters move exactly as the shared counter does, which
`Split` states once.

### `PauseLink`

`PauseLink` extends `QbbSwitch` and closes it: the pause frame a device receives is
the one its peer sent, and a data packet enters the next switch with the number of
the queue it left the previous one from (`DequeueAndTransmit` rewrites the header),
which is the queue the next switch will count.  `link[d]` is
what d has sent and its peer not yet received; `QbbChannel::TransmitStart` delays
everything by the same time, hence the FIFO.  `Deliver` is the event at the
receiver, `Lose` the same event when the receive error model drops the item.
`Snapshot` is `CheckAndSendPause` of one switch.  It may come at any time, whatever
has become of the frames before: in the code it comes every microsecond, and with the
shipped link delay, a microsecond as well, frames of earlier snapshots are still
under way.

### `QbbNic`

The client (`ClientSend`) hands a packet to `Send`, which takes a queue for the
first packet of a flow; the last packet is followed in the same event by
`FlowFinished`.  `Transmit` is `DequeueQCN` with the window and pause filters and
`TransmitStart`; the actions that call `DequeueAndTransmit` in the code do so here.
`ReceiveAck`, `ReceiveNack` and `ReceivePfc` are the branches of `Receive` on the
sending side, `ReceiveData` with `ReceiverCheckSeq` the one on the receiving side.

- time is not modelled: the NACK timer may or may not have run out, a client may
  send whenever its queue is short enough;
- the attributes are chosen once, from `Configs`, in the initial state.  `window` is
  what the constructor put in `window[]`, before `FixedWindowSize` was set: any
  number, not the configured one;
- `received_bloom_filter`, which the constructor leaves unset, is overwritten by each
  pause frame before a host reads it, and is not a variable;
- packets of a flow have one size, so byte counts are lengths;
- the network between host and receiver is a FIFO per flow and direction that may
  lose; what a switch does to packets in between is in `QbbSwitch` and
  `PauseLink`, and a host sees of it the pause frames (`PauseSets`);
- the receiver's branch for a gap begins with `NS_ASSERT(false)`
  (`qbb-net-device.cc:1143`).  A build with assertions, waf's default profile, stops at
  the first gap, and its behaviours are prefixes of the model's; NACKs and going back
  are those of a build without assertions.  Without a loss there is no gap
  (`InTransitExact`).  A duplicate (lines 1160-1163) is not asserted against and gets
  no answer;
- a simulation that runs out of sending queues reads an index it never set; the
  model does not follow it there (`FirstSend` needs a free queue).

`got` is a history variable: it counts what the receiver took in order, for the
refinement and the properties about it.

### `TestRunner` and `Visualizer`

The steps of a thread are the operations other threads can observe: a get or a put
on a queue, a read of `thread_exit`, the start of a program, the lock, the event.
`sigint_hook` runs in the main thread between two of its steps, which a blocking
`get` or `join` prevents.  `Die` is an exception in `run_job_synchronously`.  In the
visualizer `stack` holds the ticks in progress: a tick that does not get the lock
runs the gtk main loop, where clicks and further ticks are dispatched, and goes on
when those have returned.

Operators marked `deviation` are not part of the model.  Each is a wrong version
of the definition after it, the way a plausible slip would have it, and shows
that the property named with it in `PROJECT.json` notices.

## 3. Runs

| Run | Checks | Bounds, and why they are enough |
|---|---|---|
| `round_robin` | `TypeOK`, `ActiveExact`, `ServedQueueHoldsPacket`, `WorkConserving`, `BytesExact`, `BoundedBypass` | 6 queues in words of 2 bits: three data queues over two words, so that both loops, their masks and the wrap-around matter; packets of two sizes up to 5 bytes in all, so that a byte count equals a packet's size by accident; any pause bitmap at every dequeue |
| `uninitialised` | expects a violation of `ServedQueueHoldsPacket` | the same with any initial bitmap; see Findings |
| `switch` | `TypeOK`, `InStep`, `EntryExact`, `CounterExact`, `NoLostWakeup`, `PauseObeyed`, `ResumeAnnounced` | three devices; two flows in one VFID from different ports and one in a VFID of its own, so that an incoming port and an entry are both shared; two physical queues of two packets (a queue with one packet is never marked, with two it may be); two upstream queues with one bloom index; `CounterMod` above the number of packets; initial memory that is zero on one device, a counter that two marks wrap beside a stray bit on another, stray pauses on the third |
| `virtual_fifo` | `VirtualFlowsAreFifo` (refinement) | the same with one bloom index and no transit traffic, which the abstract specification does not see |
| `admission` | `TypeOK`, `IngressExact`, `HeadroomCovered`, `EgressExact`, `WrapsByLessThanAPacket` | sizes 2 and 5 against a guarantee of 6 stand for 120 and 1020 against 1030; four packets: two fill the guarantee and the shared counter and the third triggers the patch; `SpLimit` is crossed by the second large packet; `Wrap` is far above every sum, as 2^32 is |
| `nic` | `TypeOK`, `QueuesConserved`, `ActiveHoldsPacket`, `UnreceivedIsBuffered`, `EntryFreed`, `InTransitExact`, `WindowObeyed`, `DeliverySpec` (refinement), `AllFinish` (liveness) | three flows of 4, 1 and 1 packets over two queues, so that a queue is used again while another flow is still sending; a buffer of 3, so that the longest flow overflows it; two packets and two answers of a flow under way; one loss, of anything, at any time; five attribute settings: no window; a window of 3 with an ACK interval of 2, with go-back to chunks of 2 and without, chunk 4; a window of 1, below the interval, with chunks of 1; and a window of 2, no larger than the interval and below the chunk of 4, in which the long flow stalls and `AllFinish` promises nothing |
| `nic_stall` | expects a violation of `RecoveredAreSent` | one flow of three packets, one loss; see Findings |
| `link` | `NoStalePause`, `PausedForPackets`, `AllDelivered`, `AllResumed` (liveness) | two switches of two devices; three packets of two flows, enough for a queue at the second switch to be overloaded and to pause the first; snapshots at any time, with up to three pause frames of a device under way (waiting, being sent, on the link); stray memory at the first switch: a bit and a full counter towards the host, and a pause nobody sent; one loss, pause frames and data included.  Some 860 thousand states |
| `test_runner` | `TypeOK`, `JobsConserved`, `AtMostOneLate`, `ExitCodeHonest`, `Ends` (liveness) | two workers, four jobs: two suites, an example, a skipped one; an interrupt at any moment; one worker may die |
| `valgrind_entry` | expects a violation of `ValgrindErrorsListed` | one suite; see Findings |
| `visualizer` | `PlayingHasTimer`, `Advances`, `Quits` (liveness) | four timer identifiers, two sample periods, ticks nested two deep: the smallest depth at which a tick finds its own work done by an inner one |
| `timer_left` | expects a violation of `PausedTimerStopped` | the same; see Findings |

Other bounds: `MaxQueue` limits a physical queue, `MaxHeld` the packets of the
accounting, `MaxCtl` and `Paced` the control packets waiting on a device.
`Paced` says that control packets, short and served first, do not pile up: without
it the periodic frames could be queued without limit while nothing is
transmitted.  It restricts when packets arrive and leave, never what a handler
does.

`MaxFlight` and `MaxLink` (one for each end of a link) limit what is under way (a
real link holds as many packets as its delay allows; one, and two more behind it,
let a resume travel between snapshots of before and after it; the proofs hold for
any number), `MaxLoss` what is lost.  `Arrivals` and
`Packets` bound the traffic.  The runs with `CHECK_DEADLOCK FALSE` are those of
systems that end: all traffic delivered, all jobs done, the window closed.

### Fairness

- `QbbNic!Fairness`: the simulator runs every event that is scheduled, so some
  client, transmission, poll or delivery step that stays possible is taken
  (`WF_vars(Scheduled)`), and a snapshot without bits comes again and again
  (`WF_vars(ReceivePfc({}))`), which is what the switch's side of the protocol
  owes the host and what `link` checks of it (`AllResumed`).  Losses are never
  forced.  `AllFinish` promises completion only for runs without a loss, since after
  one the code may stall (second finding), and only when ACKs are on and one is due
  within the window (`AcksWithinWindow`): the receiver acknowledges every `chunk`-th
  packet and the one after every `ack` packets, so that a window below the chunk and
  not above the interval closes for good.  Without that premise TLC finds the stall.
- `PauseLink!LFairness`: every transmission ends, and again and again one ends with
  no control packet waiting, since a frame is far shorter than the microsecond
  between snapshots; every item on a link is taken; every device sends a pause frame
  again and again, as `CheckAndSendPause` schedules its own next call.  The last is
  stated of the wire and not as fairness of `Snapshot`: a snapshot can always be
  taken while it fits, and one that never reaches the wire resumes nobody.
  `AllDelivered` and `AllResumed` need clear memory at the device that pauses (a2) and
  no stray pause at the one that is never sent a frame (c2): with a stray counter the
  code never clears the bit it sets, and a stray pause towards a host stays.
- `TestRunner!Fairness`: the operating system schedules every thread, every test
  program ends.  No fairness for the interrupt or for the death of a worker.
- `Visualizer!FairSpec`: both threads are scheduled and the gtk main loop
  dispatches a source that stays ready.  None for the user.  `Advances` is about a
  user who leaves the play button pressed and the speed alone: `ChangeSpeed`
  replaces the timer, and one who does nothing else postpones the tick for ever.

For safety, `NoLostWakeup` and `BoundedBypass` are the halves of progress that need
no fairness: a device never waits for the 1 us poll while it may send, and round
robin passes an eligible queue over at most once per competitor.

### Findings

`broadcom-egress-queue.cc:62` - the constructor clears everything but
`active_queues_arr`, which `Enqueue` and `DoDequeueRR` then change only bit by
bit.  With zeroed memory all is well, and that is what the proofs assume
(`ZeroedAssumption`).  With any other contents `DoDequeueRR` chooses an empty
queue, which its own assertion at line 251 excludes; run `uninitialised` shows a
trace.

`broadcom-egress-queue.cc:553` - `RecoverQueue` refills a flow's queue after a NACK
and does not put it back in `active_queues`, the set `DoDequeueQCN` serves.  When
the queue had drained, the packets it now holds are never served again: not even the
client's next packet activates the queue, because `Enqueue` (line 371) asks whether the
byte count is that packet's own size, and `RecoverQueue` has raised the count already
(line 574).  Run `nic_stall` shows it with the loss of one packet, in a build without
assertions: a debug build has stopped at the gap.  The proof of `EntriesAreFreed` rests on the same fact: since the last
packet of a flow never gets back into a served queue once it has left, it is sent
at most once, and no duplicate of it can reach the receiver late.

`test.py:1723` - the entry for a valgrind error is in the branch for the *other*
return codes and is never written, contrary to the comment at lines 1697-1699; run
`valgrind_entry`.  The summary and the exit code are right.

`core.py:1088` - a paused tick forgets the current timer and ends its own.  When it
waited for the lock in between, these may be two timers: the one the speed button
started stays installed and unremembered; run `timer_left`.  `Advances` and `Quits`
hold all the same.

Not contradictions of anything the code says, but worth knowing:

The Bloom filter of a device and its counters are never initialised
(`qbb-net-device.h:59-61`).  A counter that does not start at 0 leaves its bit as it
was; one that starts at its maximum wraps to 0 with the first mark, and the departure
of that packet meets `NS_ASSERT(bloom_filter_counter[index] > 0)` (line 1238).  A
stray received bit is corrected by the neighbour's first frame, except on a port to a
host.  `CounterExact`, `NoStalePause` and `PausedForPackets` say what holds
regardless.

With `EnableWindow`, which is off by default, the experiment's own attributes (chunk
4000, ACK interval 256, window 150; `nsdifinal.cc:47` and `75`) let no flow of more
than 150 packets finish, with no loss at all, if `window[]` held the configured
value.  And `L2AckInterval` 0, the default, is documented to disable ACKs
(`qbb-net-device.cc:101`), but acknowledges every packet to a sender that never gives
its queue back.

`m_usedEgressQMinBytes` does wrap below zero (three full packets in and out of one
queue are enough), since a packet charged to both counters is charged back to
one.  `WrapsByLessThanAPacket` says how far.  Nothing reads the counter today.

## 4. Proofs

TLAPS proves, for every value of the constants allowed by the assumptions of the
modules:

- `CommonLemmas`, which the other proof modules extend: induction over the naturals
  stated of sets (so that it can be cited), and what `SumFunctionOnSet` of the
  community modules does when a term is added, taken out, changed or shifted (it
  folds in an order of its own; `AddsAnyOrder` shows that the order is irrelevant).
  And about `RoundRobin`: `WordScanCorrect` and `SetScanCorrect` - both scans equal
  the cyclic successor `NextAfter`, for every word size, position and bitmap;
  `NextAfterApproaches` - serving another queue brings the pointer nearer to
  every eligible one.
- `BEgressQueue_proofs`: `TypeCorrect`, `ActiveSetExact`, `ServedQueueHolds`,
  `NothingOverlooked`, `BytesAreExact`, `RoundRobinIsFair`.  The inductive invariant
  `QueueInv` says that a byte count *is* the sum of the sizes in its queue: only
  then does "count minus size is zero" mean "empty".  Fairness follows from `FairInv`: a queue r served since q's last turn is
  at least as far from q as the pointer is now.
- `QbbSwitch_proofs`: `TypeCorrect`, `QueuesInStep`, `EntriesExact`,
  `CountersExact`, `NoWakeupIsLost`, `PausesAreObeyed`, `ResumesAreAnnounced`, and
  `SwitchImplementsFifo`, the refinement of `VirtualFifo`.
  The invariant is `SInv` with `NoLostWakeup`.  `SInv` adds `PauseSync` to the
  checked invariants: `paused_map` names only bits of the received filter, and of the
  queues with packets all of them (an empty queue may lack the bit until its first
  packet, as the filter the device started with was never drawn into the map).  So the
  refresh of a single queue in `Send` and `DequeueAndTransmit` never lifts a pause, and
  no device sleeps on one.  The table and the bloom counters are compared
  with cardinalities of sets of queue positions; `JoinedSlots` and
  `DepartedSlots` say what an arrival and a departure do to positions (a
  departure shifts them: a bijection onto all but the first), and
  `CounterJoined`, `CounterDeparted`, `EntryJoined`, `EntryDeparted` what that
  does to the counts.  The steps then follow the call structure: every method
  keeps `SInv`, and `DequeueAndTransmitStep` restores `NoLostWakeup` on the device
  whose handler runs.  Counters are compared modulo their width with what they
  started from plus the marked packets (`CounterFits`, `CounterStart`, `FitsUp`,
  `FitsDown`); those that start clear never wrap because the packets that fit in the
  switch are fewer (`SwitchAssumption`), and only for them is the bit tied to the
  count.
  The refinement maps an entry to the packets of its VFID in the queue it names
  (`PacketsOf`).  `PacketsJoined` and `PacketsDeparted` say, by induction on the
  prefixes of the queue, that an arrival extends the selection of its own VFID and of
  no other, and that the head of the queue is the head of its VFID's selection.
  `EntryExact` does the rest: an entry with packets is never moved, and one without
  has none in any queue, so moving it is invisible.  `NoLostWakeup` is needed where a
  handler both admits a packet and transmits: a device that was READY had nothing to
  send, so the packet it takes is the one just admitted, alone in its virtual queue
  (`PassThrough`).
- `QbbNic_proofs`: `TypeCorrect`, `QueuesAreConserved`, `ActiveQueuesHoldPackets`,
  `EntriesAreFreed`, `WindowIsObeyed`, `NothingIsRepeated`, `UnreceivedStaysBuffered`,
  and `DeliveryImplemented`, the refinement of `FlowDelivery`.  The inductive invariant combines four facts.  A queue in the
  active set ends with the newest packet of its owner, which has never been on the
  link: this is what keeps an active queue from being emptied by a NACK (a NACK
  never asks for less than what follows a packet that was on the link, so trimming
  leaves at least that newest one) and what makes the last packet travel last,
  hence at most once.  `cur` is the sequence number at the head of every nonempty
  queue when the window is enabled, which turns the window filter into
  `WindowObeyed`.  What is acknowledged has been received, so that a queue is
  released only after the last packet.  And an owner, the free list and the
  receiver's entries are injective.  Two more invariants stand on that one.
  `NoneLost`: while nothing is lost, the wire, the device and the queue of a flow hold
  consecutive sequence numbers from the receiver's count to the client's, a queue
  without an owner is empty, and every answer under way is an ACK.  `Covered`: the
  buffer of an unfinished flow holds its newest packets without a gap, back to where
  the flow would go back to (`BackTo`, the start of the chunk with
  `L2BackToZero`) unless it is full, and no ACK or NACK on its way asks to trim
  beyond that.
- `PauseLink_proofs`: `LTypeCorrect`, `NoPauseIsStale`, `PausesHaveCause`, for any
  number of switches and links, any routes, any traffic, any number of snapshots and
  resumes under way and any initial memory; the last two as long as nothing was lost.  `Newest` folds a sequence of frames to the last one; `NewestConcat` lets the
  control queue, the wire and the link be treated one after the other.  The
  invariant `Fresh` says of every device that what its peer will go by after
  everything on the way lies within the device's filter (`Within`), or that the peer
  still has its initial memory and no frame is on the way (`Silent`).  `Announces` is the
  relation between the states before and after a method that keeps it for whatever
  is on the link: of every device the newest frame stays and no bit is cleared
  (`Stays`), or the newest frame lies within the filter whatever went before (`Told`).  `TransmitAnnounces` is the step with substance: a data packet
  leaves, its resume clears a bit, perhaps on another device, and the frame that
  joins the control queue there carries the smaller filter.  Every step also keeps
  `IInv` of `QbbSwitch_proofs`, whose lemmas are reused.  `PausesHaveCause` follows
  from `Fresh`, `PauseSync` and, for the bits whose memory was clear, `CounterExact`.
- `TestRunner_proofs`: `TypeCorrect`, `AtMostOneLateJob`, `EveryJobConserved`,
  `ExitCodeIsHonest`, for any number of workers and jobs.  The invariant says where a
  job is, by uniqueness of positions in the two queues and of hands, and that break
  jobs come last, so that a worker that has exited left nothing behind.
- `Visualizer_proofs`: `TypeCorrect` and `PlayingViewHasTimer`, for any number of
  timers and any nesting of ticks.
- `BroadcomAdmission_proofs`: `CountersTyped`, `IngressCountersExact`,
  `HeadroomIsCovered`, `EgressCountersExact`, `WrapsByLess`, for any ports, queues,
  sizes and guarantee, as long as the width holds what the switch can hold.  The
  invariant adds to the checked properties that the packets held are at most
  `MaxHeld`, so that no ingress counter wraps, and `EgressCovers`: either nothing has
  wrapped and an egress queue's two counters add up to its bytes, or the guaranteed
  one has wrapped by less than a packet and the shared one exceeds the bytes by just
  that.  `Covers` is what a charge and a release keep whichever way the patch splits
  the packet.

Assumptions: `QueueAssumption`, `ZeroedAssumption`, `SwitchAssumption`,
`MemoryAssumption`, `AdmissionAssumption`, `EnvironmentAssumption`, `IdleAssumption`, `NicAssumption`,
`NicSentinels`, `LinkAssumption`, `RunnerAssumption`, `VisualizerAssumption`; TLC evaluates each of
them in the runs.

Every invariant, every action property and both refinements that the passing runs
check are thus theorems as well.  Only model-checked is what needs fairness
(`AllFinish`, `AllDelivered`, `AllResumed`, `Ends`, `Advances`, `Quits`): the prover has
no rules for `WF` and `ENABLED`.  The runs with an expected violation are checked by
TLC alone too.  The library's induction theorems take an operator as a parameter and
cannot be cited; where data had to be recursed over (byte sums, the selection of a
VFID's packets), the recursion is a function, and `Induction` of `CommonLemmas`, about
sets, takes their place.

## 5. Not modelled

- Wire formats: headers are records, a pause frame the set of its bits.
- ECMP (`Ipv4GlobalRouting`): a stateless hash; `Route` is its outcome.
- `QbbHelper` and the experiment scripts: they run once, before the simulation.
- `UdpServer` and `PacketLossCounter` only count; statistics and traces likewise.
- `BEgressQueue::DoDequeue` and `DoDequeueNIC`, and the threshold methods of
  `BroadcomNode`, which have no caller on the BFC path.
- The refusal of a full switch queue inside `Send` (`QbbSwitch` takes the queue as
  large enough; `BEgressQueue` has the refusal on its own).
- The visualizer's drawing, dragging and tooltips, whose callbacks hold the same
  lock from beginning to end, and its shell; a `Simulator::Stop` the simulated program
  schedules itself, which would end a run short of its target; and what the main loop
  of a waiting tick may still dispatch after `_quit` has returned.
- In `test.py`, a suite that ends with 0, 1 or 2 and leaves no temporary results file:
  `open` (line 1711) then raises in the main thread and the workers are not joined.
- The generated Python bindings: more than nine tenths of the repository's Python,
  long lists of registrations without a branch or a state to model.  The build
  system: sequential, nothing outlives a run but files.
- The parts of ns-3 that BFC does not change.

The bulk of the modelled code is C++ (`point-to-point`, `network`, `applications`).
Measured by lines of the whole repository the models cover little: the fork is a
few thousand lines in ns-3, and the rest is the simulator it runs on.

What could come next: `QbbNic` and `PauseLink` in one module, with hosts as the
ends of links; switches whose queues are full.  The hazards without a property in
`PROJECT.json` say for each why it has none.
