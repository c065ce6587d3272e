----------------------------- MODULE PauseLink -----------------------------
(***************************************************************************)
(* BFC switches joined by links: devices of QbbSwitch on several nodes,     *)
(* and QbbChannel (point-to-point/model/qbb-channel.cc) between a device    *)
(* and its peer.  Data packets cross a link one way, and the pause frames   *)
(* they cause the other way; a packet leaves a switch with the number of    *)
(* the queue it left, which is the queue the next switch pauses.            *)
(*                                                                         *)
(* A link delivers in order.  The receive error model of a device may drop  *)
(* what arrives, pause frames included; the next snapshot makes up for it.  *)
(***************************************************************************)
EXTENDS QbbSwitch

CONSTANTS
  Joined,   \* the devices with a switch at the other end
  Peer,     \* [Joined -> Joined]: m_link[wire].m_dst
  Arrivals, \* bound: the packets the hosts send, in this order
  MaxLink,  \* bound: items under way on the link, from each end
  MaxLoss   \* bound: items lost

ASSUME LinkAssumption ==
  /\ Joined \subseteq Dev
  /\ Peer \in [Joined -> Joined]
  /\ \A d \in Joined : Peer[d] # d /\ Peer[Peer[d]] = d
  /\ DataQ \subseteq PrevQ /\ \A p \in Offered : p.in \notin Joined
  /\ Arrivals \in Seq(Offered) /\ MaxLink \in [Joined -> Nat \ {0}] /\ MaxLoss \in Nat

VARIABLES
  link,  \* link[d]: what d has sent to its peer, oldest first
  left,  \* the packets the hosts have still to send
  lost   \* items lost so far

lvars == <<vars, link, left, lost>>

LInit ==
  /\ Init
  /\ link = [d \in Joined |-> <<>>]
  /\ left = Arrivals
  /\ lost = 0

(* A host's packet arrives at a switch.                                    *)
HostSend ==
  /\ left # <<>>
  /\ ReceiveData(Head(left))
  /\ left' = Tail(left)
  /\ UNCHANGED <<link, lost>>

(* QbbChannel::TransmitStart: the item is at the peer after its            *)
(* transmission and the delay of the link.                                 *)
LTransmitComplete(o) ==
  /\ o \in Joined => Len(link[o]) < MaxLink[o]
  /\ TransmitComplete(o)
  /\ link' = IF o \in Joined THEN [link EXCEPT ![o] = Append(@, tx[o])] ELSE link
  /\ UNCHANGED <<left, lost>>

(* Receive at the peer of d of the oldest item.                            *)
Receive(d, m) ==
  \/ m \in PfcFrame /\ ReceivePfc(Peer[d], m.pause)
  \/ m \in Data /\ ReceiveData([flow |-> m.flow, in |-> Peer[d], prev |-> m.q])

Taken(d) == /\ link[d] # <<>>
            /\ link' = [link EXCEPT ![d] = Tail(@)]

Deliver(d) ==
  /\ Taken(d)
  /\ Receive(d, Head(link[d]))
  /\ UNCHANGED <<left, lost>>

Lose(d) ==
  /\ lost < MaxLoss
  /\ Taken(d)
  /\ lost' = lost + 1
  /\ UNCHANGED <<vars, left>>

LPoll(o) == Poll(o) /\ UNCHANGED <<link, left, lost>>

(* The timer runs whatever has become of the frames before: several         *)
(* snapshots of one device may be under way.                               *)
Snapshot(n) == CheckAndSendPause(n) /\ UNCHANGED <<link, left, lost>>

Nodes == {Node[d] : d \in Dev}

LNext ==
  \/ HostSend
  \/ \E o \in Dev : LTransmitComplete(o) \/ LPoll(o)
  \/ \E d \in Joined : Deliver(d) \/ Lose(d)
  \/ \E n \in Nodes : Snapshot(n)

LSpec == LInit /\ [][LNext]_lvars

(* What the simulator's scheduling gives: every transmission ends, and the *)
(* frames of a device, far shorter than the microsecond between snapshots, *)
(* are all sent before the next; every item on a link is taken; and every   *)
(* device sends a pause frame again and again, which it does because        *)
(* CheckAndSendPause schedules itself.                                     *)
Ends(o) == tx[o] # Idle /\ tx'[o] # tx[o]

LFairness ==
  /\ \A o \in Dev : []<>(tx[o] = Idle) \/ []<><<Ends(o) /\ ctl[o] = <<>>>>_tx
  /\ \A d \in Joined : WF_link(Taken(d))
  /\ \A o \in Dev : []<>(tx[o] \in PfcFrame)

LFairSpec == LSpec /\ LFairness

-----------------------------------------------------------------------------
LTypeOK ==
  /\ TypeOK
  /\ link \in [Joined -> Seq(Control \cup Data)]
  /\ left \in Seq(Offered)
  /\ lost \in 0 .. MaxLoss

(* The pause frames of d its peer has not yet taken, newest last, after the *)
(* one it took.                                                             *)
OnTheWay(d) ==
  (link[d] \o (IF tx[d] = Idle THEN <<>> ELSE <<tx[d]>>)) \o ctl[d]
Newest(s, bits) ==
  LET F == {j \in DOMAIN s : s[j] \in PfcFrame}
  IN  IF F = {} THEN bits ELSE s[Max(F)].pause
NewestFrame(d) == Newest(OnTheWay(d), received[Peer[d]])

(* However snapshots, resume frames and data interleave on a link, and      *)
(* however many frames are under way: the newest frame a device has issued, *)
(* or the one its peer goes by when none is under way, names no queue the   *)
(* device no longer wants paused.  No pause outlives its cause by more than *)
(* the way of a frame; only what the peer's memory held from the start may, *)
(* until the first frame comes.                                             *)
Untouched(d) ==
  /\ received[Peer[d]] = Received0[Peer[d]]
  /\ \A j \in DOMAIN OnTheWay(d) : OnTheWay(d)[j] \notin PfcFrame

NoStalePause ==
  lost = 0 => \A d \in Joined : NewestFrame(d) \subseteq bloom[d] \/ Untouched(d)

(* A device is paused by its peer for packets: where the memory of both      *)
(* held no such bit, a packet behind the pause is queued at the peer's node, *)
(* marked and come over this link, or a frame that ends the pause is on the  *)
(* way.                                                                     *)
PausedForPackets ==
  lost = 0 => \A d \in Joined : \A q \in paused[Peer[d]] :
    LET ix == Index(q) IN
      Zeroed(d, ix) /\ ix \notin Received0[Peer[d]] =>
        \/ MarkedSlots(Now, d, ix) # {}
        \/ \E j \in DOMAIN OnTheWay(d) :
             OnTheWay(d)[j] \in PfcFrame /\ ix \notin OnTheWay(d)[j].pause

(* Every packet leaves the network and every pause ends, also when pause    *)
(* frames are lost: no cycle of pauses, no bit nobody clears.               *)
AllDelivered == <>[](\A o \in Dev, q \in DataQ : queue[o][q] = <<>>)
AllResumed == <>[](\A o \in Dev : paused[o] = {})
=============================================================================
