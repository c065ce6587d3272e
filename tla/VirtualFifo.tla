----------------------------- MODULE VirtualFifo -----------------------------
(***************************************************************************)
(* What a BFC switch promises its flows: every virtual flow (VFID and       *)
(* output device) is a FIFO queue.  Packets are neither lost, duplicated    *)
(* nor reordered within it, however the entries of the flow table move      *)
(* between physical queues, and a device sends one packet at a time.        *)
(***************************************************************************)
EXTENDS Sequences

CONSTANTS Vfids, Dev, Packet, None

VARIABLES
  fifo,  \* fifo[v][o]: packets of VFID v waiting for device o
  line   \* line[o]: the flow whose packet device o is sending, or None

vars == <<fifo, line>>

Init ==
  /\ fifo = [v \in Vfids |-> [o \in Dev |-> <<>>]]
  /\ line = [o \in Dev |-> None]

Accept(v, o, p) ==
  /\ fifo' = [fifo EXCEPT ![v][o] = Append(@, p)]
  /\ UNCHANGED line

Send(v, o) ==
  /\ fifo[v][o] # <<>>
  /\ fifo' = [fifo EXCEPT ![v][o] = Tail(@)]
  /\ line' = [line EXCEPT ![o] = Head(fifo[v][o]).flow]

(* A packet that finds nothing it must wait for goes straight through.     *)
PassThrough(v, o, p) ==
  /\ fifo[v][o] = <<>> /\ line[o] = None
  /\ line' = [line EXCEPT ![o] = p.flow]
  /\ UNCHANGED fifo

Finish(o) ==
  /\ line[o] # None
  /\ line' = [line EXCEPT ![o] = None]
  /\ UNCHANGED fifo

Next ==
  \E o \in Dev :
    \/ Finish(o)
    \/ \E v \in Vfids : Send(v, o)
    \/ \E v \in Vfids, p \in Packet : Accept(v, o, p) \/ PassThrough(v, o, p)

Spec == Init /\ [][Next]_vars
=============================================================================
