---------------------------- MODULE QbbSwitchFifo ----------------------------
(* The switch implements a FIFO queue per virtual flow: the packets of an  *)
(* entry are those of its VFID in the physical queue the entry names.      *)
EXTENDS QbbSwitch

CONSTANT None

(* The packets of a VFID in a physical queue, in their order: SelectSeq     *)
(* with its defining function spelt out, for the proofs to refer to.       *)
PacketsOf(s, v) ==
  LET kept[n \in 0 .. Len(s)] ==
        IF n = 0 THEN <<>>
        ELSE IF Vfid[s[n].flow] = v THEN Append(kept[n - 1], s[n]) ELSE kept[n - 1]
  IN  kept[Len(s)]

VirtualQueue(v, o) ==
  IF phys[v][o] = Unassigned THEN <<>> ELSE PacketsOf(queue[o][phys[v][o]], v)

Line(o) == IF tx[o] \in Data THEN tx[o].flow ELSE None

Fifo == INSTANCE VirtualFifo WITH
  Packet <- Offered,
  fifo <- [v \in Vfids |-> [o \in Dev |-> VirtualQueue(v, o)]],
  line <- [o \in Dev |-> Line(o)]

(* Physical queues are shared and reassigned, yet every virtual flow sees  *)
(* a FIFO queue of its own.                                                *)
VirtualFlowsAreFifo == Fifo!Spec
=============================================================================
