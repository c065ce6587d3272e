----------------------------- MODULE RoundRobin -----------------------------
(***************************************************************************)
(* The queue-selection arithmetic of BEgressQueue: how DoDequeueRR (switch) *)
(* and DoDequeueQCN (NIC) find the queue to serve after m_rrlast.  Pure     *)
(* operators, shared by the queue, the switch and the NIC modules.          *)
(***************************************************************************)
EXTENDS Integers, FiniteSetsExt

(* What round robin should mean: the eligible queue met first when one     *)
(* walks upwards from the queue after `last` and wraps around once.        *)
NextAfter(S, last) ==
  LET above == {q \in S : q > last}
  IN  IF above # {} THEN Min(above) ELSE Min(S)

(* DoDequeueRR scans the bitmap (~paused & active_queues_arr) word by word *)
(* (64 bits in the code, W here).  The first loop starts at the word of    *)
(* last + 1 and masks the bits up to last only when that word also holds   *)
(* last; the second loop rescans the words 0 .. last / 64 unmasked.  Both  *)
(* stop at the lowest bit of the first word that has one.                  *)
FirstScanUnmasked(S, last, W) ==                       \* deviation: no mask
  {q \in S : q \div W >= (last + 1) \div W}

FirstScan(S, last, W) ==
  {q \in S : /\ q \div W >= (last + 1) \div W
             /\ q \div W = last \div W => q > last}

SecondScan(S, last, W) == {q \in S : q \div W <= last \div W}

WordScan(S, last, W) ==
  IF FirstScan(S, last, W) # {} THEN Min(FirstScan(S, last, W))
                                ELSE Min(SecondScan(S, last, W))

(* DoDequeueQCN iterates the ordered set active_queues: from               *)
(* upper_bound(last) to the end, then from the beginning while <= last.    *)
SetScan(S, last) ==
  LET upper == {q \in S : q > last}
      lower == {q \in S : q <= last}
  IN  IF upper # {} THEN Min(upper) ELSE Min(lower)

(* Steps of the round-robin pointer from queue x forward to queue q, among *)
(* n queues: 1 .. n, and n for x = q.                                      *)
Distance(x, q, n) == IF q > x THEN q - x ELSE q + n - x
=============================================================================
