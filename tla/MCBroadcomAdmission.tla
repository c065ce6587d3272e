------------------------ MODULE MCBroadcomAdmission ------------------------
(* Two ports feed a third, one of them into two of its queues.  Sizes and  *)
(* guarantee are scaled from 120 .. 1020 and 1030 bytes.                   *)
EXTENDS BroadcomAdmission

MCPort == {1, 2, 3}
MCQueue == {3, 4}
MCTraffic == {<<1, 3, 3>>, <<2, 3, 3>>, <<1, 3, 4>>}
MCSizes == {2, 5}
=============================================================================
