---------------------- MODULE BroadcomAdmission_proofs ----------------------
(***************************************************************************)
(* The buffer accounting of a switch, for every set of ports, queues and   *)
(* packet sizes: the counters keep their width; every ingress counter is   *)
(* the bytes held of what it is named for; headroom is covered; and the    *)
(* two counters of an egress queue add up to its bytes but for one wrap of *)
(* less than a packet.  The invariant behind it is IInv, below.            *)
(***************************************************************************)
EXTENDS BroadcomAdmission, CommonLemmas

LEMMA Limits == Wrap \in Nat \ {0} /\ Guarantee \in Counter /\ 0 \in Counter /\ Counter \subseteq Nat
<1>1. PICK n \in Sizes : n \in Nat /\ MaxHeld * n + 2 * Guarantee < Wrap
  BY AdmissionAssumption
<1>2. MaxHeld * n \in Nat
  BY <1>1, AdmissionAssumption
<1>3. Guarantee \in Nat /\ Wrap \in Nat /\ Guarantee < Wrap
  BY <1>1, <1>2, AdmissionAssumption
<1>. QED BY <1>3 DEF Counter

(* Whatever is added or taken, an unsigned counter keeps its width.         *)
LEMMA Wrapped ==
  ASSUME NEW x \in Int, NEW n \in Int
  PROVE  Plus(x, n) \in Counter /\ Minus(x, n) \in Counter
<1>1. \A y \in Int : y % Wrap \in 0 .. Wrap - 1
  BY Limits
<1>2. x + n \in Int /\ x - n \in Int
  OBVIOUS
<1>. QED BY <1>1, <1>2 DEF Plus, Minus, Counter

(* Headroom is taken back down to zero at most.                             *)
LEMMA HeadroomStays ==
  ASSUME NEW h \in Counter, NEW n \in Nat
  PROVE  HeadroomLess(h, n) \in Counter
  BY Limits DEF HeadroomLess, Counter

LEMMA SizeInNat == Sizes \subseteq Nat
  BY AdmissionAssumption

(* The egress counters, as one set of states. *)
EgressTyped ==
  /\ qMin \in [Port -> [Queue -> Counter]] /\ qShared \in [Port -> [Queue -> Counter]]
  /\ outPort \in [Port -> Counter] /\ outSP \in Counter

IngressTyped ==
  /\ total \in Counter /\ inSP \in Counter
  /\ inPort \in [Port -> Counter]
  /\ inPG \in [Port -> [Queue -> Counter]] /\ headroom \in [Port -> [Queue -> Counter]]
  /\ inOut \in [Port -> [Port -> [Queue -> Int]]]


LEMMA SplitTyped ==
  ASSUME EgressTyped, NEW o \in Port, NEW q \in Queue,
         NEW min \in Counter, NEW shared \in Counter, Split(o, q, min, shared)
  PROVE  EgressTyped'
<1>1. qMin' \in [Port -> [Queue -> Counter]] /\ qShared' \in [Port -> [Queue -> Counter]]
  BY DEF EgressTyped, Split
<1>2. qShared[o][q] \in Counter /\ outSP \in Counter /\ outPort[o] \in Counter
  BY DEF EgressTyped
<1>3. shared - qShared[o][q] \in Int /\ outSP \in Int /\ outPort[o] \in Int
  BY <1>2, Limits DEF Counter
<1>4. /\ Plus(outPort[o], shared - qShared[o][q]) \in Counter
      /\ Plus(outSP, shared - qShared[o][q]) \in Counter
  BY <1>3, Wrapped
<1>5. outPort' \in [Port -> Counter] /\ outSP' \in Counter
  BY <1>4 DEF EgressTyped, Split
<1>. QED BY <1>1, <1>5 DEF EgressTyped

LEMMA FillTyped ==
  ASSUME EgressTyped, NEW o \in Port, NEW q \in Queue,
         NEW min \in Counter, NEW shared \in Counter, Fill(o, q, min, shared)
  PROVE  EgressTyped'
<1>1. CASE min < Guarantee /\ shared > Guarantee
  <2>1. Split(o, q, Guarantee, Plus(Minus(shared, Guarantee), min))
    BY <1>1 DEF Fill
  <2>2. shared \in Int /\ Guarantee \in Int /\ min \in Int
    BY Limits DEF Counter
  <2>3. Minus(shared, Guarantee) \in Int
    <3>1. Minus(shared, Guarantee) \in Counter
      BY <2>2, Wrapped
    <3>. QED BY <3>1, Limits DEF Counter
  <2>4. Plus(Minus(shared, Guarantee), min) \in Counter
    BY <2>2, <2>3, Wrapped
  <2>. QED BY <2>1, <2>4, SplitTyped, Limits
<1>2. CASE ~(min < Guarantee /\ shared > Guarantee)
  <2>1. Split(o, q, min, shared)
    BY <1>2 DEF Fill
  <2>. QED BY <2>1, SplitTyped
<1>. QED BY <1>1, <1>2

LEMMA UpdateEgressTyped ==
  ASSUME EgressTyped, NEW o \in Port, NEW q \in Queue, NEW n \in Nat,
         UpdateEgressAdmission(o, q, n)
  PROVE  EgressTyped'
<1>1. qMin[o][q] \in Counter /\ qShared[o][q] \in Counter
  BY DEF EgressTyped
<1>2. Plus(qMin[o][q], n) \in Counter /\ Plus(qShared[o][q], n) \in Counter
  <2>1. qMin[o][q] \in Int /\ qShared[o][q] \in Int /\ n \in Int
    BY <1>1, Limits DEF Counter
  <2>. QED BY <2>1, Wrapped
<1>3. \/ Split(o, q, Plus(qMin[o][q], n), qShared[o][q])
      \/ Fill(o, q, qMin[o][q], Plus(qShared[o][q], n))
  BY DEF UpdateEgressAdmission
<1>. QED BY <1>1, <1>2, <1>3, SplitTyped, FillTyped

LEMMA RemoveEgressTyped ==
  ASSUME EgressTyped, NEW o \in Port, NEW q \in Queue, NEW n \in Nat,
         RemoveFromEgressAdmission(o, q, n)
  PROVE  EgressTyped'
<1>1. qMin[o][q] \in Counter /\ qShared[o][q] \in Counter
  BY DEF EgressTyped
<1>2. Minus(qMin[o][q], n) \in Counter /\ Minus(qShared[o][q], n) \in Counter
  <2>1. qMin[o][q] \in Int /\ qShared[o][q] \in Int /\ n \in Int
    BY <1>1, Limits DEF Counter
  <2>. QED BY <2>1, Wrapped
<1>3. \/ Split(o, q, qMin[o][q], Minus(qShared[o][q], n))
      \/ Fill(o, q, Minus(qMin[o][q], n), qShared[o][q])
  BY DEF RemoveFromEgressAdmission
<1>. QED BY <1>1, <1>2, <1>3, SplitTyped, FillTyped

(* What every change of an ingress counter by n bytes gives.                *)
LEMMA IngressMoved ==
  ASSUME IngressTyped, NEW i \in Port, NEW o \in Port, NEW q \in Queue, NEW n \in Nat
  PROVE  /\ Plus(total, n) \in Counter /\ Minus(total, n) \in Counter
         /\ Plus(inSP, n) \in Counter /\ Minus(inSP, n) \in Counter
         /\ Plus(inPort[i], n) \in Counter /\ Minus(inPort[i], n) \in Counter
         /\ Plus(inPG[i][q], n) \in Counter /\ Minus(inPG[i][q], n) \in Counter
         /\ headroom[i][q] \in Counter
         /\ Plus(headroom[i][q], n) \in Counter /\ HeadroomLess(headroom[i][q], n) \in Counter
         /\ inOut[o][i][q] + n \in Int /\ inOut[o][i][q] - n \in Int
<1>1. /\ total \in Counter /\ inSP \in Counter /\ inPort[i] \in Counter
      /\ inPG[i][q] \in Counter /\ headroom[i][q] \in Counter /\ inOut[o][i][q] \in Int
  BY DEF IngressTyped
<1>2. \A x \in Counter : Plus(x, n) \in Counter /\ Minus(x, n) \in Counter
  BY Wrapped, Limits
<1>3. HeadroomLess(headroom[i][q], n) \in Counter
  BY <1>1, HeadroomStays
<1>4. inOut[o][i][q] + n \in Int /\ inOut[o][i][q] - n \in Int
  BY <1>1
<1>. QED BY <1>1, <1>2, <1>3, <1>4

LEMMA UpdateIngressTyped ==
  ASSUME IngressTyped, NEW i \in Port, NEW o \in Port, NEW q \in Queue, NEW n \in Nat,
         UpdateIngressAdmission(i, q, n, o)
  PROVE  IngressTyped'
<1>1. total' \in Counter /\ inSP' \in Counter /\ inPort' \in [Port -> Counter]
  BY IngressMoved DEF IngressTyped, UpdateIngressAdmission
<1>2. inPG' \in [Port -> [Queue -> Counter]]
  BY IngressMoved DEF IngressTyped, UpdateIngressAdmission
<1>3. headroom' \in [Port -> [Queue -> Counter]]
  <2>1. PICK h \in Counter : headroom' = [headroom EXCEPT ![i] = [headroom[i] EXCEPT ![q] = h]]
    BY IngressMoved DEF UpdateIngressAdmission
  <2>. QED BY <2>1 DEF IngressTyped
<1>4. inOut' \in [Port -> [Port -> [Queue -> Int]]]
  BY IngressMoved DEF IngressTyped, UpdateIngressAdmission
<1>. QED BY <1>1, <1>2, <1>3, <1>4 DEF IngressTyped

LEMMA RemoveIngressTyped ==
  ASSUME IngressTyped, NEW i \in Port, NEW o \in Port, NEW q \in Queue, NEW n \in Nat,
         RemoveFromIngressAdmission(i, q, n, o)
  PROVE  IngressTyped'
<1>1. total' \in Counter /\ inSP' \in Counter /\ inPort' \in [Port -> Counter]
  BY IngressMoved DEF IngressTyped, RemoveFromIngressAdmission
<1>2. inPG' \in [Port -> [Queue -> Counter]] /\ headroom' \in [Port -> [Queue -> Counter]]
  BY IngressMoved DEF IngressTyped, RemoveFromIngressAdmission
<1>3. inOut' \in [Port -> [Port -> [Queue -> Int]]]
  BY IngressMoved DEF IngressTyped, RemoveFromIngressAdmission
<1>. QED BY <1>1, <1>2, <1>3 DEF IngressTyped

FifoTyped == fifo \in [Port -> [Queue -> Seq(Packet)]]

LEMMA TypeParts == TypeOK <=> FifoTyped /\ IngressTyped /\ EgressTyped
  BY DEF TypeOK, FifoTyped, IngressTyped, EgressTyped

LEMMA AdmitTyped ==
  ASSUME TypeOK, NEW t \in Traffic, NEW n \in Sizes, Admit(t[1], t[2], t[3], n)
  PROVE  TypeOK'
<1>1. t[1] \in Port /\ t[2] \in Port /\ t[3] \in Queue /\ n \in Nat
  BY AdmissionAssumption
<1>2. IngressTyped'
  BY <1>1, TypeParts, UpdateIngressTyped DEF Admit
<1>3. EgressTyped'
  BY <1>1, TypeParts, UpdateEgressTyped DEF Admit
<1>4. FifoTyped'
  <2>1. [in |-> t[1], size |-> n] \in Packet
    BY <1>1 DEF Packet
  <2>2. fifo' = [fifo EXCEPT ![t[2]][t[3]] = Append(@, [in |-> t[1], size |-> n])]
    BY DEF Admit
  <2>3. fifo[t[2]][t[3]] \in Seq(Packet)
    BY <1>1, TypeParts DEF FifoTyped
  <2>4. Append(fifo[t[2]][t[3]], [in |-> t[1], size |-> n]) \in Seq(Packet)
    BY <2>1, <2>3
  <2>. QED BY <1>1, <2>2, <2>4, TypeParts DEF FifoTyped
<1>. QED BY <1>2, <1>3, <1>4 DEF TypeOK, FifoTyped, IngressTyped, EgressTyped

LEMMA ReleaseTyped ==
  ASSUME TypeOK, NEW o \in Port, NEW q \in Queue, Release(o, q)
  PROVE  TypeOK'
<1>1. fifo[o][q] \in Seq(Packet) /\ fifo[o][q] # <<>>
  BY TypeParts DEF FifoTyped, Release
<1>2. Head(fifo[o][q]) \in Packet /\ Tail(fifo[o][q]) \in Seq(Packet)
  BY <1>1
<1>3. Head(fifo[o][q]).in \in Port /\ Head(fifo[o][q]).size \in Nat
  BY <1>2, SizeInNat DEF Packet
<1>4. /\ RemoveFromIngressAdmission(Head(fifo[o][q]).in, q, Head(fifo[o][q]).size, o)
      /\ RemoveFromEgressAdmission(o, q, Head(fifo[o][q]).size)
      /\ fifo' = [fifo EXCEPT ![o][q] = Tail(@)]
  BY DEF Release
<1>5. IngressTyped'
  BY <1>3, <1>4, TypeParts, RemoveIngressTyped
<1>6. EgressTyped'
  BY <1>3, <1>4, TypeParts, RemoveEgressTyped
<1>7. FifoTyped'
  BY <1>2, <1>4, TypeParts DEF FifoTyped
<1>. QED BY <1>5, <1>6, <1>7 DEF TypeOK, FifoTyped, IngressTyped, EgressTyped

LEMMA TypeInit == ASSUME Init PROVE TypeOK
<1>1. FifoTyped
  BY DEF Init, FifoTyped
<1>2. IngressTyped
  BY Limits DEF Init, IngressTyped
<1>3. EgressTyped
  BY Limits DEF Init, EgressTyped
<1>. QED BY <1>1, <1>2, <1>3, TypeParts

(* Every counter of BroadcomNode keeps its width, and the per-pair counters *)
(* stay integers, whatever traffic is charged and charged back.             *)
THEOREM CountersTyped == Spec => []TypeOK
<1>1. Init => TypeOK
  BY TypeInit
<1>2. TypeOK /\ [Next]_vars => TypeOK'
  <2>. SUFFICES ASSUME TypeOK, [Next]_vars PROVE TypeOK'
    OBVIOUS
  <2>1. CASE Next
    BY <2>1, AdmitTyped, ReleaseTyped DEF Next
  <2>2. CASE UNCHANGED vars
    BY <2>2 DEF TypeOK, vars, ingress, egress
  <2>. QED BY <2>1, <2>2
<1>. QED BY <1>1, <1>2, PTL DEF Spec

-----------------------------------------------------------------------------
(* The largest packet, and what the constants leave above it.               *)
Largest == Max(Sizes)
Cap == Largest * MaxHeld

LEMMA Packets ==
  /\ Largest \in Nat \ {0}
  /\ \A n \in Sizes : n \in Nat \ {0} /\ n <= Largest
  /\ Cap \in Nat /\ Guarantee \in Nat /\ Wrap \in Nat /\ MaxHeld \in Nat
  /\ Largest < Guarantee /\ Cap + 2 * Guarantee < Wrap
<1>. DEFINE Above == {u \in Nat : \A y \in Sizes : y <= u}
            m == Min(Above)
<1>1. Guarantee \in Above
  BY AdmissionAssumption
<1>2. m \in Above /\ \A u \in Above : m <= u
  BY <1>1, MinProperty
<1>. HIDE DEF m
<1>2a. m \in Nat /\ \A y \in Sizes : y \in Nat \ {0} /\ y <= m
  BY <1>2, AdmissionAssumption
<1>3. m \in Sizes
  <2>. SUFFICES ASSUME m \notin Sizes PROVE FALSE
    OBVIOUS
  <2>1. \A y \in Sizes : y \in Nat \ {0} /\ y <= m /\ y # m
    BY <1>2a
  <2>2. \A y \in Sizes : y <= m - 1
    BY <2>1, <1>2a
  <2>3. PICK y \in Sizes : TRUE
    BY AdmissionAssumption
  <2>4. m - 1 \in Nat
    BY <2>1, <2>3, <1>2a
  <2>5. m - 1 \in Above
    BY <2>2, <2>4
  <2>. QED BY <2>5, <1>2
<1>4. Largest \in Sizes /\ \A y \in Sizes : y <= Largest
  BY <1>2, <1>3 DEF Largest, Max
<1>5. \A n \in Sizes : n \in Nat \ {0} /\ n < Guarantee /\ MaxHeld * n + 2 * Guarantee < Wrap
  BY AdmissionAssumption
<1>6. \A a, b \in Nat : a * b \in Nat /\ a * b = b * a
  OBVIOUS
<1>7. Guarantee \in Nat /\ Wrap \in Nat /\ MaxHeld \in Nat /\ Largest \in Nat
  BY <1>4, <1>5, AdmissionAssumption
<1>8. Cap \in Nat /\ Cap = MaxHeld * Largest
  BY <1>6, <1>7 DEF Cap
<1>. QED BY <1>4, <1>5, <1>7, <1>8

(* What the wrapping operations are near the counters' range.               *)
LEMMA WrapFacts ==
  ASSUME NEW x \in Int
  PROVE  /\ 0 <= x /\ x < Wrap => x % Wrap = x
         /\ Wrap <= x /\ x < 2 * Wrap => x % Wrap = x - Wrap
         /\ x < 0 /\ -Wrap <= x => x % Wrap = x + Wrap
<1>1. Wrap \in Nat \ {0}
  BY Limits
<1>2. CASE 0 <= x /\ x < Wrap
  BY <1>1, <1>2
<1>3. CASE Wrap <= x /\ x < 2 * Wrap
  BY <1>1, <1>3
<1>4. CASE x < 0 /\ -Wrap <= x
  BY <1>1, <1>4
<1>. QED BY <1>1, <1>2, <1>3, <1>4

(* The bytes of a sequence of packets that came in on a port of I.          *)
Charge(p, I) == IF p.in \in I THEN p.size ELSE 0
BytesIn(s, I) == SumFunctionOnSet([j \in 1 .. Len(s) |-> Charge(s[j], I)], 1 .. Len(s))
SumIn(F, O, Q, I) ==
  SumFunctionOnSet([t \in O \X Q |-> BytesIn(F[t[1]][t[2]], I)], O \X Q)
HeldIn(F) == SumFunctionOnSet([t \in Port \X Queue |-> Len(F[t[1]][t[2]])], Port \X Queue)

LEMMA ChargeInNat ==
  ASSUME NEW p \in Packet, NEW I
  PROVE  Charge(p, I) \in Nat /\ Charge(p, I) <= Largest
BY Packets DEF Charge, Packet

LEMMA BytesAsSums ==
  /\ \A o, q, I : Bytes(o, q, I) = BytesIn(fifo[o][q], I)
  /\ \A O, Q, I : SumBytes(O, Q, I) = SumIn(fifo, O, Q, I)
  /\ Held = HeldIn(fifo)
<1>1. ASSUME NEW o, NEW q, NEW I PROVE Bytes(o, q, I) = BytesIn(fifo[o][q], I)
  BY Zenon DEF Bytes, BytesIn, Charge, SumFunction
<1>2. ASSUME NEW O, NEW Q, NEW I PROVE SumBytes(O, Q, I) = SumIn(fifo, O, Q, I)
  <2>1. [t \in O \X Q |-> Bytes(t[1], t[2], I)] = [t \in O \X Q |-> BytesIn(fifo[t[1]][t[2]], I)]
    BY <1>1, Zenon
  <2>. QED BY <2>1, Zenon DEF SumBytes, SumIn, SumFunction
<1>3. Held = HeldIn(fifo)
  BY Zenon DEF Held, HeldIn, SumFunction
<1>. QED BY <1>1, <1>2, <1>3

LEMMA BytesInNat ==
  ASSUME NEW s \in Seq(Packet), NEW I
  PROVE  /\ BytesIn(s, I) \in Nat /\ BytesIn(s, I) <= Largest * Len(s)
         /\ \A J : I \subseteq J => BytesIn(s, I) <= BytesIn(s, J)
<1>. DEFINE f(K) == [j \in 1 .. Len(s) |-> Charge(s[j], K)]
            one == [j \in 1 .. Len(s) |-> 1]
<1>1. Len(s) \in Nat /\ IsFiniteSet(1 .. Len(s))
  BY FS_Interval
<1>2. \A j \in 1 .. Len(s) : s[j] \in Packet
  OBVIOUS
<1>3. \A K : \A j \in 1 .. Len(s) : f(K)[j] \in Nat /\ f(K)[j] <= Largest /\ f(K)[j] = Charge(s[j], K)
  BY <1>2, ChargeInNat
<1>4. \A K : BytesIn(s, K) = SumFunctionOnSet(f(K), 1 .. Len(s))
  BY Zenon DEF BytesIn
<1>5. BytesIn(s, I) \in Nat
  BY <1>1, <1>3, <1>4, SumOfNaturals
<1>6. BytesIn(s, I) <= Largest * Len(s)
  <2>1. SumFunctionOnSet(one, 1 .. Len(s)) = Len(s)
    BY <1>1, SumOfOnes
  <2>2. \A j \in 1 .. Len(s) : one[j] \in Nat /\ f(I)[j] \in Nat /\ f(I)[j] <= Largest * one[j]
    BY <1>3, Packets
  <2>. HIDE DEF f, one
  <2>3. SumFunctionOnSet(f(I), 1 .. Len(s)) <= Largest * SumFunctionOnSet(one, 1 .. Len(s))
    BY <1>1, <2>2, SumAtMost, Packets
  <2>. QED BY <2>1, <2>3, <1>4
<1>7. ASSUME NEW J, I \subseteq J PROVE BytesIn(s, I) <= BytesIn(s, J)
  <2>1. \A j \in 1 .. Len(s) : f(I)[j] \in Nat /\ f(J)[j] \in Nat /\ f(I)[j] <= 1 * f(J)[j]
    BY <1>2, <1>3, <1>7 DEF Charge
  <2>. HIDE DEF f
  <2>2. /\ SumFunctionOnSet(f(I), 1 .. Len(s)) <= 1 * SumFunctionOnSet(f(J), 1 .. Len(s))
        /\ SumFunctionOnSet(f(J), 1 .. Len(s)) \in Nat
    BY <1>1, <2>1, SumAtMost, SumOfNaturals
  <2>. QED BY <2>2, <1>4
<1>. QED BY <1>5, <1>6, <1>7

LEMMA BytesAppended ==
  ASSUME NEW s \in Seq(Packet), NEW p \in Packet, NEW I
  PROVE  BytesIn(Append(s, p), I) = BytesIn(s, I) + Charge(p, I)
<1>. DEFINE n == Len(s)
            f == [j \in 1 .. n |-> Charge(s[j], I)]
            g == [j \in 1 .. n + 1 |-> Charge(Append(s, p)[j], I)]
<1>1. n \in Nat /\ Len(Append(s, p)) = n + 1
  OBVIOUS
<1>2. \A j \in 1 .. n : s[j] \in Packet /\ Append(s, p)[j] = s[j]
  OBVIOUS
<1>3. Append(s, p)[n + 1] = p
  OBVIOUS
<1>4. \A j \in 1 .. n : g[j] = f[j] /\ f[j] \in Int
  BY <1>1, <1>2, ChargeInNat
<1>5. g[n + 1] = Charge(p, I) /\ g[n + 1] \in Int
  BY <1>1, <1>3, ChargeInNat
<1>6. BytesIn(s, I) = SumFunctionOnSet(f, 1 .. n) /\ BytesIn(Append(s, p), I) = SumFunctionOnSet(g, 1 .. n + 1)
  BY <1>1, Zenon DEF BytesIn
<1>. HIDE DEF f, g, n
<1>. QED BY <1>1, <1>4, <1>5, <1>6, SumAppended

LEMMA BytesTaken ==
  ASSUME NEW s \in Seq(Packet), s # <<>>, NEW I
  PROVE  BytesIn(s, I) = BytesIn(Tail(s), I) + Charge(Head(s), I)
<1>. DEFINE n == Len(Tail(s))
            g == [j \in 1 .. n |-> Charge(Tail(s)[j], I)]
            f == [j \in 1 .. n + 1 |-> Charge(s[j], I)]
<1>1. n \in Nat /\ Len(s) = n + 1
  OBVIOUS
<1>2. \A j \in 1 .. n : Tail(s)[j] = s[j + 1] /\ j + 1 \in 1 .. n + 1
  OBVIOUS
<1>3. Head(s) = s[1] /\ 1 \in 1 .. n + 1 /\ \A j \in 1 .. n + 1 : s[j] \in Packet
  BY <1>1
<1>4. \A j \in 1 .. n : g[j] = f[j + 1]
  BY <1>2
<1>5. f[1] = Charge(Head(s), I) /\ \A j \in 1 .. n + 1 : f[j] \in Int
  BY <1>3, ChargeInNat
<1>6. BytesIn(s, I) = SumFunctionOnSet(f, 1 .. n + 1) /\ BytesIn(Tail(s), I) = SumFunctionOnSet(g, 1 .. n)
  BY <1>1, Zenon DEF BytesIn
<1>7. f[1] \in Int
  BY <1>3, <1>5
<1>. HIDE DEF f, g, n
<1>8. /\ SumFunctionOnSet(g, 1 .. n) \in Int
      /\ SumFunctionOnSet(f, 1 .. n + 1) = f[1] + SumFunctionOnSet(g, 1 .. n)
  BY <1>1, <1>4, <1>5, SumShifted
<1>. QED BY <1>5, <1>6, <1>7, <1>8

Fifos == [Port -> [Queue -> Seq(Packet)]]

(* G holds what F holds and n more bytes, that came in on i, in queue q of  *)
(* port o.                                                                 *)
Holds(G, F, o, q, i, n) ==
  /\ \A I \in SUBSET Port :
       BytesIn(G[o][q], I) = BytesIn(F[o][q], I) + (IF i \in I THEN n ELSE 0)
  /\ Len(G[o][q]) = Len(F[o][q]) + 1
  /\ \A oo \in Port, qq \in Queue : oo # o \/ qq # q => G[oo][qq] = F[oo][qq]

LEMMA Cells ==
  ASSUME NEW O \in SUBSET Port, NEW Q \in SUBSET Queue
  PROVE  /\ O \X Q \subseteq Port \X Queue /\ IsFiniteSet(O \X Q)
         /\ \A t \in O \X Q : t[1] \in Port /\ t[2] \in Queue /\ t = <<t[1], t[2]>>
<1>1. IsFiniteSet(O) /\ IsFiniteSet(Q)
  BY AdmissionAssumption, FS_Subset
<1>2. IsFiniteSet(O \X Q)
  BY <1>1, FS_Product
<1>. QED BY <1>2

LEMMA SumInFacts ==
  ASSUME NEW F \in Fifos, NEW O \in SUBSET Port, NEW Q \in SUBSET Queue, NEW I \in SUBSET Port
  PROVE  /\ SumIn(F, O, Q, I) \in Nat /\ HeldIn(F) \in Nat
         /\ SumIn(F, O, Q, I) <= Largest * HeldIn(F)
         /\ \A t \in O \X Q : BytesIn(F[t[1]][t[2]], I) <= SumIn(F, O, Q, I)
<1>. DEFINE f == [t \in O \X Q |-> BytesIn(F[t[1]][t[2]], I)]
            g == [t \in Port \X Queue |-> Len(F[t[1]][t[2]])]
<1>1. /\ O \X Q \subseteq Port \X Queue /\ IsFiniteSet(O \X Q) /\ IsFiniteSet(Port \X Queue)
      /\ \A t \in Port \X Queue : t[1] \in Port /\ t[2] \in Queue
  BY Cells
<1>2. \A t \in Port \X Queue : F[t[1]][t[2]] \in Seq(Packet)
  BY <1>1 DEF Fifos
<1>3. \A t \in Port \X Queue : g[t] = Len(F[t[1]][t[2]]) /\ g[t] \in Nat
  BY <1>2
<1>4. \A t \in O \X Q : f[t] = BytesIn(F[t[1]][t[2]], I)
  OBVIOUS
<1>5. \A t \in O \X Q : f[t] \in Nat /\ f[t] <= Largest * g[t]
  BY <1>1, <1>2, <1>3, <1>4, BytesInNat
<1>6. SumIn(F, O, Q, I) = SumFunctionOnSet(f, O \X Q) /\ HeldIn(F) = SumFunctionOnSet(g, Port \X Queue)
  BY Zenon DEF SumIn, HeldIn
<1>. HIDE DEF f, g
<1>7. /\ SumFunctionOnSet(f, O \X Q) \in Nat
      /\ \A t \in O \X Q : f[t] <= SumFunctionOnSet(f, O \X Q)
  BY <1>1, <1>5, SumOfNaturals
<1>8. SumFunctionOnSet(g, Port \X Queue) \in Nat
  BY <1>1, <1>3, SumOfNaturals
<1>9. SumFunctionOnSet(f, O \X Q) <= Largest * SumFunctionOnSet(g, Port \X Queue)
  BY <1>1, <1>3, <1>5, SumAtMost, Packets
<1>. QED BY <1>4, <1>6, <1>7, <1>8, <1>9

LEMMA SumWithin ==
  ASSUME NEW F \in Fifos, NEW O \in SUBSET Port, NEW Q \in SUBSET Queue, NEW I \in SUBSET Port
  PROVE  SumIn(F, O, Q, I) <= SumIn(F, Port, Queue, Port)
<1>. DEFINE f == [t \in O \X Q |-> BytesIn(F[t[1]][t[2]], I)]
            g == [t \in Port \X Queue |-> BytesIn(F[t[1]][t[2]], Port)]
<1>1. /\ O \X Q \subseteq Port \X Queue /\ IsFiniteSet(Port \X Queue)
      /\ \A t \in Port \X Queue : t[1] \in Port /\ t[2] \in Queue
  BY Cells
<1>2. \A t \in Port \X Queue : F[t[1]][t[2]] \in Seq(Packet)
  BY <1>1 DEF Fifos
<1>3. \A t \in Port \X Queue : g[t] = BytesIn(F[t[1]][t[2]], Port) /\ g[t] \in Nat
  BY <1>2, BytesInNat
<1>4. \A t \in O \X Q : f[t] = BytesIn(F[t[1]][t[2]], I)
  OBVIOUS
<1>5. \A t \in O \X Q : f[t] \in Nat /\ f[t] <= 1 * g[t]
  <2>. TAKE t \in O \X Q
  <2>1. F[t[1]][t[2]] \in Seq(Packet) /\ t \in Port \X Queue
    BY <1>1, <1>2
  <2>2. /\ BytesIn(F[t[1]][t[2]], I) \in Nat
        /\ BytesIn(F[t[1]][t[2]], I) <= BytesIn(F[t[1]][t[2]], Port)
    BY <2>1, BytesInNat
  <2>3. f[t] \in Nat /\ f[t] <= g[t] /\ g[t] \in Nat
    BY <1>3, <1>4, <2>1, <2>2
  <2>. HIDE DEF f, g
  <2>. QED BY <2>3
<1>6. SumIn(F, O, Q, I) = SumFunctionOnSet(f, O \X Q) /\ SumIn(F, Port, Queue, Port) = SumFunctionOnSet(g, Port \X Queue)
  BY Zenon DEF SumIn
<1>. HIDE DEF f, g
<1>7. SumFunctionOnSet(g, Port \X Queue) \in Nat
  BY <1>1, <1>3, SumOfNaturals
<1>8. SumFunctionOnSet(f, O \X Q) <= 1 * SumFunctionOnSet(g, Port \X Queue)
  BY <1>1, <1>3, <1>5, SumAtMost
<1>. QED BY <1>6, <1>7, <1>8

LEMMA SumMoves ==
  ASSUME NEW F \in Fifos, NEW G \in Fifos, NEW o \in Port, NEW q \in Queue, NEW i \in Port,
         NEW n \in Nat, Holds(G, F, o, q, i, n),
         NEW O \in SUBSET Port, NEW Q \in SUBSET Queue, NEW I \in SUBSET Port
  PROVE  SumIn(G, O, Q, I) =
           SumIn(F, O, Q, I) + (IF o \in O /\ q \in Q /\ i \in I THEN n ELSE 0)
<1>. DEFINE f == [t \in O \X Q |-> BytesIn(F[t[1]][t[2]], I)]
            g == [t \in O \X Q |-> BytesIn(G[t[1]][t[2]], I)]
<1>1. /\ IsFiniteSet(O \X Q) /\ O \X Q \subseteq Port \X Queue
      /\ \A t \in O \X Q : t[1] \in Port /\ t[2] \in Queue /\ t = <<t[1], t[2]>>
  BY Cells
<1>2. \A t \in O \X Q : F[t[1]][t[2]] \in Seq(Packet) /\ G[t[1]][t[2]] \in Seq(Packet)
  BY <1>1 DEF Fifos
<1>3. \A t \in O \X Q : /\ f[t] = BytesIn(F[t[1]][t[2]], I) /\ f[t] \in Nat
                        /\ g[t] = BytesIn(G[t[1]][t[2]], I) /\ g[t] \in Nat
  BY <1>2, BytesInNat
<1>4. SumIn(F, O, Q, I) = SumFunctionOnSet(f, O \X Q) /\ SumIn(G, O, Q, I) = SumFunctionOnSet(g, O \X Q)
  BY Zenon DEF SumIn
<1>5. \A t \in O \X Q : t # <<o, q>> => g[t] = f[t]
  <2>. TAKE t \in O \X Q
  <2>. HAVE t # <<o, q>>
  <2>1. t[1] # o \/ t[2] # q
    BY <1>1
  <2>2. G[t[1]][t[2]] = F[t[1]][t[2]]
    BY <1>1, <2>1 DEF Holds
  <2>. QED BY <1>3, <2>2
<1>6. o \in O /\ q \in Q => /\ <<o, q>> \in O \X Q
                           /\ g[<<o, q>>] = f[<<o, q>>] + (IF i \in I THEN n ELSE 0)
  <2>. HAVE o \in O /\ q \in Q
  <2>1. <<o, q>> \in O \X Q /\ <<o, q>>[1] = o /\ <<o, q>>[2] = q
    OBVIOUS
  <2>. QED BY <1>3, <2>1 DEF Holds
<1>7. Summable(f, O \X Q) /\ Summable(g, O \X Q)
  BY <1>1, <1>3 DEF Summable
<1>. HIDE DEF f, g
<1>8. SumFunctionOnSet(f, O \X Q) \in Int /\ SumFunctionOnSet(g, O \X Q) \in Int
  BY <1>7, SumTakeOut
<1>9. CASE o \in O /\ q \in Q
  <2>1. \A y \in (O \X Q) \ {<<o, q>>} : g[y] = f[y]
    BY <1>5
  <2>2. SumFunctionOnSet(g, O \X Q) = SumFunctionOnSet(f, O \X Q) + (g[<<o, q>>] - f[<<o, q>>])
    BY <1>6, <1>7, <1>9, <2>1, SumChanged
  <2>. QED BY <1>3, <1>4, <1>6, <1>8, <1>9, <2>2
<1>10. CASE ~(o \in O /\ q \in Q)
  <2>1. \A t \in O \X Q : g[t] = f[t]
    BY <1>5, <1>10
  <2>2. SumFunctionOnSet(g, O \X Q) = SumFunctionOnSet(f, O \X Q)
    BY <1>1, <2>1, SumAgrees
  <2>. QED BY <1>4, <1>8, <1>10, <2>2
<1>. QED BY <1>9, <1>10

LEMMA HeldMoves ==
  ASSUME NEW F \in Fifos, NEW G \in Fifos, NEW o \in Port, NEW q \in Queue, NEW i, NEW n,
         Holds(G, F, o, q, i, n)
  PROVE  HeldIn(G) = HeldIn(F) + 1
<1>. DEFINE f == [t \in Port \X Queue |-> Len(F[t[1]][t[2]])]
            g == [t \in Port \X Queue |-> Len(G[t[1]][t[2]])]
            c == <<o, q>>
<1>1. /\ IsFiniteSet(Port \X Queue) /\ c \in Port \X Queue
      /\ \A t \in Port \X Queue : t[1] \in Port /\ t[2] \in Queue /\ t = <<t[1], t[2]>>
  BY Cells
<1>2. \A t \in Port \X Queue : /\ f[t] = Len(F[t[1]][t[2]]) /\ f[t] \in Nat
                             /\ g[t] = Len(G[t[1]][t[2]]) /\ g[t] \in Nat
  BY <1>1 DEF Fifos
<1>3. \A t \in (Port \X Queue) \ {c} : g[t] = f[t]
  <2>. TAKE t \in (Port \X Queue) \ {c}
  <2>1. t[1] # o \/ t[2] # q
    BY <1>1
  <2>2. G[t[1]][t[2]] = F[t[1]][t[2]]
    BY <1>1, <2>1 DEF Holds
  <2>. QED BY <1>2, <2>2
<1>4. g[c] = f[c] + 1
  BY <1>1, <1>2 DEF Holds
<1>5. Summable(f, Port \X Queue) /\ Summable(g, Port \X Queue)
  BY <1>1, <1>2 DEF Summable
<1>6. HeldIn(F) = SumFunctionOnSet(f, Port \X Queue) /\ HeldIn(G) = SumFunctionOnSet(g, Port \X Queue)
  BY Zenon DEF HeldIn
<1>7. f[c] \in Nat /\ g[c] \in Nat
  BY <1>1, <1>2
<1>. HIDE DEF f, g, c
<1>8. /\ SumFunctionOnSet(f, Port \X Queue) \in Int
      /\ SumFunctionOnSet(g, Port \X Queue) = SumFunctionOnSet(f, Port \X Queue) + (g[c] - f[c])
  BY <1>1, <1>3, <1>5, SumChanged, SumTakeOut
<1>. QED BY <1>4, <1>6, <1>7, <1>8

(* A packet appended to a queue, and the first one taken out of it.         *)
LEMMA AppendHolds ==
  ASSUME NEW F \in Fifos, NEW o \in Port, NEW q \in Queue, NEW p \in Packet
  PROVE  LET G == [F EXCEPT ![o][q] = Append(@, p)]
         IN  G \in Fifos /\ Holds(G, F, o, q, p.in, p.size)
<1>. DEFINE G == [F EXCEPT ![o][q] = Append(@, p)]
<1>1. F[o][q] \in Seq(Packet) /\ G[o][q] = Append(F[o][q], p)
  BY DEF Fifos
<1>2. G \in Fifos
  BY <1>1 DEF Fifos
<1>3. \A oo \in Port, qq \in Queue : oo # o \/ qq # q => G[oo][qq] = F[oo][qq]
  BY DEF Fifos
<1>4. Len(G[o][q]) = Len(F[o][q]) + 1
  BY <1>1
<1>. HIDE DEF G
<1>5. ASSUME NEW I \in SUBSET Port
      PROVE  BytesIn(G[o][q], I) = BytesIn(F[o][q], I) + (IF p.in \in I THEN p.size ELSE 0)
  BY <1>1, BytesAppended DEF Charge
<1>6. Holds(G, F, o, q, p.in, p.size)
  BY <1>3, <1>4, <1>5 DEF Holds
<1>. QED BY <1>2, <1>6 DEF G

LEMMA TailHolds ==
  ASSUME NEW F \in Fifos, NEW o \in Port, NEW q \in Queue, F[o][q] # <<>>
  PROVE  LET G == [F EXCEPT ![o][q] = Tail(@)]
         IN  G \in Fifos /\ Holds(F, G, o, q, Head(F[o][q]).in, Head(F[o][q]).size)
<1>. DEFINE G == [F EXCEPT ![o][q] = Tail(@)]
            p == Head(F[o][q])
<1>1. F[o][q] \in Seq(Packet) /\ G[o][q] = Tail(F[o][q])
  BY DEF Fifos
<1>2. G \in Fifos
  BY <1>1 DEF Fifos
<1>3. \A oo \in Port, qq \in Queue : oo # o \/ qq # q => F[oo][qq] = G[oo][qq]
  BY DEF Fifos
<1>. HIDE DEF G
<1>4. Len(F[o][q]) = Len(G[o][q]) + 1
  BY <1>1
<1>5. ASSUME NEW I \in SUBSET Port
      PROVE  BytesIn(F[o][q], I) = BytesIn(G[o][q], I) + (IF p.in \in I THEN p.size ELSE 0)
  BY <1>1, BytesTaken DEF Charge
<1>6. Holds(F, G, o, q, p.in, p.size)
  BY <1>3, <1>4, <1>5 DEF Holds
<1>. QED BY <1>2, <1>6 DEF G

LEMMA NoWrap ==
  ASSUME NEW F \in Fifos, HeldIn(F) <= MaxHeld
  PROVE  \A O \in SUBSET Port, Q \in SUBSET Queue, I \in SUBSET Port : SumIn(F, O, Q, I) \in 0 .. Cap
<1>. TAKE O \in SUBSET Port, Q \in SUBSET Queue, I \in SUBSET Port
<1>1. SumIn(F, O, Q, I) \in Nat /\ HeldIn(F) \in Nat /\ SumIn(F, O, Q, I) <= Largest * HeldIn(F)
  BY SumInFacts
<1>2. \A a, b, c \in Nat : b <= c => a * b <= a * c /\ a * b \in Nat
  OBVIOUS
<1>3. Largest * HeldIn(F) <= Cap /\ Largest * HeldIn(F) \in Nat
  BY <1>1, <1>2, Packets DEF Cap
<1>. QED BY <1>1, <1>3, Packets

LEMMA Charged ==
  ASSUME NEW x \in Nat, NEW n \in Nat, x + n <= Cap
  PROVE  Plus(x, n) = x + n /\ Minus(x + n, n) = x
<1>1. x \in Int /\ 0 <= x /\ x < Wrap /\ x + n \in Int /\ 0 <= x + n /\ x + n < Wrap /\ (x + n) - n = x
  BY Packets
<1>2. (x + n) % Wrap = x + n /\ x % Wrap = x
  BY <1>1, WrapFacts
<1>. QED BY <1>1, <1>2 DEF Plus, Minus

(* IngressExact of counters and of the packets they count. *)
IngressOf(F, all, pool, ports, pgs, outs) ==
  /\ all = SumIn(F, Port, Queue, Port) /\ pool = all
  /\ \A k \in Port : ports[k] = SumIn(F, Port, Queue, {k})
  /\ \A k \in Port, r \in Queue : pgs[k][r] = SumIn(F, Port, {r}, {k})
  /\ \A k \in Port, r \in Queue, u \in Port : outs[u][k][r] = BytesIn(F[u][r], {k})

LEMMA IngressParts ==
  /\ IngressExact <=> IngressOf(fifo, total, inSP, inPort, inPG, inOut)
  /\ IngressExact' <=> IngressOf(fifo', total', inSP', inPort', inPG', inOut')
<1>1. IngressExact <=> IngressOf(fifo, total, inSP, inPort, inPG, inOut)
  BY BytesAsSums, Zenon DEF IngressExact, IngressOf
<1>2. \A o, q, I : Bytes(o, q, I)' = BytesIn(fifo'[o][q], I)
  BY Zenon DEF Bytes, BytesIn, Charge, SumFunction
<1>3. ASSUME NEW O, NEW Q, NEW I PROVE SumBytes(O, Q, I)' = SumIn(fifo', O, Q, I)
  <2>1. [t \in O \X Q |-> Bytes(t[1], t[2], I)'] = [t \in O \X Q |-> BytesIn(fifo'[t[1]][t[2]], I)]
    BY <1>2, Zenon
  <2>. QED BY <2>1, Zenon DEF SumBytes, SumIn, SumFunction
<1>4. IngressExact' <=> IngressOf(fifo', total', inSP', inPort', inPG', inOut')
  BY <1>2, <1>3, Zenon DEF IngressExact, IngressOf
<1>. QED BY <1>1, <1>4

(* y is x with n bytes more, and the wrapping operations say so both ways.  *)
Moves(x, y, n) ==
  /\ x \in Nat /\ y \in 0 .. Cap /\ y = x + n
  /\ Plus(x, n) = y /\ Minus(y, n) = x

LEMMA SumMovesBy ==
  ASSUME NEW F \in Fifos, NEW G \in Fifos, NEW o \in Port, NEW q \in Queue, NEW i \in Port,
         NEW n \in Nat, Holds(G, F, o, q, i, n), HeldIn(G) <= MaxHeld,
         NEW O \in SUBSET Port, NEW Q \in SUBSET Queue, NEW I \in SUBSET Port
  PROVE  /\ o \in O /\ q \in Q /\ i \in I => Moves(SumIn(F, O, Q, I), SumIn(G, O, Q, I), n)
         /\ ~(o \in O /\ q \in Q /\ i \in I) => SumIn(G, O, Q, I) = SumIn(F, O, Q, I)
<1>1. SumIn(F, O, Q, I) \in Nat
  BY SumInFacts
<1>2. SumIn(G, O, Q, I) \in 0 .. Cap
  BY NoWrap
<1>3. SumIn(G, O, Q, I) = SumIn(F, O, Q, I) + (IF o \in O /\ q \in Q /\ i \in I THEN n ELSE 0)
  BY SumMoves
<1>4. CASE o \in O /\ q \in Q /\ i \in I
  <2>1. SumIn(G, O, Q, I) = SumIn(F, O, Q, I) + n
    BY <1>3, <1>4
  <2>2. SumIn(F, O, Q, I) + n <= Cap
    BY <2>1, <1>2
  <2>. QED BY <1>1, <1>2, <1>4, <2>1, <2>2, Charged DEF Moves
<1>5. CASE ~(o \in O /\ q \in Q /\ i \in I)
  BY <1>1, <1>3, <1>5
<1>. QED BY <1>4, <1>5

(* What n bytes more that came in on i and wait in queue q of o do to each  *)
(* of the sums the ingress counters stand for.                              *)
SumsMoved(F, G, q, i, n) ==
  /\ Moves(SumIn(F, Port, Queue, Port), SumIn(G, Port, Queue, Port), n)
  /\ Moves(SumIn(F, Port, Queue, {i}), SumIn(G, Port, Queue, {i}), n)
  /\ Moves(SumIn(F, Port, {q}, {i}), SumIn(G, Port, {q}, {i}), n)
  /\ \A k \in Port : k # i => SumIn(G, Port, Queue, {k}) = SumIn(F, Port, Queue, {k})
  /\ \A k \in Port, r \in Queue : k # i \/ r # q =>
       SumIn(G, Port, {r}, {k}) = SumIn(F, Port, {r}, {k})

PairsMoved(F, G, o, q, i, n) ==
  \A k \in Port, r \in Queue, u \in Port :
    /\ BytesIn(F[u][r], {k}) \in Nat /\ BytesIn(G[u][r], {k}) \in Nat
    /\ u = o /\ r = q /\ k = i => BytesIn(G[u][r], {k}) = BytesIn(F[u][r], {k}) + n
    /\ u # o \/ r # q \/ k # i => BytesIn(G[u][r], {k}) = BytesIn(F[u][r], {k})

LEMMA SumsMove ==
  ASSUME NEW F \in Fifos, NEW G \in Fifos, NEW o \in Port, NEW q \in Queue, NEW i \in Port,
         NEW n \in Nat, Holds(G, F, o, q, i, n), HeldIn(G) <= MaxHeld
  PROVE  SumsMoved(F, G, q, i, n)
<1>1. /\ Port \in SUBSET Port /\ Queue \in SUBSET Queue
      /\ \A k \in Port : {k} \in SUBSET Port
      /\ \A r \in Queue : {r} \in SUBSET Queue
  OBVIOUS
<1>2. Moves(SumIn(F, Port, Queue, Port), SumIn(G, Port, Queue, Port), n)
  BY <1>1, SumMovesBy
<1>3. Moves(SumIn(F, Port, Queue, {i}), SumIn(G, Port, Queue, {i}), n)
  BY <1>1, SumMovesBy
<1>4. Moves(SumIn(F, Port, {q}, {i}), SumIn(G, Port, {q}, {i}), n)
  BY <1>1, SumMovesBy
<1>5. ASSUME NEW k \in Port, k # i PROVE SumIn(G, Port, Queue, {k}) = SumIn(F, Port, Queue, {k})
  <2>1. {k} \in SUBSET Port /\ i \notin {k}
    BY <1>5
  <2>. QED BY <1>1, <2>1, SumMovesBy
<1>6. ASSUME NEW k \in Port, NEW r \in Queue, k # i \/ r # q
      PROVE  SumIn(G, Port, {r}, {k}) = SumIn(F, Port, {r}, {k})
  <2>1. ~(o \in Port /\ q \in {r} /\ i \in {k})
    BY <1>6
  <2>2. {k} \in SUBSET Port /\ {r} \in SUBSET Queue
    OBVIOUS
  <2>3. /\ o \in Port /\ q \in {r} /\ i \in {k} => Moves(SumIn(F, Port, {r}, {k}), SumIn(G, Port, {r}, {k}), n)
        /\ ~(o \in Port /\ q \in {r} /\ i \in {k}) => SumIn(G, Port, {r}, {k}) = SumIn(F, Port, {r}, {k})
    BY <1>1, <2>2, SumMovesBy
  <2>. QED BY <2>1, <2>3
<1>. QED BY <1>2, <1>3, <1>4, <1>5, <1>6 DEF SumsMoved

LEMMA PairsMove ==
  ASSUME NEW F \in Fifos, NEW G \in Fifos, NEW o \in Port, NEW q \in Queue, NEW i \in Port,
         NEW n \in Nat, Holds(G, F, o, q, i, n)
  PROVE  PairsMoved(F, G, o, q, i, n)
<1>. SUFFICES ASSUME NEW k \in Port, NEW r \in Queue, NEW u \in Port
     PROVE  /\ BytesIn(F[u][r], {k}) \in Nat /\ BytesIn(G[u][r], {k}) \in Nat
            /\ u = o /\ r = q /\ k = i => BytesIn(G[u][r], {k}) = BytesIn(F[u][r], {k}) + n
            /\ u # o \/ r # q \/ k # i => BytesIn(G[u][r], {k}) = BytesIn(F[u][r], {k})
  BY DEF PairsMoved
<1>1. F[u][r] \in Seq(Packet) /\ G[u][r] \in Seq(Packet)
  BY DEF Fifos
<1>2. BytesIn(F[u][r], {k}) \in Nat /\ BytesIn(G[u][r], {k}) \in Nat
  BY <1>1, BytesInNat
<1>3. CASE u = o /\ r = q
  <2>1. {k} \in SUBSET Port
    OBVIOUS
  <2>2. BytesIn(G[u][r], {k}) = BytesIn(F[u][r], {k}) + (IF i \in {k} THEN n ELSE 0)
    BY <1>3, <2>1 DEF Holds
  <2>. QED BY <1>2, <1>3, <2>2
<1>4. CASE ~(u = o /\ r = q)
  BY <1>2, <1>4 DEF Holds
<1>. QED BY <1>3, <1>4

LEMMA IngressUpdated ==
  ASSUME NEW F \in Fifos, NEW G \in Fifos, NEW o \in Port, NEW q \in Queue, NEW i \in Port,
         NEW n \in Nat, Holds(G, F, o, q, i, n), HeldIn(G) <= MaxHeld, IngressTyped,
         IngressOf(F, total, inSP, inPort, inPG, inOut),
         UpdateIngressAdmission(i, q, n, o)
  PROVE  IngressOf(G, total', inSP', inPort', inPG', inOut')
<1>0. SumsMoved(F, G, q, i, n) /\ PairsMoved(F, G, o, q, i, n)
  BY SumsMove, PairsMove
<1>1. total' = SumIn(G, Port, Queue, Port) /\ inSP' = total'
  BY <1>0 DEF SumsMoved, Moves, IngressOf, UpdateIngressAdmission
<1>2. ASSUME NEW k \in Port PROVE inPort'[k] = SumIn(G, Port, Queue, {k})
  <2>1. CASE k = i
    <3>1. Plus(SumIn(F, Port, Queue, {i}), n) = SumIn(G, Port, Queue, {i})
      BY <1>0 DEF SumsMoved, Moves
    <3>. QED BY <2>1, <3>1 DEF IngressOf, UpdateIngressAdmission, IngressTyped
  <2>2. CASE k # i
    <3>1. SumIn(F, Port, Queue, {k}) = SumIn(G, Port, Queue, {k})
      BY <1>0, <2>2 DEF SumsMoved, Moves
    <3>. QED BY <2>2, <3>1 DEF IngressOf, UpdateIngressAdmission, IngressTyped
  <2>. QED BY <2>1, <2>2
<1>3. ASSUME NEW k \in Port, NEW r \in Queue PROVE inPG'[k][r] = SumIn(G, Port, {r}, {k})
  <2>1. CASE k = i /\ r = q
    <3>1. Plus(SumIn(F, Port, {q}, {i}), n) = SumIn(G, Port, {q}, {i})
      BY <1>0 DEF SumsMoved, Moves
    <3>. QED BY <2>1, <3>1 DEF IngressOf, UpdateIngressAdmission, IngressTyped
  <2>2. CASE ~(k = i /\ r = q)
    <3>1. SumIn(F, Port, {r}, {k}) = SumIn(G, Port, {r}, {k})
      BY <1>0, <2>2 DEF SumsMoved, Moves
    <3>. QED BY <2>2, <3>1 DEF IngressOf, UpdateIngressAdmission, IngressTyped
  <2>. QED BY <2>1, <2>2
<1>4. ASSUME NEW k \in Port, NEW r \in Queue, NEW u \in Port
      PROVE  inOut'[u][k][r] = BytesIn(G[u][r], {k})
  <2>1. inOut[u][k][r] = BytesIn(F[u][r], {k})
    BY DEF IngressOf
  <2>2. CASE u = o /\ r = q /\ k = i
    <3>1. BytesIn(G[u][r], {k}) = BytesIn(F[u][r], {k}) + n
      BY <1>0, <2>2 DEF PairsMoved
    <3>. QED BY <2>1, <2>2, <3>1 DEF UpdateIngressAdmission, IngressTyped
  <2>3. CASE u # o \/ r # q \/ k # i
    <3>1. BytesIn(G[u][r], {k}) = BytesIn(F[u][r], {k})
      BY <1>0, <2>3 DEF PairsMoved
    <3>. QED BY <2>1, <2>3, <3>1 DEF UpdateIngressAdmission, IngressTyped
  <2>. QED BY <2>2, <2>3
<1>. QED BY <1>1, <1>2, <1>3, <1>4 DEF IngressOf

LEMMA IngressRemoved ==
  ASSUME NEW F \in Fifos, NEW G \in Fifos, NEW o \in Port, NEW q \in Queue, NEW i \in Port,
         NEW n \in Nat, Holds(G, F, o, q, i, n), HeldIn(G) <= MaxHeld, IngressTyped,
         IngressOf(G, total, inSP, inPort, inPG, inOut),
         RemoveFromIngressAdmission(i, q, n, o)
  PROVE  IngressOf(F, total', inSP', inPort', inPG', inOut')
<1>0. SumsMoved(F, G, q, i, n) /\ PairsMoved(F, G, o, q, i, n)
  BY SumsMove, PairsMove
<1>1. total' = SumIn(F, Port, Queue, Port) /\ inSP' = total'
  BY <1>0 DEF SumsMoved, Moves, IngressOf, RemoveFromIngressAdmission
<1>2. ASSUME NEW k \in Port PROVE inPort'[k] = SumIn(F, Port, Queue, {k})
  <2>1. CASE k = i
    <3>1. Minus(SumIn(G, Port, Queue, {i}), n) = SumIn(F, Port, Queue, {i})
      BY <1>0 DEF SumsMoved, Moves
    <3>. QED BY <2>1, <3>1 DEF IngressOf, RemoveFromIngressAdmission, IngressTyped
  <2>2. CASE k # i
    <3>1. SumIn(G, Port, Queue, {k}) = SumIn(F, Port, Queue, {k})
      BY <1>0, <2>2 DEF SumsMoved, Moves
    <3>. QED BY <2>2, <3>1 DEF IngressOf, RemoveFromIngressAdmission, IngressTyped
  <2>. QED BY <2>1, <2>2
<1>3. ASSUME NEW k \in Port, NEW r \in Queue PROVE inPG'[k][r] = SumIn(F, Port, {r}, {k})
  <2>1. CASE k = i /\ r = q
    <3>1. Minus(SumIn(G, Port, {q}, {i}), n) = SumIn(F, Port, {q}, {i})
      BY <1>0 DEF SumsMoved, Moves
    <3>. QED BY <2>1, <3>1 DEF IngressOf, RemoveFromIngressAdmission, IngressTyped
  <2>2. CASE ~(k = i /\ r = q)
    <3>1. SumIn(G, Port, {r}, {k}) = SumIn(F, Port, {r}, {k})
      BY <1>0, <2>2 DEF SumsMoved, Moves
    <3>. QED BY <2>2, <3>1 DEF IngressOf, RemoveFromIngressAdmission, IngressTyped
  <2>. QED BY <2>1, <2>2
<1>4. ASSUME NEW k \in Port, NEW r \in Queue, NEW u \in Port
      PROVE  inOut'[u][k][r] = BytesIn(F[u][r], {k})
  <2>1. inOut[u][k][r] = BytesIn(G[u][r], {k})
    BY DEF IngressOf
  <2>2. CASE u = o /\ r = q /\ k = i
    <3>1. /\ BytesIn(G[u][r], {k}) = BytesIn(F[u][r], {k}) + n
          /\ BytesIn(F[u][r], {k}) \in Nat
      BY <1>0, <2>2 DEF PairsMoved
    <3>. QED BY <2>1, <2>2, <3>1 DEF RemoveFromIngressAdmission, IngressTyped
  <2>3. CASE u # o \/ r # q \/ k # i
    <3>1. BytesIn(F[u][r], {k}) = BytesIn(G[u][r], {k})
      BY <1>0, <2>3 DEF PairsMoved
    <3>. QED BY <2>1, <2>3, <3>1 DEF RemoveFromIngressAdmission, IngressTyped
  <2>. QED BY <2>2, <2>3
<1>. QED BY <1>1, <1>2, <1>3, <1>4 DEF IngressOf


LEMMA HeadroomStaysCovered ==
  ASSUME NEW F \in Fifos, NEW G \in Fifos, NEW o \in Port, NEW q \in Queue, NEW i \in Port,
         NEW n \in Nat, Holds(G, F, o, q, i, n), HeldIn(G) <= MaxHeld, IngressTyped, HeadroomCovered
  PROVE  /\ IngressOf(F, total, inSP, inPort, inPG, inOut) /\ UpdateIngressAdmission(i, q, n, o)
              => HeadroomCovered'
         /\ IngressOf(G, total, inSP, inPort, inPG, inOut) /\ RemoveFromIngressAdmission(i, q, n, o)
              => HeadroomCovered'
<1>0. SumsMoved(F, G, q, i, n)
  BY SumsMove
<1>1. /\ SumIn(G, Port, {q}, {i}) = SumIn(F, Port, {q}, {i}) + n
      /\ Plus(SumIn(F, Port, {q}, {i}), n) = SumIn(G, Port, {q}, {i})
      /\ Minus(SumIn(G, Port, {q}, {i}), n) = SumIn(F, Port, {q}, {i})
      /\ SumIn(F, Port, {q}, {i}) \in Nat /\ SumIn(G, Port, {q}, {i}) \in 0 .. Cap
  BY <1>0 DEF SumsMoved, Moves
<1>2. headroom[i][q] \in Nat /\ headroom[i][q] <= inPG[i][q]
  BY Limits DEF IngressTyped, HeadroomCovered
<1>3. CASE IngressOf(F, total, inSP, inPort, inPG, inOut) /\ UpdateIngressAdmission(i, q, n, o)
  <2>1. inPG[i][q] = SumIn(F, Port, {q}, {i})
    BY <1>3 DEF IngressOf
  <2>2. headroom[i][q] + n <= Cap
    BY <1>1, <1>2, <2>1, Packets
  <2>3. Plus(headroom[i][q], n) = headroom[i][q] + n
    BY <1>2, <2>2, Charged
  <2>4. inPG' = [inPG EXCEPT ![i][q] = Plus(inPG[i][q], n)]
    BY <1>3 DEF UpdateIngressAdmission
  <2>5. PICK h \in {headroom[i][q], headroom[i][q] + n} : headroom' = [headroom EXCEPT ![i][q] = h]
    <3>1. headroom' = [headroom EXCEPT ![i][q] = IF inSP' > SpLimit THEN Plus(headroom[i][q], n) ELSE headroom[i][q]]
      BY <1>3 DEF UpdateIngressAdmission
    <3>2. CASE inSP' > SpLimit
      BY <2>3, <3>1, <3>2
    <3>3. CASE ~(inSP' > SpLimit)
      BY <3>1, <3>3
    <3>. QED BY <3>2, <3>3
  <2>6. h <= Plus(inPG[i][q], n)
    BY <1>1, <1>2, <2>1, <2>5
  <2>. QED BY <2>4, <2>5, <2>6 DEF IngressTyped, HeadroomCovered
<1>4. CASE IngressOf(G, total, inSP, inPort, inPG, inOut) /\ RemoveFromIngressAdmission(i, q, n, o)
  <2>1. inPG[i][q] = SumIn(G, Port, {q}, {i})
    BY <1>4 DEF IngressOf
  <2>2. inPG' = [inPG EXCEPT ![i][q] = Minus(inPG[i][q], n)]
    BY <1>4 DEF RemoveFromIngressAdmission
  <2>3. headroom' = [headroom EXCEPT ![i][q] = HeadroomLess(headroom[i][q], n)]
    BY <1>4 DEF RemoveFromIngressAdmission
  <2>4. HeadroomLess(headroom[i][q], n) <= Minus(inPG[i][q], n)
    BY <1>1, <1>2, <2>1 DEF HeadroomLess
  <2>. QED BY <2>2, <2>3, <2>4 DEF IngressTyped, HeadroomCovered
<1>. QED BY <1>3, <1>4

(* The two counters of an egress queue that holds B bytes.  Either nothing  *)
(* has wrapped and they add up to B, or the guaranteed one has wrapped by   *)
(* less than a packet and the shared one is that much above B.              *)
Covers(min, shared, B) ==
  /\ min \in Counter /\ shared \in Nat
  /\ \/ min <= Guarantee /\ min + shared = B
     \/ min > Guarantee /\ Wrap - min < Largest /\ min + shared = B + Wrap

EgressCovers == \A o \in Port, q \in Queue : Covers(qMin[o][q], qShared[o][q], Bytes(o, q, Port))

(* Split writes the two counters of its queue and of no other. *)
LEMMA SplitWrites ==
  ASSUME EgressTyped, NEW o \in Port, NEW q \in Queue, NEW min, NEW shared, Split(o, q, min, shared)
  PROVE  /\ qMin'[o][q] = min /\ qShared'[o][q] = shared
         /\ \A oo \in Port, qq \in Queue : oo # o \/ qq # q =>
              qMin'[oo][qq] = qMin[oo][qq] /\ qShared'[oo][qq] = qShared[oo][qq]
  BY DEF EgressTyped, Split

LEMMA UpdateCovers ==
  ASSUME EgressTyped, NEW o \in Port, NEW q \in Queue, NEW n \in Sizes, NEW B \in Nat, B + n <= Cap,
         Covers(qMin[o][q], qShared[o][q], B), UpdateEgressAdmission(o, q, n)
  PROVE  \E min, shared : Split(o, q, min, shared) /\ Covers(min, shared, B + n)
<1>. DEFINE a == qMin[o][q]
            s == qShared[o][q]
<1>1. a \in Nat /\ a < Wrap /\ s \in Nat /\ n \in Nat \ {0} /\ n <= Largest
  BY Packets, Limits DEF Covers, Counter
<1>2. \/ Plus(a, n) < Guarantee /\ Split(o, q, Plus(a, n), s)
      \/ ~(Plus(a, n) < Guarantee) /\ Fill(o, q, a, Plus(s, n))
  BY DEF UpdateEgressAdmission
<1>3. Covers(a, s, B)
  OBVIOUS
<1>. HIDE DEF a, s
<1>4. CASE a <= Guarantee /\ a + s = B
  <2>1. Plus(a, n) = a + n /\ Plus(s, n) = s + n
    <3>1. a + n \in Int /\ 0 <= a + n /\ a + n < Wrap /\ s + n \in Int /\ 0 <= s + n /\ s + n < Wrap
      BY <1>1, <1>4, Packets
    <3>. QED BY <3>1, WrapFacts DEF Plus
  <2>2. CASE a + n < Guarantee
    <3>1. Split(o, q, a + n, s)
      BY <1>2, <2>1, <2>2
    <3>2. Covers(a + n, s, B + n)
      BY <1>1, <1>4, <2>2, Packets DEF Covers, Counter
    <3>. QED BY <3>1, <3>2
  <2>3. CASE ~(a + n < Guarantee)
    <3>1. Fill(o, q, a, s + n)
      BY <1>2, <2>1, <2>3
    <3>2. CASE a < Guarantee /\ s + n > Guarantee
      <4>1. Minus(s + n, Guarantee) = s + n - Guarantee
        <5>1. s + n - Guarantee \in Int /\ 0 <= s + n - Guarantee
          BY <1>1, <3>2, Packets
        <5>2. s + n - Guarantee < Wrap
          BY <1>1, <1>4, Packets
        <5>3. (s + n - Guarantee) % Wrap = s + n - Guarantee
          BY <5>1, <5>2, WrapFacts
        <5>4. (s + n) - Guarantee = s + n - Guarantee
          BY <1>1, Packets
        <5>. QED BY <5>3, <5>4 DEF Minus
      <4>2. Plus(s + n - Guarantee, a) = s + n - Guarantee + a
        <5>1. s + n - Guarantee + a \in Int /\ 0 <= s + n - Guarantee + a /\ s + n - Guarantee + a < Wrap
          BY <1>1, <1>4, <3>2, Packets
        <5>. QED BY <5>1, WrapFacts DEF Plus
      <4>3. Split(o, q, Guarantee, s + n - Guarantee + a)
        BY <3>1, <3>2, <4>1, <4>2 DEF Fill
      <4>4. Covers(Guarantee, s + n - Guarantee + a, B + n)
        BY <1>1, <1>4, <3>2, Packets DEF Covers, Counter
      <4>. QED BY <4>3, <4>4
    <3>3. CASE ~(a < Guarantee /\ s + n > Guarantee)
      <4>1. Split(o, q, a, s + n)
        BY <3>1, <3>3 DEF Fill
      <4>2. Covers(a, s + n, B + n)
        BY <1>1, <1>4, Packets DEF Covers, Counter
      <4>. QED BY <4>1, <4>2
    <3>. QED BY <3>2, <3>3
  <2>. QED BY <2>2, <2>3
<1>5. CASE a > Guarantee /\ Wrap - a < Largest /\ a + s = B + Wrap
  <2>1. Plus(s, n) = s + n
    <3>1. s + n \in Int /\ 0 <= s + n /\ s + n < Wrap
      BY <1>1, <1>5, Packets
    <3>. QED BY <3>1, WrapFacts DEF Plus
  <2>2. CASE a + n >= Wrap
    <3>1. Plus(a, n) = a + n - Wrap
      <4>1. a + n \in Int /\ Wrap <= a + n
        BY <1>1, <2>2, Packets
      <4>2. n < Wrap
        BY <1>1, Packets
      <4>3. a + n < 2 * Wrap
        BY <1>1, <4>2, Packets
      <4>4. (a + n) % Wrap = (a + n) - Wrap
        BY <4>1, <4>3, WrapFacts
      <4>5. (a + n) - Wrap = a + n - Wrap
        BY <1>1, Packets
      <4>. QED BY <4>4, <4>5 DEF Plus
    <3>2. a + n - Wrap < Guarantee
      BY <1>1, Packets
    <3>3. Split(o, q, a + n - Wrap, s)
      BY <1>2, <3>1, <3>2
    <3>4. Covers(a + n - Wrap, s, B + n)
      BY <1>1, <1>5, <2>2, <3>2, Packets DEF Covers, Counter
    <3>. QED BY <3>3, <3>4
  <2>3. CASE a + n < Wrap
    <3>1. Plus(a, n) = a + n
      <4>1. a + n \in Int /\ 0 <= a + n
        BY <1>1
      <4>. QED BY <2>3, <4>1, WrapFacts DEF Plus
    <3>2. ~(a + n < Guarantee) /\ ~(a < Guarantee)
      BY <1>1, <1>5, Packets
    <3>3. Split(o, q, a, s + n)
      BY <1>2, <2>1, <3>1, <3>2 DEF Fill
    <3>4. Covers(a, s + n, B + n)
      BY <1>1, <1>5, Packets DEF Covers, Counter
    <3>. QED BY <3>3, <3>4
  <2>. QED BY <1>1, <2>2, <2>3, Packets
<1>. QED BY <1>3, <1>4, <1>5 DEF Covers

LEMMA RemoveCovers ==
  ASSUME EgressTyped, NEW o \in Port, NEW q \in Queue, NEW n \in Sizes, NEW B \in Nat, B + n <= Cap,
         Covers(qMin[o][q], qShared[o][q], B + n), RemoveFromEgressAdmission(o, q, n)
  PROVE  \E min, shared : Split(o, q, min, shared) /\ Covers(min, shared, B)
<1>. DEFINE a == qMin[o][q]
            s == qShared[o][q]
<1>1. a \in Nat /\ a < Wrap /\ s \in Nat /\ n \in Nat \ {0} /\ n <= Largest
  BY Packets, Limits DEF Covers, Counter
<1>2. \/ s >= n /\ Split(o, q, a, Minus(s, n))
      \/ ~(s >= n) /\ Fill(o, q, Minus(a, n), s)
  BY DEF RemoveFromEgressAdmission
<1>3. Covers(a, s, B + n)
  OBVIOUS
<1>. HIDE DEF a, s
<1>4. CASE s >= n
  <2>1. Minus(s, n) = s - n
    <3>1. s - n \in Int /\ 0 <= s - n /\ s - n < Wrap
      <4>1. s < Wrap
        BY <1>1, <1>3, Packets DEF Covers
      <4>. QED BY <1>1, <1>4, <4>1, Packets
    <3>. QED BY <3>1, WrapFacts DEF Minus
  <2>2. Split(o, q, a, s - n)
    BY <1>2, <1>4, <2>1
  <2>3. Covers(a, s - n, B)
    BY <1>1, <1>3, <1>4, Packets DEF Covers, Counter
  <2>. QED BY <2>2, <2>3
<1>5. CASE s < n
  <2>1. a <= Guarantee /\ a + s = B + n
    BY <1>1, <1>3, <1>5, Packets DEF Covers
  <2>2. Fill(o, q, Minus(a, n), s) /\ ~(s > Guarantee)
    BY <1>1, <1>2, <1>5, Packets
  <2>3. Split(o, q, Minus(a, n), s)
    BY <2>2 DEF Fill
  <2>4. CASE a >= n
    <3>1. Minus(a, n) = a - n
      <4>1. a - n \in Int /\ 0 <= a - n /\ a - n < Wrap
        BY <1>1, <2>4, Packets
      <4>. QED BY <4>1, WrapFacts DEF Minus
    <3>2. Covers(a - n, s, B)
      BY <1>1, <2>1, <2>4, Packets DEF Covers, Counter
    <3>. QED BY <2>3, <3>1, <3>2
  <2>5. CASE a < n
    <3>1. Minus(a, n) = a - n + Wrap
      <4>1. a - n \in Int /\ a - n < 0 /\ -Wrap <= a - n
        BY <1>1, <2>5, Packets
      <4>. QED BY <4>1, WrapFacts DEF Minus
    <3>2. Covers(a - n + Wrap, s, B)
      BY <1>1, <1>5, <2>1, <2>5, Packets DEF Covers, Counter
    <3>. QED BY <2>3, <3>1, <3>2
  <2>. QED BY <1>1, <2>4, <2>5
<1>. QED BY <1>1, <1>4, <1>5

-----------------------------------------------------------------------------
LEMMA SumsAfter ==
  /\ \A o, q, I : Bytes(o, q, I)' = BytesIn(fifo'[o][q], I)
  /\ Held' = HeldIn(fifo')
<1>1. \A o, q, I : Bytes(o, q, I)' = BytesIn(fifo'[o][q], I)
  BY Zenon DEF Bytes, BytesIn, Charge, SumFunction
<1>2. Held' = HeldIn(fifo')
  BY Zenon DEF Held, HeldIn, SumFunction
<1>. QED BY <1>1, <1>2

(* The invariant: each pair of egress counters says where the bytes of its  *)
(* queue are, and the bound on the packets held keeps every sum below Wrap. *)
IInv ==
  /\ TypeOK
  /\ Held <= MaxHeld
  /\ IngressExact
  /\ HeadroomCovered
  /\ EgressCovers

(* Once the queue changed has its new counters, every queue is covered. *)
LEMMA CoversAll ==
  ASSUME TypeOK, EgressCovers, NEW o \in Port, NEW q \in Queue, NEW min, NEW shared,
         Split(o, q, min, shared), Covers(min, shared, Bytes(o, q, Port)'),
         \A oo \in Port, qq \in Queue : oo # o \/ qq # q => fifo'[oo][qq] = fifo[oo][qq]
  PROVE  EgressCovers'
<1>. SUFFICES ASSUME NEW oo \in Port, NEW qq \in Queue
     PROVE  Covers(qMin'[oo][qq], qShared'[oo][qq], Bytes(oo, qq, Port)')
  BY Zenon DEF EgressCovers, Covers
<1>1. /\ qMin'[o][q] = min /\ qShared'[o][q] = shared
      /\ oo # o \/ qq # q => qMin'[oo][qq] = qMin[oo][qq] /\ qShared'[oo][qq] = qShared[oo][qq]
  BY SplitWrites, TypeParts
<1>2. CASE oo = o /\ qq = q
  BY <1>1, <1>2
<1>3. CASE ~(oo = o /\ qq = q)
  <2>1. fifo'[oo][qq] = fifo[oo][qq]
    BY <1>3
  <2>2. Bytes(oo, qq, Port)' = Bytes(oo, qq, Port)
    BY <2>1, BytesAsSums, SumsAfter
  <2>3. Covers(qMin[oo][qq], qShared[oo][qq], Bytes(oo, qq, Port))
    BY DEF EgressCovers
  <2>. QED BY <1>1, <1>3, <2>2, <2>3
<1>. QED BY <1>2, <1>3

LEMMA AdmitKeeps ==
  ASSUME IInv, NEW t \in Traffic, NEW n \in Sizes, Admit(t[1], t[2], t[3], n)
  PROVE  IInv'
<1>. DEFINE i == t[1]
            o == t[2]
            q == t[3]
            p == [in |-> i, size |-> n]
<1>1. i \in Port /\ o \in Port /\ q \in Queue /\ n \in Nat
  BY AdmissionAssumption
<1>2. /\ Held < MaxHeld /\ UpdateIngressAdmission(i, q, n, o) /\ UpdateEgressAdmission(o, q, n)
      /\ fifo' = [fifo EXCEPT ![o][q] = Append(@, p)]
  BY DEF Admit
<1>3. TypeOK'
  BY AdmitTyped DEF IInv
<1>4. p \in Packet /\ p.in = i /\ p.size = n
  BY <1>1 DEF Packet
<1>5. fifo \in Fifos /\ IngressTyped /\ EgressTyped
  BY TypeParts DEF IInv, FifoTyped, Fifos
<1>. HIDE DEF i, o, q, p
<1>6. fifo' \in Fifos /\ Holds(fifo', fifo, o, q, i, n)
  <2>1. LET G == [fifo EXCEPT ![o][q] = Append(@, p)]
        IN  G \in Fifos /\ Holds(G, fifo, o, q, p.in, p.size)
    BY <1>1, <1>4, <1>5, AppendHolds
  <2>. QED BY <1>2, <1>4, <2>1
<1>7. HeldIn(fifo') <= MaxHeld /\ HeldIn(fifo') = HeldIn(fifo) + 1
  <2>1. HeldIn(fifo) < MaxHeld /\ HeldIn(fifo) \in Nat
    BY <1>2, <1>5, BytesAsSums, SumInFacts
  <2>2. HeldIn(fifo') = HeldIn(fifo) + 1
    BY <1>1, <1>5, <1>6, HeldMoves
  <2>. QED BY <2>1, <2>2, Packets
<1>8. Held' <= MaxHeld
  BY <1>7, SumsAfter
<1>9. IngressExact'
  <2>1. IngressOf(fifo, total, inSP, inPort, inPG, inOut)
    BY IngressParts DEF IInv
  <2>2. IngressOf(fifo', total', inSP', inPort', inPG', inOut')
    BY <1>1, <1>2, <1>5, <1>6, <1>7, <2>1, IngressUpdated
  <2>. QED BY <2>2, IngressParts
<1>10. HeadroomCovered'
  <2>1. IngressOf(fifo, total, inSP, inPort, inPG, inOut) /\ HeadroomCovered
    BY IngressParts DEF IInv
  <2>. QED BY <1>1, <1>2, <1>5, <1>6, <1>7, <2>1, HeadroomStaysCovered
<1>11. EgressCovers'
  <2>. DEFINE B == BytesIn(fifo[o][q], Port)
  <2>1. B \in Nat /\ BytesIn(fifo'[o][q], Port) = B + n
    <3>1. fifo[o][q] \in Seq(Packet)
      BY <1>1, <1>5 DEF Fifos
    <3>. QED BY <1>1, <1>6, <3>1, BytesInNat DEF Holds
  <2>2. B + n <= Cap
    <3>1. SumIn(fifo', Port, Queue, Port) \in 0 .. Cap
      BY <1>6, <1>7, NoWrap
    <3>2. BytesIn(fifo'[o][q], Port) <= SumIn(fifo', Port, Queue, Port)
      <4>1. <<o, q>> \in Port \X Queue /\ <<o, q>>[1] = o /\ <<o, q>>[2] = q
        BY <1>1
      <4>. QED BY <1>6, <4>1, SumInFacts
    <3>. QED BY <2>1, <3>1, <3>2, Packets
  <2>3. Covers(qMin[o][q], qShared[o][q], B)
    BY <1>1, BytesAsSums DEF IInv, EgressCovers
  <2>. HIDE DEF B
  <2>4. PICK min, shared : Split(o, q, min, shared) /\ Covers(min, shared, B + n)
    BY <1>1, <1>2, <1>5, <2>1, <2>2, <2>3, UpdateCovers
  <2>5. Covers(min, shared, Bytes(o, q, Port)')
    BY <2>1, <2>4, SumsAfter
  <2>6. \A oo \in Port, qq \in Queue : oo # o \/ qq # q => fifo'[oo][qq] = fifo[oo][qq]
    BY <1>6 DEF Holds
  <2>. QED BY <1>1, <2>4, <2>5, <2>6, CoversAll DEF IInv
<1>. QED BY <1>3, <1>8, <1>9, <1>10, <1>11 DEF IInv

LEMMA ReleaseKeeps ==
  ASSUME IInv, NEW o \in Port, NEW q \in Queue, Release(o, q)
  PROVE  IInv'
<1>. DEFINE p == Head(fifo[o][q])
            i == p.in
            n == p.size
<1>1. fifo \in Fifos /\ IngressTyped /\ EgressTyped
  BY TypeParts DEF IInv, FifoTyped, Fifos
<1>2. /\ fifo[o][q] # <<>>
      /\ RemoveFromIngressAdmission(i, q, n, o) /\ RemoveFromEgressAdmission(o, q, n)
      /\ fifo' = [fifo EXCEPT ![o][q] = Tail(@)]
  BY DEF Release
<1>3. TypeOK'
  BY ReleaseTyped DEF IInv
<1>4. i \in Port /\ n \in Sizes /\ n \in Nat
  <2>1. fifo[o][q] \in Seq(Packet)
    BY <1>1 DEF Fifos
  <2>2. p \in Packet
    BY <1>2, <2>1
  <2>. QED BY <2>2, SizeInNat DEF Packet
<1>5. fifo' \in Fifos /\ Holds(fifo, fifo', o, q, i, n)
  <2>1. LET G == [fifo EXCEPT ![o][q] = Tail(@)]
        IN  G \in Fifos /\ Holds(fifo, G, o, q, i, n)
    BY <1>1, <1>2, TailHolds
  <2>. QED BY <1>2, <2>1
<1>. HIDE DEF p, i, n
<1>6. HeldIn(fifo) <= MaxHeld /\ HeldIn(fifo') <= MaxHeld
  <2>1. HeldIn(fifo) <= MaxHeld /\ HeldIn(fifo) \in Nat /\ HeldIn(fifo') \in Nat
    BY <1>1, <1>5, BytesAsSums, SumInFacts DEF IInv
  <2>2. HeldIn(fifo) = HeldIn(fifo') + 1
    BY <1>1, <1>5, HeldMoves
  <2>. QED BY <2>1, <2>2, Packets
<1>7. Held' <= MaxHeld
  BY <1>6, SumsAfter
<1>8. IngressExact'
  <2>1. IngressOf(fifo, total, inSP, inPort, inPG, inOut)
    BY IngressParts DEF IInv
  <2>2. IngressOf(fifo', total', inSP', inPort', inPG', inOut')
    BY <1>1, <1>2, <1>4, <1>5, <1>6, <2>1, IngressRemoved
  <2>. QED BY <2>2, IngressParts
<1>9. HeadroomCovered'
  <2>1. IngressOf(fifo, total, inSP, inPort, inPG, inOut) /\ HeadroomCovered
    BY IngressParts DEF IInv
  <2>. QED BY <1>1, <1>2, <1>4, <1>5, <1>6, <2>1, HeadroomStaysCovered
<1>10. EgressCovers'
  <2>. DEFINE B == BytesIn(fifo'[o][q], Port)
  <2>1. B \in Nat /\ BytesIn(fifo[o][q], Port) = B + n
    <3>1. fifo'[o][q] \in Seq(Packet)
      BY <1>5 DEF Fifos
    <3>. QED BY <1>4, <1>5, <3>1, BytesInNat DEF Holds
  <2>2. B + n <= Cap
    <3>1. SumIn(fifo, Port, Queue, Port) \in 0 .. Cap
      BY <1>1, <1>6, NoWrap
    <3>2. BytesIn(fifo[o][q], Port) <= SumIn(fifo, Port, Queue, Port)
      <4>1. <<o, q>> \in Port \X Queue /\ <<o, q>>[1] = o /\ <<o, q>>[2] = q
        OBVIOUS
      <4>. QED BY <1>1, <4>1, SumInFacts
    <3>. QED BY <1>4, <2>1, <3>1, <3>2, Packets
  <2>3. Covers(qMin[o][q], qShared[o][q], B + n)
    BY <2>1, BytesAsSums DEF IInv, EgressCovers
  <2>. HIDE DEF B
  <2>4. PICK min, shared : Split(o, q, min, shared) /\ Covers(min, shared, B)
    BY <1>1, <1>2, <1>4, <2>1, <2>2, <2>3, RemoveCovers
  <2>5. Covers(min, shared, Bytes(o, q, Port)')
    BY <2>4, SumsAfter DEF B
  <2>6. \A oo \in Port, qq \in Queue : oo # o \/ qq # q => fifo'[oo][qq] = fifo[oo][qq]
    BY <1>5 DEF Holds
  <2>. QED BY <2>4, <2>5, <2>6, CoversAll DEF IInv
<1>. QED BY <1>3, <1>7, <1>8, <1>9, <1>10 DEF IInv

LEMMA NothingHeld ==
  ASSUME NEW F \in Fifos, \A o \in Port, q \in Queue : F[o][q] = <<>>
  PROVE  /\ \A I : \A o \in Port, q \in Queue : BytesIn(F[o][q], I) = 0
         /\ \A I : \A O \in SUBSET Port, Q \in SUBSET Queue : SumIn(F, O, Q, I) = 0
         /\ HeldIn(F) = 0
<1>1. ASSUME NEW o \in Port, NEW q \in Queue, NEW I PROVE BytesIn(F[o][q], I) = 0
  <2>1. F[o][q] = <<>> /\ Len(<<>>) = 0 /\ 1 .. 0 = {}
    OBVIOUS
  <2>. QED BY <2>1, SumEmpty DEF BytesIn
<1>2. ASSUME NEW O \in SUBSET Port, NEW Q \in SUBSET Queue, NEW I PROVE SumIn(F, O, Q, I) = 0
  <2>. DEFINE f == [t \in O \X Q |-> BytesIn(F[t[1]][t[2]], I)]
  <2>1. IsFiniteSet(O \X Q) /\ \A t \in O \X Q : t[1] \in Port /\ t[2] \in Queue
    BY Cells
  <2>2. \A t \in O \X Q : f[t] = 0
    BY <1>1, <2>1
  <2>3. SumIn(F, O, Q, I) = SumFunctionOnSet(f, O \X Q)
    BY Zenon DEF SumIn
  <2>. HIDE DEF f
  <2>. QED BY <2>1, <2>2, <2>3, SumOfZeros
<1>3. HeldIn(F) = 0
  <2>. DEFINE f == [t \in Port \X Queue |-> Len(F[t[1]][t[2]])]
  <2>1. IsFiniteSet(Port \X Queue) /\ \A t \in Port \X Queue : t[1] \in Port /\ t[2] \in Queue
    BY Cells
  <2>2. \A t \in Port \X Queue : f[t] = 0
    BY <2>1
  <2>3. HeldIn(F) = SumFunctionOnSet(f, Port \X Queue)
    BY Zenon DEF HeldIn
  <2>. HIDE DEF f
  <2>. QED BY <2>1, <2>2, <2>3, SumOfZeros
<1>. QED BY <1>1, <1>2, <1>3

LEMMA InitHolds == ASSUME Init PROVE IInv
<1>1. TypeOK
  BY TypeInit
<1>2. fifo \in Fifos /\ \A o \in Port, q \in Queue : fifo[o][q] = <<>>
  BY <1>1, TypeParts DEF Init, FifoTyped, Fifos
<1>3. Held <= MaxHeld
  BY <1>2, NothingHeld, BytesAsSums, Packets
<1>4. IngressOf(fifo, total, inSP, inPort, inPG, inOut)
  <2>1. Port \in SUBSET Port /\ Queue \in SUBSET Queue /\ \A r \in Queue : {r} \in SUBSET Queue
    OBVIOUS
  <2>. QED BY <1>2, <2>1, NothingHeld DEF Init, IngressOf
<1>5. HeadroomCovered
  BY DEF Init, HeadroomCovered
<1>6. EgressCovers
  <2>. SUFFICES ASSUME NEW o \in Port, NEW q \in Queue
       PROVE  Covers(qMin[o][q], qShared[o][q], Bytes(o, q, Port))
    BY DEF EgressCovers
  <2>1. Bytes(o, q, Port) = 0 /\ qMin[o][q] = 0 /\ qShared[o][q] = 0
    BY <1>2, NothingHeld, BytesAsSums DEF Init
  <2>. QED BY <2>1, Limits, Packets DEF Covers
<1>. QED BY <1>1, <1>3, <1>4, <1>5, <1>6, IngressParts DEF IInv

THEOREM Accounting == Spec => []IInv
<1>1. Init => IInv
  BY InitHolds
<1>2. IInv /\ [Next]_vars => IInv'
  <2>. SUFFICES ASSUME IInv, [Next]_vars PROVE IInv'
    OBVIOUS
  <2>1. CASE Next
    BY <2>1, AdmitKeeps, ReleaseKeeps DEF Next
  <2>2. CASE UNCHANGED vars
    <3>1. /\ fifo' = fifo /\ total' = total /\ inSP' = inSP /\ inPort' = inPort /\ inPG' = inPG
          /\ inOut' = inOut /\ headroom' = headroom /\ qMin' = qMin /\ qShared' = qShared
      BY <2>2 DEF vars, ingress, egress
    <3>2. TypeOK'
      BY <2>2 DEF IInv, TypeOK, vars, ingress, egress
    <3>3. Held' <= MaxHeld
      BY <3>1, BytesAsSums, SumsAfter DEF IInv
    <3>4. IngressExact'
      BY <3>1, IngressParts DEF IInv
    <3>5. HeadroomCovered'
      BY <3>1 DEF IInv, HeadroomCovered
    <3>6. EgressCovers'
      <4>. SUFFICES ASSUME NEW o \in Port, NEW q \in Queue
           PROVE  Covers(qMin'[o][q], qShared'[o][q], Bytes(o, q, Port)')
        BY Zenon DEF EgressCovers, Covers
      <4>1. Bytes(o, q, Port)' = Bytes(o, q, Port)
        BY <3>1, BytesAsSums, SumsAfter
      <4>. QED BY <3>1, <4>1 DEF IInv, EgressCovers
    <3>. QED BY <3>2, <3>3, <3>4, <3>5, <3>6 DEF IInv
  <2>. QED BY <2>1, <2>2
<1>. QED BY <1>1, <1>2, PTL DEF Spec

(* Every ingress counter is the bytes held of what it is named for.         *)
THEOREM IngressCountersExact == Spec => []IngressExact
<1>1. IInv => IngressExact
  BY DEF IInv
<1>. QED BY <1>1, Accounting, PTL

(* Headroom charged packet by packet and taken back for every packet never  *)
(* exceeds the bytes it is headroom for.                                    *)
THEOREM HeadroomIsCovered == Spec => []HeadroomCovered
<1>1. IInv => HeadroomCovered
  BY DEF IInv
<1>. QED BY <1>1, Accounting, PTL

(* What an egress queue holds is far below the width of its counters. *)
LEMMA QueueBytes ==
  ASSUME IInv, NEW o \in Port, NEW q \in Queue
  PROVE  /\ Bytes(o, q, Port) \in Nat /\ Bytes(o, q, Port) <= Cap
         /\ Covers(qMin[o][q], qShared[o][q], Bytes(o, q, Port))
<1>1. fifo \in Fifos /\ HeldIn(fifo) <= MaxHeld
  BY TypeParts, BytesAsSums DEF IInv, FifoTyped, Fifos
<1>2. fifo[o][q] \in Seq(Packet)
  BY <1>1 DEF Fifos
<1>3. BytesIn(fifo[o][q], Port) \in Nat
  BY <1>2, BytesInNat
<1>4. SumIn(fifo, Port, Queue, Port) \in 0 .. Cap
  BY <1>1, NoWrap
<1>5. BytesIn(fifo[o][q], Port) <= SumIn(fifo, Port, Queue, Port)
  <2>1. <<o, q>> \in Port \X Queue /\ <<o, q>>[1] = o /\ <<o, q>>[2] = q
    OBVIOUS
  <2>. QED BY <1>1, <2>1, SumInFacts
<1>6. Covers(qMin[o][q], qShared[o][q], Bytes(o, q, Port))
  BY DEF IInv, EgressCovers
<1>. QED BY <1>3, <1>4, <1>5, <1>6, BytesAsSums, Packets

(* The two counters of an egress queue add up to its bytes modulo Wrap,     *)
(* whatever UpdateEgressAdmission and RemoveFromEgressAdmission moved       *)
(* between them.                                                            *)
THEOREM EgressCountersExact == Spec => []EgressExact
<1>1. ASSUME IInv PROVE EgressExact
  <2>. SUFFICES ASSUME NEW o \in Port, NEW q \in Queue
       PROVE  (qMin[o][q] + qShared[o][q]) % Wrap = Bytes(o, q, Port)
    BY DEF EgressExact
  <2>. DEFINE B == Bytes(o, q, Port)
              sum == qMin[o][q] + qShared[o][q]
  <2>1. B \in Nat /\ B <= Cap /\ (sum = B \/ sum = B + Wrap)
    BY <1>1, QueueBytes DEF Covers
  <2>. HIDE DEF B, sum
  <2>2. B < Wrap
    BY <2>1, Packets
  <2>3. CASE sum = B
    <3>1. B % Wrap = B
      BY <2>1, <2>2, WrapFacts
    <3>. QED BY <2>3, <3>1 DEF B, sum
  <2>4. CASE sum = B + Wrap
    <3>1. B + Wrap \in Int /\ Wrap <= B + Wrap /\ B + Wrap < 2 * Wrap /\ (B + Wrap) - Wrap = B
      BY <2>1, <2>2, Packets
    <3>2. (B + Wrap) % Wrap = (B + Wrap) - Wrap
      BY <3>1, WrapFacts
    <3>. QED BY <2>4, <3>1, <3>2 DEF B, sum
  <2>. QED BY <2>1, <2>3, <2>4
<1>. QED BY <1>1, Accounting, PTL

(* The guaranteed counter may fall below zero, but wraps by less than one   *)
(* packet, and the shared one overstates its queue by less than one packet. *)
THEOREM WrapsByLess == Spec => []WrapsByLessThanAPacket
<1>1. ASSUME IInv PROVE WrapsByLessThanAPacket
  <2>. SUFFICES ASSUME NEW o \in Port, NEW q \in Queue
       PROVE  /\ qMin[o][q] <= Guarantee \/ Wrap - qMin[o][q] < Largest
              /\ qShared[o][q] < Bytes(o, q, Port) + Largest
    BY DEF WrapsByLessThanAPacket, Largest
  <2>1. qMin[o][q] \in Nat /\ Bytes(o, q, Port) \in Nat /\ Covers(qMin[o][q], qShared[o][q], Bytes(o, q, Port))
    BY <1>1, QueueBytes, Limits DEF Covers
  <2>. QED BY <2>1, Packets DEF Covers
<1>. QED BY <1>1, Accounting, PTL
=============================================================================
