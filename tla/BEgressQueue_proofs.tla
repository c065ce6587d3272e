------------------------- MODULE BEgressQueue_proofs -------------------------
(***************************************************************************)
(* BEgressQueue for every number of queues, word size, packet sizes and     *)
(* capacity: the active bitmap is exact, so the queue round robin picks     *)
(* holds a packet, and no queue is passed over twice.  The bitmap is taken  *)
(* to start zeroed (ZeroedAssumption); the run uninitialised shows why. *)
(***************************************************************************)
EXTENDS RRFairness, CommonLemmas

(* n is the number of bytes in s.                                          *)
Counts(s, n) == n = BytesOf(s)

(* Sizes along a sequence, as the sums see them.                           *)
LEMMA BytesAsSum ==
  ASSUME NEW s \in Seq(Packets)
  PROVE  /\ BytesOf(s) = SumFunctionOnSet([j \in 1 .. Len(s) |-> Size[s[j]]], 1 .. Len(s))
         /\ Len(s) \in Nat /\ IsFiniteSet(1 .. Len(s))
         /\ \A j \in 1 .. Len(s) : s[j] \in Packets /\ Size[s[j]] \in Nat /\ Size[s[j]] > 0
<1>1. BytesOf(s) = SumFunctionOnSet([j \in 1 .. Len(s) |-> Size[s[j]]], 1 .. Len(s))
  BY DEF BytesOf, SumFunction
<1>2. Len(s) \in Nat
  OBVIOUS
<1>3. \A j \in 1 .. Len(s) : s[j] \in Packets
  OBVIOUS
<1>4. \A j \in 1 .. Len(s) : Size[s[j]] \in Nat /\ Size[s[j]] > 0
  BY <1>3, QueueAssumption
<1>5. IsFiniteSet(1 .. Len(s))
  BY <1>2, FS_Interval
<1>. QED BY <1>1, <1>2, <1>3, <1>4, <1>5, Zenon

LEMMA BytesInNat == ASSUME NEW s \in Seq(Packets) PROVE BytesOf(s) \in Nat
<1> DEFINE f == [j \in 1 .. Len(s) |-> Size[s[j]]]
<1>1. IsFiniteSet(1 .. Len(s)) /\ \A j \in 1 .. Len(s) : f[j] \in Nat
  BY BytesAsSum
<1>2. BytesOf(s) = SumFunctionOnSet(f, 1 .. Len(s))
  BY BytesAsSum
<1>. HIDE DEF f
<1>. QED BY <1>1, <1>2, SumOfNaturals

(* A packet that joins adds its size.                                      *)
LEMMA CountsAppend ==
  ASSUME NEW s \in Seq(Packets), NEW n \in Nat, NEW p \in Packets, Counts(s, n)
  PROVE  Counts(Append(s, p), n + Size[p])
<1> DEFINE t == Append(s, p)
           f == [j \in 1 .. Len(s) |-> Size[s[j]]]
           g == [j \in 1 .. Len(t) |-> Size[t[j]]]
<1>1. /\ t \in Seq(Packets) /\ Len(t) = Len(s) + 1 /\ Len(s) \in Nat /\ t[Len(s) + 1] = p
      /\ \A j \in 1 .. Len(s) : t[j] = s[j]
  OBVIOUS
<1>2. Size[p] \in Nat /\ \A j \in 1 .. Len(s) : Size[s[j]] \in Nat
  BY BytesAsSum, QueueAssumption
<1>3. \A j \in 1 .. Len(s) : g[j] = f[j] /\ f[j] \in Int
  BY <1>1, <1>2
<1>4. g[Len(s) + 1] = Size[p] /\ Size[p] \in Int
  BY <1>1, <1>2
<1>5. BytesOf(s) = SumFunctionOnSet(f, 1 .. Len(s)) /\ BytesOf(t) = SumFunctionOnSet(g, 1 .. Len(s) + 1)
  <2>. HIDE DEF t
  <2>. QED BY <1>1, BytesAsSum
<1>6. SumFunctionOnSet(g, 1 .. Len(s) + 1) = SumFunctionOnSet(f, 1 .. Len(s)) + g[Len(s) + 1]
  <2>1. Len(s) \in Nat
    BY <1>1
  <2>2. g[Len(s) + 1] \in Int
    BY <1>4
  <2>. HIDE DEF f, g, t
  <2>. QED BY <2>1, <2>2, <1>3, SumAppended, Zenon
<1>. QED BY <1>4, <1>5, <1>6 DEF Counts

(* A packet that leaves takes its size away, and the count had it.         *)
LEMMA CountsTail ==
  ASSUME NEW s \in Seq(Packets), NEW n \in Nat, s # <<>>, Counts(s, n)
  PROVE  /\ n - Size[Head(s)] \in Nat
         /\ Counts(Tail(s), n - Size[Head(s)])
<1> DEFINE t == Tail(s)
           f == [j \in 1 .. Len(s) |-> Size[s[j]]]
           g == [j \in 1 .. Len(t) |-> Size[t[j]]]
<1>1. /\ t \in Seq(Packets) /\ Len(s) = Len(t) + 1 /\ Len(t) \in Nat /\ Head(s) = s[1]
      /\ \A j \in 1 .. Len(t) : t[j] = s[j + 1]
  OBVIOUS
<1>2. \A j \in 1 .. Len(s) : Size[s[j]] \in Nat
  BY BytesAsSum
<1>3. \A j \in 1 .. Len(t) : g[j] = f[j + 1]
  BY <1>1
<1>4. f[1] = Size[Head(s)] /\ \A j \in 1 .. Len(t) + 1 : f[j] \in Int
  BY <1>1, <1>2
<1>5. BytesOf(s) = SumFunctionOnSet(f, 1 .. Len(t) + 1) /\ BytesOf(t) = SumFunctionOnSet(g, 1 .. Len(t))
  <2>. HIDE DEF t
  <2>. QED BY <1>1, BytesAsSum
<1>6. /\ SumFunctionOnSet(g, 1 .. Len(t)) \in Int
      /\ SumFunctionOnSet(f, 1 .. Len(t) + 1) = f[1] + SumFunctionOnSet(g, 1 .. Len(t))
  <2>1. Len(t) \in Nat
    BY <1>1
  <2>2. \A j \in 1 .. Len(t) + 1 : f[j] \in Int
    BY <1>4
  <2>. HIDE DEF f, g, t
  <2>. QED BY <2>1, <2>2, <1>3, SumShifted, Zenon
<1>7. BytesOf(t) \in Nat
  <2>. HIDE DEF t
  <2>. QED BY <1>1, BytesInNat
<1>8. n = Size[Head(s)] + BytesOf(t) /\ Size[Head(s)] \in Nat
  <2>1. Size[s[1]] \in Nat
    BY <1>1, <1>2
  <2>. QED BY <2>1, <1>1, <1>4, <1>5, <1>6 DEF Counts
<1>. QED BY <1>7, <1>8 DEF Counts

(* The byte count is zero exactly for the empty queue: this is what the    *)
(* code's tests of the byte count rely on.                                 *)
LEMMA CountsZero ==
  ASSUME NEW s \in Seq(Packets), NEW n \in Nat, Counts(s, n)
  PROVE  n = 0 <=> s = <<>>
<1> DEFINE f == [j \in 1 .. Len(s) |-> Size[s[j]]]
<1>1. CASE s = <<>>
  <2>1. 1 .. Len(s) = {}
    BY <1>1
  <2>. QED BY <2>1, <1>1, BytesAsSum, SumEmpty DEF Counts
<1>2. CASE s # <<>>
  <2>1. 1 \in 1 .. Len(s)
    BY <1>2
  <2>2. f[1] \in Nat /\ f[1] > 0
    BY <2>1, BytesAsSum
  <2>3. IsFiniteSet(1 .. Len(s)) /\ \A j \in 1 .. Len(s) : f[j] \in Nat
    BY BytesAsSum
  <2>4. n = SumFunctionOnSet(f, 1 .. Len(s))
    BY BytesAsSum DEF Counts
  <2>5. f[1] <= n
    <3>. HIDE DEF f
    <3>. QED BY <2>1, <2>3, <2>4, SumOfNaturals
  <2>. QED BY <1>2, <2>2, <2>5
<1>. QED BY <1>1, <1>2

-----------------------------------------------------------------------------
(* n is the sum of b over the queues.                                      *)
SumsTo(b, n) == n = SumFunctionOnSet(b, Queues)

LEMMA QueuesFinite == IsFiniteSet(Queues)
BY FS_Interval, QueueAssumption DEF Queues

(* No count is larger than the total.                                      *)
LEMMA SumBound ==
  ASSUME NEW b \in [Queues -> Nat], NEW n \in Nat, SumsTo(b, n), NEW q \in Queues
  PROVE  b[q] <= n
BY QueuesFinite, SumOfNaturals DEF SumsTo

(* Changing one count by a difference changes the total by it.             *)
LEMMA SumChange ==
  ASSUME NEW b \in [Queues -> Nat], NEW n \in Nat, SumsTo(b, n),
         NEW q \in Queues, NEW m \in Nat
  PROVE  /\ n - b[q] + m \in Nat
         /\ SumsTo([b EXCEPT ![q] = m], n - b[q] + m)
<1> DEFINE c == [b EXCEPT ![q] = m]
<1>1. c \in [Queues -> Nat] /\ c[q] = m /\ \A r \in Queues \ {q} : c[r] = b[r]
  OBVIOUS
<1>. HIDE DEF c
<1>2. Summable(b, Queues) /\ Summable(c, Queues)
  BY <1>1, QueuesFinite DEF Summable
<1>3. SumFunctionOnSet(c, Queues) = SumFunctionOnSet(b, Queues) + (c[q] - b[q])
  BY <1>1, <1>2, SumChanged
<1>4. b[q] <= n /\ b[q] \in Nat
  BY SumBound
<1>5. SumsTo(c, n - b[q] + m)
  BY <1>1, <1>3, <1>4 DEF SumsTo
<1>. QED BY <1>4, <1>5 DEF c

-----------------------------------------------------------------------------
(* The inductive invariant: typing, the byte counts and totals, and the    *)
(* two copies of the active set.                                           *)
Lengths == [q \in Queues |-> Len(queue[q])]

QueueInv ==
  /\ TypeOK
  /\ \A q \in Queues : Counts(queue[q], bytes[q])
  /\ SumsTo(bytes, total)
  /\ SumsTo(Lengths, nPackets)
  /\ activeSet = {q \in Queues : queue[q] # <<>>}
  /\ activeArr = activeSet

(* The inductive invariant holds in the initial state.                     *)
LEMMA QueueInvInit == Init => QueueInv
<1> SUFFICES ASSUME Init PROVE QueueInv
  OBVIOUS
<1> USE DEF Init
<1>1. TypeOK
  BY QueueAssumption, ZeroedAssumption DEF TypeOK, Queues
<1>2. ASSUME NEW q \in Queues PROVE Counts(queue[q], bytes[q])
  <2>1. queue[q] = <<>> /\ bytes[q] = 0 /\ 1 .. Len(queue[q]) = {} /\ queue[q] \in Seq(Packets)
    OBVIOUS
  <2>. QED BY <2>1, BytesAsSum, SumEmpty DEF Counts
<1>3. ASSUME NEW b \in [Queues -> Nat], \A q \in Queues : b[q] = 0
      PROVE  SumsTo(b, 0)
  BY <1>3, QueuesFinite, SumOfZeros DEF SumsTo
<1>4. SumsTo(bytes, total)
  BY <1>3
<1>5. SumsTo(Lengths, nPackets)
  <2>1. Lengths \in [Queues -> Nat] /\ \A q \in Queues : Lengths[q] = 0
    BY DEF Lengths
  <2>. QED BY <1>3, <2>1
<1>6. activeSet = {q \in Queues : queue[q] # <<>>} /\ activeArr = activeSet
  BY ZeroedAssumption
<1>. QED BY <1>1, <1>2, <1>4, <1>5, <1>6 DEF QueueInv

(* Enqueue keeps it.                                                       *)
LEMMA QueueInvEnqueue ==
  ASSUME QueueInv, NEW p \in Packets, NEW q \in Queues, Enqueue(p, q)
  PROVE  QueueInv'
<1> USE DEF Enqueue, Activated
<1>1. /\ queue[q] \in Seq(Packets) /\ bytes[q] \in Nat /\ Size[p] \in Nat /\ Size[p] > 0
      /\ bytes \in [Queues -> Nat] /\ queue \in [Queues -> Seq(Packets)]
      /\ total \in Nat /\ nPackets \in Nat
  BY QueueAssumption DEF QueueInv, TypeOK
<1>2. TypeOK'
  <2>1. Append(queue[q], p) \in Seq(Packets) /\ bytes[q] + Size[p] \in Nat
        /\ total + Size[p] \in Nat /\ nPackets + 1 \in Nat
    BY <1>1
  <2>2. queue' \in [Queues -> Seq(Packets)] /\ bytes' \in [Queues -> Nat]
    BY <1>1, <2>1
  <2>3. activeSet' \subseteq Queues /\ activeArr' \subseteq Queues
    BY DEF QueueInv, TypeOK
  <2>. QED BY <2>1, <2>2, <2>3 DEF QueueInv, TypeOK
<1>3. ASSUME NEW r \in Queues PROVE Counts(queue'[r], bytes'[r])
  <2>1. CASE r = q
    BY <1>1, <2>1, CountsAppend DEF QueueInv
  <2>2. CASE r # q
    BY <1>1, <2>2 DEF QueueInv
  <2>. QED BY <2>1, <2>2
<1>4. SumsTo(bytes', total')
  <2>1. SumsTo([bytes EXCEPT ![q] = bytes[q] + Size[p]], total - bytes[q] + (bytes[q] + Size[p]))
    <3>1. bytes[q] + Size[p] \in Nat /\ SumsTo(bytes, total)
      BY <1>1 DEF QueueInv
    <3>. QED BY <1>1, <3>1, SumChange
  <2>2. total - bytes[q] + (bytes[q] + Size[p]) = total'
    BY <1>1
  <2>. QED BY <1>1, <2>1, <2>2
<1>5. SumsTo(Lengths', nPackets')
  <2>1. Lengths \in [Queues -> Nat] /\ Lengths[q] = Len(queue[q])
    BY <1>1 DEF Lengths
  <2>2. SumsTo([Lengths EXCEPT ![q] = Lengths[q] + 1], nPackets - Lengths[q] + (Lengths[q] + 1))
    <3>1. Lengths[q] + 1 \in Nat /\ SumsTo(Lengths, nPackets)
      BY <1>1, <2>1 DEF QueueInv
    <3>. QED BY <1>1, <2>1, <3>1, SumChange
  <2>3. Lengths' = [Lengths EXCEPT ![q] = Lengths[q] + 1]
    <3>1. ASSUME NEW r \in Queues
          PROVE  Len(queue'[r]) = IF r = q THEN Len(queue[q]) + 1 ELSE Len(queue[r])
      BY <1>1
    <3>. QED BY <1>1, <2>1, <3>1 DEF Lengths
  <2>4. nPackets - Lengths[q] + (Lengths[q] + 1) = nPackets'
    BY <1>1, <2>1
  <2>. QED BY <2>2, <2>3, <2>4
<1>6. activeSet' = {r \in Queues : queue'[r] # <<>>} /\ activeArr' = activeSet'
  <2>1. bytes[q] + Size[p] = Size[p] <=> queue[q] = <<>>
    <3>1. bytes[q] = 0 <=> queue[q] = <<>>
      BY <1>1, CountsZero DEF QueueInv
    <3>. QED BY <1>1, <3>1
  <2>2. queue'[q] # <<>> /\ \A r \in Queues : r # q => queue'[r] = queue[r]
    BY <1>1
  <2>. QED BY <2>1, <2>2 DEF QueueInv
<1>. QED BY <1>2, <1>3, <1>4, <1>5, <1>6 DEF QueueInv

(* Round robin picks an eligible queue, hence one with a packet. *)
LEMMA ChosenHolds ==
  ASSUME QueueInv, NEW paused \in SUBSET Queues, Sendable(paused)
  PROVE  /\ Chosen(paused) \in Queues
         /\ queue[Chosen(paused)] # <<>>
         /\ bytes[Chosen(paused)] > 0
         /\ Chosen(paused) \notin Strict => Chosen(paused) \in activeArr \ paused
<1>1. TopQ \in Queues /\ SecondQ \in Queues /\ Queues \subseteq Nat
  BY QueueAssumption DEF TopQ, SecondQ, Queues
<1>2. /\ Chosen(paused) \in Queues
      /\ queue[Chosen(paused)] # <<>>
      /\ Chosen(paused) \notin Strict => Chosen(paused) \in activeArr \ paused
  <2>1. CASE \E q \in Strict : queue[q] # <<>>
    BY <1>1, <2>1 DEF Chosen, Strict
  <2>2. CASE ~ \E q \in Strict : queue[q] # <<>>
    <3>1. Chosen(paused) = WordScan(activeArr \ paused, rrlast, W)
      BY <2>2 DEF Chosen, Strict
    <3>2. activeArr \ paused # {} /\ activeArr \ paused \in SUBSET Nat /\ rrlast \in Nat
      BY <1>1, <2>2 DEF Sendable, QueueInv, TypeOK
    <3>3. Chosen(paused) \in activeArr \ paused
      BY <3>1, <3>2, WordScanMember, QueueAssumption
    <3>. QED BY <3>3 DEF QueueInv
  <2>. QED BY <2>1, <2>2
<1>3. bytes[Chosen(paused)] > 0
  <2>1. queue[Chosen(paused)] \in Seq(Packets) /\ bytes[Chosen(paused)] \in Nat
    BY <1>2 DEF QueueInv, TypeOK
  <2>. QED BY <1>2, <2>1, CountsZero DEF QueueInv
<1>. QED BY <1>2, <1>3

(* So does DequeueRR.                                                      *)
LEMMA QueueInvDequeue ==
  ASSUME QueueInv, NEW paused \in SUBSET Queues, DequeueRR(paused)
  PROVE  QueueInv'
<1>1. PICK q \in Queues : q = Chosen(paused) /\ queue[q] # <<>>
  BY ChosenHolds DEF DequeueRR, Left, Deactivated
<1>2. PICK n \in Nat : n = Size[Head(queue[q])]
  BY <1>1, QueueAssumption DEF QueueInv, TypeOK
<1>3. /\ queue[q] \in Seq(Packets) /\ bytes[q] \in Nat
      /\ bytes \in [Queues -> Nat] /\ queue \in [Queues -> Seq(Packets)]
      /\ total \in Nat /\ nPackets \in Nat
  BY DEF QueueInv, TypeOK
<1>4. bytes[q] - n \in Nat /\ Counts(Tail(queue[q]), bytes[q] - n)
  BY <1>1, <1>2, <1>3, CountsTail DEF QueueInv
<1>5. /\ queue' = [queue EXCEPT ![q] = Tail(@)]
      /\ bytes' = [bytes EXCEPT ![q] = bytes[q] - n]
      /\ total' = total - n
      /\ nPackets' = nPackets - 1
      /\ rrlast' = IF q \in Strict THEN rrlast ELSE q
      /\ qlast' = q
      /\ activeSet' = IF bytes[q] - n = 0 THEN activeSet \ {q} ELSE activeSet
      /\ activeArr' = IF bytes[q] - n = 0 THEN activeArr \ {q} ELSE activeArr
  BY <1>1, <1>2 DEF DequeueRR, Left, Deactivated
<1>6. Tail(queue[q]) \in Seq(Packets) /\ Len(queue[q]) \in Nat /\ Len(queue[q]) > 0
      /\ Len(Tail(queue[q])) = Len(queue[q]) - 1
  BY <1>1, <1>3
<1>7. SumsTo(bytes', total') /\ total' \in Nat
  <2>1. /\ total - bytes[q] + (bytes[q] - n) \in Nat
        /\ SumsTo([bytes EXCEPT ![q] = bytes[q] - n], total - bytes[q] + (bytes[q] - n))
    BY <1>3, <1>4, SumChange DEF QueueInv
  <2>2. total - bytes[q] + (bytes[q] - n) = total - n
    BY <1>3
  <2>. QED BY <1>5, <2>1, <2>2
<1>8. SumsTo(Lengths', nPackets') /\ nPackets' \in Nat
  <2>1. Lengths \in [Queues -> Nat] /\ Lengths[q] = Len(queue[q])
    BY <1>3 DEF Lengths
  <2>2. /\ nPackets - Lengths[q] + (Lengths[q] - 1) \in Nat
        /\ SumsTo([Lengths EXCEPT ![q] = Lengths[q] - 1], nPackets - Lengths[q] + (Lengths[q] - 1))
    <3>1. Lengths[q] - 1 \in Nat
      BY <1>6, <2>1
    <3>. QED BY <1>3, <2>1, <3>1, SumChange DEF QueueInv
  <2>3. Lengths' = [Lengths EXCEPT ![q] = Lengths[q] - 1]
    <3>1. ASSUME NEW r \in Queues
          PROVE  Len(queue'[r]) = IF r = q THEN Len(queue[q]) - 1 ELSE Len(queue[r])
      BY <1>3, <1>5, <1>6
    <3>. QED BY <1>3, <2>1, <3>1 DEF Lengths
  <2>4. nPackets - Lengths[q] + (Lengths[q] - 1) = nPackets'
    BY <1>3, <1>5, <2>1
  <2>. QED BY <2>2, <2>3, <2>4
<1>9. TypeOK'
  BY <1>3, <1>4, <1>5, <1>6, <1>7, <1>8 DEF QueueInv, TypeOK
<1>10. ASSUME NEW r \in Queues PROVE Counts(queue'[r], bytes'[r])
  <2>1. CASE r = q
    BY <1>3, <1>4, <1>5, <2>1
  <2>2. CASE r # q
    BY <1>3, <1>5, <2>2 DEF QueueInv
  <2>. QED BY <2>1, <2>2
<1>11. activeSet' = {r \in Queues : queue'[r] # <<>>} /\ activeArr' = activeSet'
  <2>1. bytes[q] - n = 0 <=> Tail(queue[q]) = <<>>
    BY <1>4, <1>6, CountsZero
  <2>2. queue'[q] = Tail(queue[q]) /\ \A r \in Queues : r # q => queue'[r] = queue[r]
    BY <1>3, <1>5
  <2>. QED BY <1>1, <1>5, <2>1, <2>2 DEF QueueInv
<1>. QED BY <1>7, <1>8, <1>9, <1>10, <1>11 DEF QueueInv

(* So does every step.                                                     *)
LEMMA QueueInvNext == QueueInv /\ [Next]_vars => QueueInv'
<1>1. ASSUME QueueInv, UNCHANGED vars PROVE QueueInv'
  BY <1>1 DEF QueueInv, vars, TypeOK, Lengths
<1>2. ASSUME QueueInv, Next PROVE QueueInv'
  <2>1. CASE \E p \in Packets, q \in Queues : Enqueue(p, q)
    BY <1>2, <2>1, QueueInvEnqueue
  <2>2. CASE \E paused \in SUBSET Queues : DequeueRR(paused)
    BY <1>2, <2>2, QueueInvDequeue
  <2>3. CASE UNCHANGED vars
    BY <1>1, <1>2, <2>3
  <2>. QED BY <1>2, <2>1, <2>2, <2>3 DEF Next, EnqueueFails, DequeueNone
<1>. QED BY <1>1, <1>2

(* Type correctness, for every instance of the queue. *)
THEOREM TypeCorrect == Spec => []TypeOK
<1>1. QueueInv => TypeOK
  BY DEF QueueInv
<1>. QED BY <1>1, QueueInvInit, QueueInvNext, PTL DEF Spec

(* Bytes per queue, bytes in all and packets in all are counted exactly,   *)
(* for any packet sizes and any number of queues.                          *)
THEOREM BytesAreExact == Spec => []BytesExact
<1>1. QueueInv => BytesExact
  <2>. SUFFICES ASSUME QueueInv PROVE BytesExact
    OBVIOUS
  <2>1. \A q \in Queues : bytes[q] = BytesOf(queue[q])
    BY DEF QueueInv, Counts
  <2>2. DOMAIN bytes = Queues
    BY DEF QueueInv, TypeOK
  <2>3. total = SumFunction(bytes)
    BY <2>2 DEF QueueInv, SumsTo, SumFunction
  <2>4. nPackets = SumFunction(Lengths)
    <3>1. DOMAIN Lengths = Queues
      BY DEF Lengths
    <3>. QED BY <3>1 DEF QueueInv, SumsTo, SumFunction
  <2>. QED BY <2>1, <2>3, <2>4 DEF BytesExact, Lengths
<1>. QED BY <1>1, QueueInvInit, QueueInvNext, PTL DEF Spec

(* The byte-count tests of Enqueue and DoDequeueRR keep both copies of the *)
(* active set equal to the set of queues with packets.                     *)
THEOREM ActiveSetExact == Spec => []ActiveExact
<1>1. QueueInv => ActiveExact
  <2> SUFFICES ASSUME QueueInv, NEW q \in Queues
               PROVE  queue[q] # <<>> <=> bytes[q] > 0
    BY DEF QueueInv, ActiveExact
  <2>1. bytes[q] \in Nat /\ queue[q] \in Seq(Packets) /\ Counts(queue[q], bytes[q])
    BY DEF QueueInv, TypeOK
  <2>. QED BY <2>1, CountsZero
<1>. QED BY <1>1, QueueInvInit, QueueInvNext, PTL DEF Spec

(* The assertion of DoDequeueRR holds of every queue it can pick. *)
THEOREM ServedQueueHolds == Spec => []ServedQueueHoldsPacket
<1>1. QueueInv => ServedQueueHoldsPacket
  BY ChosenHolds DEF ServedQueueHoldsPacket
<1>. QED BY <1>1, QueueInvInit, QueueInvNext, PTL DEF Spec

(* DequeueRR serves whenever some queue may send, and only such a queue. *)
THEOREM NothingOverlooked == Spec => []WorkConserving
<1>1. QueueInv => WorkConserving
  <2> SUFFICES ASSUME QueueInv, NEW paused \in SUBSET Queues
               PROVE  LET eligible == {q \in Queues : queue[q] # <<>> /\ (q \in Strict \/ q \notin paused)}
                      IN  /\ Sendable(paused) <=> eligible # {}
                          /\ eligible # {} => Chosen(paused) \in eligible
    BY DEF WorkConserving
  <2> DEFINE eligible == {q \in Queues : queue[q] # <<>> /\ (q \in Strict \/ q \notin paused)}
  <2>1. ASSUME Sendable(paused) PROVE Chosen(paused) \in eligible
    BY <2>1, ChosenHolds
  <2>2. ASSUME NEW q \in eligible PROVE Sendable(paused)
    <3>1. bytes[q] \in Nat /\ queue[q] \in Seq(Packets) /\ Counts(queue[q], bytes[q])
          /\ queue[q] # <<>> /\ bytes \in [Queues -> Nat] /\ total \in Nat /\ SumsTo(bytes, total)
      BY DEF QueueInv, TypeOK
    <3>2. bytes[q] > 0 /\ bytes[q] <= total
      BY <3>1, CountsZero, SumBound
    <3>3. total > 0
      BY <3>1, <3>2
    <3>4. q \in Strict \/ q \in activeArr \ paused
      BY <3>1 DEF QueueInv
    <3>. QED BY <3>1, <3>3, <3>4 DEF Sendable, QueueInv
  <2>. QED BY <2>1, <2>2
<1>. QED BY <1>1, QueueInvInit, QueueInvNext, PTL DEF Spec

-----------------------------------------------------------------------------
(* Fairness.  Whatever queue r was served over q since q's own last turn,  *)
(* the pointer now stands between r and q.                                 *)
FairInv ==
  /\ QueueInv
  /\ bypass \in [DataQueues -> [DataQueues -> {0, 1}]]
  /\ \A q, r \in DataQueues :
       bypass[q][r] = 1 => Distance(rrlast, q, NQ) <= Distance(r, q, NQ)

(* Nothing has been served yet.                                            *)
LEMMA FairInvInit == FInit => FairInv
BY QueueInvInit DEF FInit, FairInv

(* A queue that stays eligible is approached by every service of another.  *)
LEMMA FairInvPassing ==
  ASSUME FairInv, NEW paused \in SUBSET Queues, FDequeue(paused), Chosen(paused) \notin Strict
  PROVE  FairInv'
<1>1. PICK c \in DataQueues : c = Chosen(paused) /\ c \in activeArr \ paused
  BY ChosenHolds DEF FairInv, FDequeue, DequeueRR, DataQueues
<1>2. /\ rrlast' = c
      /\ bypass' = [q \in DataQueues |-> [r \in DataQueues |->
              IF q = c \/ q \notin activeArr \ paused THEN 0
              ELSE IF r = c THEN bypass[q][r] + 1 ELSE bypass[q][r]]]
  BY <1>1 DEF FDequeue, DequeueRR, Passing
<1>3. QueueInv'
  BY QueueInvDequeue DEF FairInv, FDequeue
<1>4. activeArr \ paused \in SUBSET (0 .. NQ - 1) /\ rrlast \in 0 .. NQ - 1 /\ NQ \in Nat
      /\ DataQueues \subseteq 0 .. NQ - 1
  BY QueueAssumption DEF FairInv, QueueInv, TypeOK, Queues, DataQueues
<1>5. c = NextAfter(activeArr \ paused, rrlast)
  <2>1. c = WordScan(activeArr \ paused, rrlast, W)
    BY <1>1 DEF Chosen, DataQueues, Strict
  <2>2. activeArr \ paused \in SUBSET Nat /\ rrlast \in Nat
    BY <1>4
  <2>. QED BY <2>1, <2>2, WordScanCorrect, QueueAssumption
<1>6. ASSUME NEW q \in DataQueues, q # c, q \in activeArr \ paused
      PROVE  Distance(c, q, NQ) < Distance(rrlast, q, NQ)
  BY <1>4, <1>5, <1>6, NextAfterApproaches
<1>7. \A x, y \in 0 .. NQ - 1 : Distance(x, y, NQ) \in Nat
  BY <1>4 DEF Distance
<1>8. ASSUME NEW q \in DataQueues, NEW r \in DataQueues
      PROVE  /\ bypass'[q][r] \in {0, 1}
             /\ bypass'[q][r] = 1 => Distance(rrlast', q, NQ) <= Distance(r, q, NQ)
  <2>1. CASE q = c \/ q \notin activeArr \ paused
    BY <1>2, <2>1
  <2>2. CASE q # c /\ q \in activeArr \ paused /\ r = c
    <3>1. Distance(c, q, NQ) < Distance(rrlast, q, NQ)
      BY <1>6, <2>2
    <3>2. bypass[q][c] # 1
      <4>1. Distance(c, q, NQ) \in Nat /\ Distance(rrlast, q, NQ) \in Nat
        BY <1>4, <1>7
      <4>2. ~ (Distance(rrlast, q, NQ) <= Distance(c, q, NQ))
        BY <3>1, <4>1
      <4>. QED BY <4>2 DEF FairInv
    <3>3. bypass'[q][r] = 1 /\ rrlast' = c
      BY <1>2, <2>2, <3>2 DEF FairInv
    <3>. QED BY <1>4, <1>7, <2>2, <3>3
  <2>3. CASE q # c /\ q \in activeArr \ paused /\ r # c
    <3>1. Distance(c, q, NQ) < Distance(rrlast, q, NQ)
      BY <1>6, <2>3
    <3>2. bypass'[q][r] = bypass[q][r]
      BY <1>2, <2>3
    <3>3. Distance(c, q, NQ) \in Nat /\ Distance(rrlast, q, NQ) \in Nat /\ Distance(r, q, NQ) \in Nat
      BY <1>4, <1>7
    <3>. QED BY <1>2, <3>1, <3>2, <3>3 DEF FairInv
  <2>. QED BY <2>1, <2>2, <2>3
<1>9. bypass' \in [DataQueues -> [DataQueues -> {0, 1}]]
  BY <1>2, <1>8
<1>. QED BY <1>3, <1>8, <1>9 DEF FairInv

(* So the history and the pointer agree after every step.                  *)
LEMMA FairInvNext == FairInv /\ [FNext]_fvars => FairInv'
<1> SUFFICES ASSUME FairInv, [FNext]_fvars PROVE FairInv'
  OBVIOUS
<1>1. CASE UNCHANGED fvars
  <2>1. QueueInv' /\ rrlast' = rrlast /\ bypass' = bypass
    BY <1>1, QueueInvNext DEF FairInv, fvars, vars
  <2>. QED BY <2>1 DEF FairInv
<1>2. CASE \E p \in Packets, q \in Queues : (Enqueue(p, q) \/ EnqueueFails(p, q)) /\ UNCHANGED bypass
  <2>1. QueueInv' /\ rrlast' = rrlast /\ bypass' = bypass
    BY <1>2, QueueInvNext DEF FairInv, Next, Enqueue, EnqueueFails, vars
  <2>. QED BY <2>1 DEF FairInv
<1>3. CASE \E paused \in SUBSET Queues : DequeueNone(paused) /\ UNCHANGED bypass
  <2>1. QueueInv' /\ rrlast' = rrlast /\ bypass' = bypass
    BY <1>3, QueueInvNext DEF FairInv, Next, DequeueNone, vars
  <2>. QED BY <2>1 DEF FairInv
<1>4. ASSUME NEW paused \in SUBSET Queues, FDequeue(paused) PROVE FairInv'
  <2>1. CASE Chosen(paused) \in Strict
    <3>1. QueueInv' /\ rrlast' = rrlast /\ bypass' = bypass
      BY <1>4, <2>1, QueueInvDequeue DEF FairInv, FDequeue, DequeueRR
    <3>. QED BY <3>1 DEF FairInv
  <2>. QED BY <1>4, <2>1, FairInvPassing
<1>. QED BY <1>1, <1>2, <1>3, <1>4 DEF FNext

(* Between two turns of an eligible queue every other data queue is served *)
(* at most once, for every number of queues and every pattern of pauses.   *)
THEOREM RoundRobinIsFair == FSpec => []BoundedBypass
<1>1. FairInv => BoundedBypass
  <2> SUFFICES ASSUME FairInv, NEW q \in DataQueues, NEW r \in DataQueues
               PROVE  bypass[q][r] <= 1
    BY DEF BoundedBypass
  <2>1. bypass[q][r] \in {0, 1}
    BY DEF FairInv
  <2>. QED BY <2>1
<1>. QED BY <1>1, FairInvInit, FairInvNext, PTL DEF FSpec
=============================================================================
