-------------------------- MODULE QbbSwitch_proofs --------------------------
(***************************************************************************)
(* Proofs about QbbSwitch, for every network of devices, every routing,     *)
(* every hash of flows to VFIDs and every bound.                           *)
(*                                                                         *)
(* The counts of the flow table and of the bloom filter are cardinalities   *)
(* of sets of queue positions, so the work is to say what a packet that     *)
(* joins a queue, or leaves it and shifts the others, does to those sets.   *)
(* The methods are then taken in the order the handlers call them: each     *)
(* keeps SInv, and DequeueAndTransmit, which ends every handler, restores   *)
(* NoLostWakeup on the device it is called for.                            *)
(*                                                                         *)
(* The last part shows that the switch implements VirtualFifo: the packets  *)
(* of a VFID are selected from a physical queue by a function on its        *)
(* prefixes, and induction says what an arrival and a departure do to it.   *)
(***************************************************************************)
EXTENDS QbbSwitchFifo, CommonLemmas, SequenceTheorems

-----------------------------------------------------------------------------
(* Facts about tables, indices and positions. *)

(* An assignment to one cell of a two-level table.                         *)
LEMMA TableUpdate ==
  ASSUME NEW A, NEW B, NEW C, NEW f \in [A -> [B -> C]], NEW a \in A, NEW b \in B, NEW c \in C
  PROVE  /\ [f EXCEPT ![a][b] = c] \in [A -> [B -> C]]
         /\ \A x \in A, y \in B :
              [f EXCEPT ![a][b] = c][x][y] = IF x = a /\ y = b THEN c ELSE f[x][y]
OBVIOUS

(* Every upstream queue number hashes into the bloom filter.               *)
LEMMA IndexInBloom ==
  ASSUME NEW n \in Nat
  PROVE  Index(n) \in Bloom
<1>1. BloomLen \in Nat /\ BloomLen > 0
  BY SwitchAssumption
<1>. QED BY <1>1 DEF Index, Bloom

(* A value below the modulus is not wrapped.                               *)
LEMMA ModSmall ==
  ASSUME NEW n \in Nat, NEW m \in Nat, n < m
  PROVE  n % m = n
BY SMT

(* A sum of two numbers below m wraps at most once.                        *)
LEMMA ModRange ==
  ASSUME NEW n \in Nat, NEW m \in Nat, m <= n, n < m + m
  PROVE  n % m = n - m
BY SMT

(* Counting up modulo m. *)
LEMMA ModUp ==
  ASSUME NEW c \in Nat, NEW n \in Nat, NEW m \in Nat, c < m, n + 1 < m
  PROVE  (((c + n) % m) + 1) % m = (c + (n + 1)) % m
<1>1. CASE c + n + 1 < m
  <2>1. (c + n) % m = c + n
    BY <1>1, ModSmall
  <2>. QED BY <2>1
<1>2. CASE c + n + 1 = m
  <2>1. (c + n) % m = c + n
    BY <1>2, ModSmall
  <2>. QED BY <2>1
<1>3. CASE c + n + 1 > m
  <2>1. c + n \in Nat /\ m <= c + n /\ c + n < m + m
    BY <1>3
  <2>2. (c + n) % m = c + n - m
    BY <2>1, ModRange
  <2>3. c + n + 1 \in Nat /\ m <= c + n + 1 /\ c + n + 1 < m + m
    BY <1>3
  <2>4. (c + n + 1) % m = c + n + 1 - m
    BY <2>3, ModRange
  <2>5. c + n - m + 1 \in Nat /\ c + n - m + 1 < m
    BY <1>3
  <2>6. (c + n - m + 1) % m = c + n - m + 1
    BY <2>5, ModSmall
  <2>. QED BY <2>2, <2>4, <2>6
<1>. QED BY <1>1, <1>2, <1>3

(* And down. *)
LEMMA ModPrevious ==
  ASSUME NEW a \in Nat, NEW m \in Nat, 0 < a, a < m + m
  PROVE  ((a % m) - 1) % m = (a - 1) % m
<1>1. CASE a < m
  <2>1. a % m = a
    BY <1>1, ModSmall
  <2>. QED BY <2>1
<1>2. CASE a = m
  <2>1. a % m = 0
    BY <1>2
  <2>2. (0 - 1) % m = m - 1
    BY <1>2, SMT
  <2>3. (a - 1) % m = m - 1
    BY <1>2, ModSmall
  <2>. QED BY <2>1, <2>2, <2>3
<1>3. CASE m < a
  <2>1. a % m = a - m
    <3>1. m <= a
      BY <1>3
    <3>. QED BY <3>1, ModRange
  <2>2. PICK k \in Nat : k = a - 1
    OBVIOUS
  <2>3. m <= k /\ k < m + m
    BY <1>3, <2>2
  <2>4. k % m = k - m
    BY <2>3, ModRange
  <2>5. k - m \in Nat /\ k - m < m /\ a - m - 1 = k - m
    BY <1>3, <2>2, <2>3
  <2>6. (k - m) % m = k - m
    BY <2>5, ModSmall
  <2>. QED BY <2>1, <2>2, <2>4, <2>5, <2>6
<1>. QED BY <1>1, <1>2, <1>3

LEMMA ModDown ==
  ASSUME NEW c \in Nat, NEW n \in Nat, NEW m \in Nat, c < m, n < m, 0 < n
  PROVE  (((c + n) % m) - 1) % m = (c + (n - 1)) % m
<1>1. PICK a \in Nat : a = c + n
  OBVIOUS
<1>2. 0 < a /\ a < m + m /\ a - 1 = c + (n - 1)
  BY <1>1
<1>3. ((a % m) - 1) % m = (a - 1) % m
  BY <1>2, ModPrevious
<1>. QED BY <1>1, <1>2, <1>3

(* All positions, and how many there are. *)
Positions == Dev \X DataQ \X (1 .. MaxQueue)

(* SwitchAssumption bounds the number of positions by the counter's range. *)
LEMMA PositionsFinite ==
  /\ IsFiniteSet(Positions)
  /\ Cardinality(Positions) \in Nat
  /\ Cardinality(Positions) < CounterMod
<1> DEFINE pairs == Dev \X DataQ
<1> DEFINE T == pairs \X (1 .. MaxQueue)
<1> DEFINE f == [t \in Positions |-> <<<<t[1], t[2]>>, t[3]>>]
<1>1. MaxQueue \in Nat /\ CounterMod \in Nat /\ IsFiniteSet(Dev) /\ IsFiniteSet(DataQ)
  BY SwitchAssumption
<1>2. IsFiniteSet(pairs) /\ Cardinality(pairs) \in Nat
  BY <1>1, FS_Product, FS_CardinalityType
<1>3. IsFiniteSet(1 .. MaxQueue) /\ Cardinality(1 .. MaxQueue) = MaxQueue
  BY <1>1, FS_Interval
<1>4. IsFiniteSet(T) /\ Cardinality(T) = Cardinality(pairs) * MaxQueue
  <2> HIDE DEF pairs
  <2>. QED BY <1>2, <1>3, FS_Product
<1>5. f \in Injection(Positions, T)
  BY DEF Positions, Injection, IsInjective
<1>6. IsFiniteSet(Positions) /\ Cardinality(Positions) <= Cardinality(T)
  <2> HIDE DEF f, T
  <2>. QED BY <1>4, <1>5, FS_Injection
<1>7. Cardinality(Positions) \in Nat
  BY <1>6, FS_CardinalityType
<1>8. MaxQueue * Cardinality(pairs) < CounterMod
  BY SwitchAssumption
<1>9. Cardinality(T) < CounterMod
  <2> HIDE DEF pairs, T
  <2>. QED BY <1>1, <1>2, <1>4, <1>8
<1>. QED
  <2> HIDE DEF T
  <2>1. Cardinality(T) \in Nat
    BY <1>4, FS_CardinalityType
  <2>. QED BY <1>1, <1>6, <1>7, <1>9, <2>1

(* So any set of positions can be counted without wrapping.                *)
LEMMA PartFinite ==
  ASSUME NEW A \in SUBSET Positions
  PROVE  IsFiniteSet(A) /\ Cardinality(A) \in Nat /\ Cardinality(A) < CounterMod
<1>1. IsFiniteSet(A) /\ Cardinality(A) <= Cardinality(Positions)
  BY PositionsFinite, FS_Subset
<1>2. Cardinality(A) \in Nat
  BY <1>1, FS_CardinalityType
<1>. QED BY <1>1, <1>2, PositionsFinite, SwitchAssumption

-----------------------------------------------------------------------------
(* A packet joins queue q of device o. *)

NewSlot(s, o, q) == <<o, q, Len(s.queue[o][q]) + 1>>

Queued(s, r, o, q, p, mark) ==
  \A d \in Dev, e \in DataQ :
    /\ r.queue[d][e] = IF d = o /\ e = q THEN Append(s.queue[d][e], p) ELSE s.queue[d][e]
    /\ r.heads[d][e] = IF d = o /\ e = q THEN Append(s.heads[d][e], mark) ELSE s.heads[d][e]

(* The positions of the others do not change. *)
LEMMA JoinedSlots ==
  ASSUME NEW s \in State, InStepOf(s), NEW o \in Dev, NEW q \in DataQ,
         Len(s.queue[o][q]) < MaxQueue, NEW p \in Packet, NEW mark \in BOOLEAN,
         NEW r, Queued(s, r, o, q, p, mark)
  PROVE  /\ Slots(r) = Slots(s) \cup {NewSlot(s, o, q)}
         /\ NewSlot(s, o, q) \notin Slots(s)
         /\ At(r, NewSlot(s, o, q)) = p
         /\ \A t \in Slots(s) : At(r, t) = At(s, t)
<1> DEFINE n == NewSlot(s, o, q)
<1>1. \A d \in Dev, e \in DataQ : s.queue[d][e] \in Seq(Packet)
  BY DEF State
<1>2. \A d \in Dev, e \in DataQ : Len(s.queue[d][e]) \in Nat
  BY <1>1
<1>3. MaxQueue \in Nat
  BY SwitchAssumption
<1>4. \A d \in Dev, e \in DataQ :
        Len(r.queue[d][e]) = IF d = o /\ e = q THEN Len(s.queue[d][e]) + 1 ELSE Len(s.queue[d][e])
  <2>1. Len(Append(s.queue[o][q], p)) = Len(s.queue[o][q]) + 1
    BY <1>1, AppendProperties
  <2>. QED BY <2>1 DEF Queued
<1>5. n \in Positions /\ n \notin Slots(s)
  BY <1>2, <1>3 DEF Positions, Slots, NewSlot
<1>6. ASSUME NEW t \in Positions
      PROVE  t \in Slots(r) <=> t \in Slots(s) \/ t = n
  <2>1. t[1] \in Dev /\ t[2] \in DataQ /\ t[3] \in 1 .. MaxQueue /\ t = <<t[1], t[2], t[3]>>
    BY <1>6 DEF Positions
  <2>2. CASE t[1] = o /\ t[2] = q
    <3>1. t = n <=> t[3] = Len(s.queue[o][q]) + 1
      BY <2>1, <2>2 DEF NewSlot
    <3>2. t \in Slots(r) <=> t[3] <= Len(s.queue[o][q]) + 1
      BY <1>4, <1>6, <2>1, <2>2 DEF Slots, Positions
    <3>3. t \in Slots(s) <=> t[3] <= Len(s.queue[o][q])
      BY <1>6, <2>1, <2>2 DEF Slots, Positions
    <3>. QED BY <1>2, <2>1, <3>1, <3>2, <3>3
  <2>3. CASE ~ (t[1] = o /\ t[2] = q)
    <3>1. t # n
      BY <2>3 DEF NewSlot
    <3>2. Len(r.queue[t[1]][t[2]]) = Len(s.queue[t[1]][t[2]])
      BY <1>4, <2>1, <2>3
    <3>. QED BY <1>6, <3>1, <3>2 DEF Slots, Positions
  <2>. QED BY <2>2, <2>3
<1>7. Slots(r) = Slots(s) \cup {n}
  BY <1>5, <1>6 DEF Slots, Positions
<1>8. At(r, n) = p
  <2>1. Append(s.queue[o][q], p)[Len(s.queue[o][q]) + 1] = p
    BY <1>1, AppendProperties
  <2>. QED BY <2>1 DEF Queued, At, NewSlot
<1>9. ASSUME NEW t \in Slots(s)
      PROVE  At(r, t) = At(s, t)
  <2>1. t[1] \in Dev /\ t[2] \in DataQ /\ t[3] \in 1 .. MaxQueue /\ t[3] <= Len(s.queue[t[1]][t[2]])
    BY <1>9 DEF Slots
  <2>2. s.queue[t[1]][t[2]] \in Seq(Packet) /\ t[3] \in 1 .. Len(s.queue[t[1]][t[2]])
    BY <1>1, <1>2, <2>1
  <2>3. Append(s.queue[t[1]][t[2]], p)[t[3]] = s.queue[t[1]][t[2]][t[3]]
    BY <2>2
  <2>. QED BY <2>1, <2>3 DEF Queued, At
<1>. QED BY <1>5, <1>7, <1>8, <1>9

(* Nor do their marks. *)
LEMMA JoinedMarks ==
  ASSUME NEW s \in State, InStepOf(s), NEW o \in Dev, NEW q \in DataQ,
         Len(s.queue[o][q]) < MaxQueue, NEW p \in Packet, NEW mark \in BOOLEAN,
         NEW r, Queued(s, r, o, q, p, mark)
  PROVE  /\ r.heads[o][q][Len(s.queue[o][q]) + 1] = mark
         /\ \A t \in Slots(s) : r.heads[t[1]][t[2]][t[3]] = s.heads[t[1]][t[2]][t[3]]
<1> PICK T : T = BOOLEAN
  OBVIOUS
<1>1. \A d \in Dev, e \in DataQ : s.heads[d][e] \in Seq(T) /\ mark \in T
  BY DEF State
<1>2. \A d \in Dev, e \in DataQ : /\ Len(s.heads[d][e]) = Len(s.queue[d][e])
                                  /\ Len(s.heads[d][e]) \in Nat
  BY <1>1 DEF InStepOf
<1>3. r.heads[o][q][Len(s.queue[o][q]) + 1] = mark
  <2>1. r.heads[o][q] = Append(s.heads[o][q], mark)
    BY DEF Queued
  <2>2. Append(s.heads[o][q], mark)[Len(s.heads[o][q]) + 1] = mark
    BY <1>1, AppendProperties
  <2>. QED BY <1>2, <2>1, <2>2
<1>4. ASSUME NEW t \in Slots(s)
      PROVE  r.heads[t[1]][t[2]][t[3]] = s.heads[t[1]][t[2]][t[3]]
  <2>1. t[1] \in Dev /\ t[2] \in DataQ /\ t[3] \in 1 .. MaxQueue /\ t[3] <= Len(s.queue[t[1]][t[2]])
    BY <1>4 DEF Slots
  <2>2. t[3] \in 1 .. Len(s.heads[t[1]][t[2]])
    <3>1. /\ Len(s.heads[t[1]][t[2]]) = Len(s.queue[t[1]][t[2]])
          /\ Len(s.heads[t[1]][t[2]]) \in Nat
      BY <1>2, <2>1
    <3>2. t[3] \in Nat /\ t[3] >= 1
      BY <2>1
    <3>. QED BY <2>1, <3>1, <3>2
  <2>3. Append(s.heads[t[1]][t[2]], mark)[t[3]] = s.heads[t[1]][t[2]][t[3]]
    BY <1>1, <2>1, <2>2, AppendProperties
  <2>. QED BY <2>1, <2>3 DEF Queued
<1>. QED BY <1>3, <1>4

-----------------------------------------------------------------------------
(* The first packet leaves queue q of device o. *)

FirstSlot(o, q) == <<o, q, 1>>

Departed(s, r, o, q) ==
  \A d \in Dev, e \in DataQ :
    /\ r.queue[d][e] = IF d = o /\ e = q THEN Tail(s.queue[d][e]) ELSE s.queue[d][e]
    /\ r.heads[d][e] = IF d = o /\ e = q THEN Tail(s.heads[d][e]) ELSE s.heads[d][e]

(* Where the packet at a position was before the first one left. *)
Before(o, q, t) == IF t[1] = o /\ t[2] = q THEN <<o, q, t[3] + 1>> ELSE t

(* Position i of the rest was position i + 1: Before is a bijection onto all*)
(* the positions but the first.                                            *)
LEMMA DepartedSlots ==
  ASSUME NEW s \in State, InStepOf(s), NEW o \in Dev, NEW q \in DataQ,
         s.queue[o][q] # <<>>, NEW r, Departed(s, r, o, q)
  PROVE  /\ FirstSlot(o, q) \in Slots(s)
         /\ At(s, FirstSlot(o, q)) = Head(s.queue[o][q])
         /\ \A t \in Slots(r) : /\ Before(o, q, t) \in Slots(s) \ {FirstSlot(o, q)}
                                /\ At(r, t) = At(s, Before(o, q, t))
                                /\ Before(o, q, t)[1] = t[1]
                                /\ Before(o, q, t)[2] = t[2]
         /\ \A t, u \in Slots(r) : Before(o, q, t) = Before(o, q, u) => t = u
         /\ \A u \in Slots(s) \ {FirstSlot(o, q)} : \E t \in Slots(r) : u = Before(o, q, t)
<1>1. \A d \in Dev, e \in DataQ : s.queue[d][e] \in Seq(Packet)
  BY DEF State
<1>2. \A d \in Dev, e \in DataQ : Len(s.queue[d][e]) \in Nat /\ Len(s.queue[d][e]) <= MaxQueue
  BY <1>1 DEF InStepOf
<1>3. MaxQueue \in Nat
  BY SwitchAssumption
<1>4. Len(s.queue[o][q]) > 0 /\ Head(s.queue[o][q]) = s.queue[o][q][1]
  BY <1>1
<1>5. /\ Len(r.queue[o][q]) = Len(s.queue[o][q]) - 1
      /\ \A i \in 1 .. Len(r.queue[o][q]) : r.queue[o][q][i] = s.queue[o][q][i + 1]
  <2>1. r.queue[o][q] = Tail(s.queue[o][q])
    BY DEF Departed
  <2>. QED BY <1>1, <2>1, HeadTailProperties
<1>6. \A d \in Dev, e \in DataQ : ~ (d = o /\ e = q) => r.queue[d][e] = s.queue[d][e]
  BY DEF Departed
<1>7. FirstSlot(o, q) \in Slots(s) /\ At(s, FirstSlot(o, q)) = Head(s.queue[o][q])
  BY <1>2, <1>3, <1>4 DEF FirstSlot, Slots, At
<1>8. ASSUME NEW t \in Slots(r)
      PROVE  /\ Before(o, q, t) \in Slots(s) \ {FirstSlot(o, q)}
             /\ At(r, t) = At(s, Before(o, q, t))
             /\ Before(o, q, t)[1] = t[1]
             /\ Before(o, q, t)[2] = t[2]
  <2>1. /\ t \in Positions /\ t[1] \in Dev /\ t[2] \in DataQ /\ t[3] \in 1 .. MaxQueue
        /\ t = <<t[1], t[2], t[3]>> /\ t[3] <= Len(r.queue[t[1]][t[2]])
    BY <1>8 DEF Slots, Positions
  <2>2. CASE t[1] = o /\ t[2] = q
    <3>1. Before(o, q, t) = <<o, q, t[3] + 1>>
      BY <2>2 DEF Before
    <3>2. t[3] <= Len(r.queue[o][q])
      BY <2>1, <2>2
    <3>3. t[3] \in 1 .. Len(r.queue[o][q]) /\ t[3] + 1 <= Len(s.queue[o][q])
          /\ t[3] + 1 \in 1 .. MaxQueue
      BY <1>2, <1>3, <1>5, <2>1, <3>2
    <3>4. Before(o, q, t) \in Slots(s) /\ Before(o, q, t) # FirstSlot(o, q)
      BY <2>1, <3>1, <3>3 DEF Slots, FirstSlot
    <3>5. At(r, t) = At(s, Before(o, q, t))
      <4>1. r.queue[o][q][t[3]] = s.queue[o][q][t[3] + 1]
        BY <1>5, <3>3
      <4>. QED BY <2>2, <3>1, <4>1 DEF At
    <3>. QED BY <2>2, <3>1, <3>4, <3>5
  <2>3. CASE ~ (t[1] = o /\ t[2] = q)
    <3>1. Before(o, q, t) = t /\ t # FirstSlot(o, q)
      BY <2>1, <2>3 DEF Before, FirstSlot
    <3>2. r.queue[t[1]][t[2]] = s.queue[t[1]][t[2]]
      BY <1>6, <2>1, <2>3
    <3>3. t \in Slots(s)
      BY <2>1, <3>2 DEF Slots, Positions
    <3>. QED BY <3>1, <3>2, <3>3 DEF At
  <2>. QED BY <2>2, <2>3
<1>9. ASSUME NEW t \in Slots(r), NEW u \in Slots(r), Before(o, q, t) = Before(o, q, u)
      PROVE  t = u
  <2>1. t[3] \in Nat /\ u[3] \in Nat /\ t = <<t[1], t[2], t[3]>> /\ u = <<u[1], u[2], u[3]>>
    BY DEF Slots
  <2>2. t[1] = u[1] /\ t[2] = u[2]
    BY <1>8, <1>9
  <2>. QED BY <1>9, <2>1, <2>2 DEF Before
<1>10. ASSUME NEW u \in Slots(s) \ {FirstSlot(o, q)}
       PROVE  \E t \in Slots(r) : u = Before(o, q, t)
  <2>1. /\ u \in Positions /\ u[1] \in Dev /\ u[2] \in DataQ /\ u[3] \in 1 .. MaxQueue
        /\ u = <<u[1], u[2], u[3]>> /\ u[3] <= Len(s.queue[u[1]][u[2]])
    BY <1>10 DEF Slots, Positions
  <2>2. CASE u[1] = o /\ u[2] = q
    <3>1. u[3] # 1
      BY <1>10, <2>1, <2>2 DEF FirstSlot
    <3> DEFINE t == <<o, q, u[3] - 1>>
    <3>2. u[3] - 1 \in 1 .. MaxQueue /\ u[3] - 1 <= Len(r.queue[o][q])
      BY <1>2, <1>3, <1>5, <2>1, <2>2, <3>1
    <3>3. t \in Slots(r)
      BY <3>2 DEF Slots
    <3>4. u = Before(o, q, t)
      BY <2>1, <2>2 DEF Before
    <3>. QED BY <3>3, <3>4
  <2>3. CASE ~ (u[1] = o /\ u[2] = q)
    <3>1. r.queue[u[1]][u[2]] = s.queue[u[1]][u[2]]
      BY <1>6, <2>1, <2>3
    <3>2. u \in Slots(r) /\ u = Before(o, q, u)
      BY <2>1, <2>3, <3>1 DEF Slots, Positions, Before
    <3>. QED BY <3>2
  <2>. QED BY <2>2, <2>3
<1>. QED BY <1>7, <1>8, <1>9, <1>10

(* The marks move with their packets.                                      *)
LEMMA DepartedMarks ==
  ASSUME NEW s \in State, InStepOf(s), NEW o \in Dev, NEW q \in DataQ,
         s.queue[o][q] # <<>>, NEW r, Departed(s, r, o, q), NEW t \in Slots(r)
  PROVE  LET u == Before(o, q, t)
         IN  r.heads[t[1]][t[2]][t[3]] = s.heads[u[1]][u[2]][u[3]]
<1> PICK T : T = BOOLEAN
  OBVIOUS
<1>1. \A d \in Dev, e \in DataQ : s.heads[d][e] \in Seq(T)
  BY DEF State
<1>2. t[1] \in Dev /\ t[2] \in DataQ /\ t[3] \in Nat /\ t[3] >= 1
      /\ t[3] <= Len(r.queue[t[1]][t[2]])
  BY DEF Slots
<1>3. CASE t[1] = o /\ t[2] = q
  <2>1. Len(s.heads[o][q]) = Len(s.queue[o][q]) /\ Len(s.heads[o][q]) \in Nat
    BY <1>1 DEF InStepOf
  <2>2. s.queue[o][q] \in Seq(Packet)
    BY DEF State
  <2>3. r.queue[o][q] = Tail(s.queue[o][q]) /\ r.heads[o][q] = Tail(s.heads[o][q])
    BY DEF Departed
  <2>4. Len(r.queue[o][q]) = Len(s.queue[o][q]) - 1
    BY <2>2, <2>3, HeadTailProperties
  <2>5. s.heads[o][q] # <<>>
    BY <2>1, <2>2
  <2>6. /\ Len(r.heads[o][q]) = Len(s.heads[o][q]) - 1
        /\ \A i \in 1 .. Len(r.heads[o][q]) : r.heads[o][q][i] = s.heads[o][q][i + 1]
    BY <1>1, <2>3, <2>5, HeadTailProperties
  <2>7. t[3] \in 1 .. Len(r.heads[o][q])
    BY <1>2, <1>3, <2>1, <2>4, <2>6
  <2>8. Before(o, q, t) = <<o, q, t[3] + 1>>
    BY <1>3 DEF Before
  <2>9. r.heads[o][q][t[3]] = s.heads[o][q][t[3] + 1]
    BY <2>6, <2>7
  <2>. QED BY <1>3, <2>8, <2>9
<1>4. CASE ~ (t[1] = o /\ t[2] = q)
  <2>1. Before(o, q, t) = t
    BY <1>4 DEF Before
  <2>2. r.heads[t[1]][t[2]] = s.heads[t[1]][t[2]]
    BY <1>2, <1>4 DEF Departed
  <2>. QED BY <2>1, <2>2
<1>. QED BY <1>3, <1>4

-----------------------------------------------------------------------------
(* Counting the packets of an entry and the marked packets of an index. *)

(* The sets the counts are about are finite sets of positions.             *)
LEMMA SlotSets ==
  ASSUME NEW s
  PROVE  /\ \A v, o : EntrySlots(s, v, o) \in SUBSET Slots(s)
         /\ \A d, ix : MarkedSlots(s, d, ix) \in SUBSET Slots(s)
         /\ Slots(s) \in SUBSET Positions
         /\ \A A \in SUBSET Slots(s) : IsFiniteSet(A) /\ Cardinality(A) \in Nat
BY PartFinite DEF EntrySlots, MarkedSlots, Slots, Positions

(* How many positions of a set A are left when the first packet of a queue goes.*)
LEMMA DepartedCount ==
  ASSUME NEW s \in State, InStepOf(s), NEW o \in Dev, NEW q \in DataQ,
         s.queue[o][q] # <<>>, NEW r, Departed(s, r, o, q),
         NEW A \in SUBSET Slots(s)
  PROVE  Cardinality({t \in Slots(r) : Before(o, q, t) \in A})
           = IF FirstSlot(o, q) \in A THEN Cardinality(A) - 1 ELSE Cardinality(A)
<1> DEFINE B == {t \in Slots(r) : Before(o, q, t) \in A}
<1> DEFINE C == A \ {FirstSlot(o, q)}
<1> DEFINE f == [t \in B |-> Before(o, q, t)]
<1>1. IsFiniteSet(A) /\ IsFiniteSet(B)
  BY SlotSets
<1>2. Cardinality(C) = IF FirstSlot(o, q) \in A THEN Cardinality(A) - 1 ELSE Cardinality(A)
  BY <1>1, FS_RemoveElement
<1>3. f \in [B -> C]
  BY DepartedSlots
<1>4. \A t, u \in B : f[t] = f[u] => t = u
  BY DepartedSlots
<1>5. \A u \in C : \E t \in B : f[t] = u
  <2> SUFFICES ASSUME NEW u \in C PROVE \E t \in B : f[t] = u
    OBVIOUS
  <2>1. u \in Slots(s) \ {FirstSlot(o, q)}
    OBVIOUS
  <2>2. PICK t \in Slots(r) : u = Before(o, q, t)
    BY <2>1, DepartedSlots
  <2>. QED BY <2>2
<1>6. ExistsBijection(B, C)
  <2> HIDE DEF B, C, f
  <2>. QED BY <1>3, <1>4, <1>5 DEF ExistsBijection, Bijection, Injection, Surjection, IsInjective
<1>7. Cardinality(C) = Cardinality(B)
  <2> HIDE DEF B, C
  <2>. QED BY <1>1, <1>6, FS_Bijection
<1>. QED BY <1>2, <1>7

(* Send's update of the flow table keeps every entry exact.                *)
LEMMA EntryJoined ==
  ASSUME NEW s \in State, InStepOf(s), EntryExactOf(s), NEW o \in Dev, NEW q \in DataQ,
         Len(s.queue[o][q]) < MaxQueue, NEW p \in Packet, NEW mark \in BOOLEAN,
         NEW r, Queued(s, r, o, q, p, mark),
         s.size[Vfid[p.flow]][o] > 0 => q = s.phys[Vfid[p.flow]][o],
         \A v \in Vfids, d \in Dev :
           IF v = Vfid[p.flow] /\ d = o
           THEN r.size[v][d] = s.size[v][d] + 1 /\ r.phys[v][d] = q
           ELSE r.size[v][d] = s.size[v][d] /\ r.phys[v][d] = s.phys[v][d]
  PROVE  EntryExactOf(r)
<1> DEFINE n == NewSlot(s, o, q)
<1> SUFFICES ASSUME NEW v \in Vfids, NEW d \in Dev
             PROVE  /\ r.size[v][d] = Cardinality(EntrySlots(r, v, d))
                    /\ \A t \in EntrySlots(r, v, d) : t[2] = r.phys[v][d]
  BY DEF EntryExactOf
<1>1. /\ s.size[v][d] = Cardinality(EntrySlots(s, v, d))
      /\ \A t \in EntrySlots(s, v, d) : t[2] = s.phys[v][d]
  BY DEF EntryExactOf
<1>2. /\ IsFiniteSet(EntrySlots(s, v, d)) /\ Cardinality(EntrySlots(s, v, d)) \in Nat
      /\ n \notin EntrySlots(s, v, d)
  BY SlotSets, JoinedSlots
<1>3. n[1] = o /\ n[2] = q
  BY DEF NewSlot
<1>4. CASE v = Vfid[p.flow] /\ d = o
  <2>1. EntrySlots(r, v, d) = EntrySlots(s, v, d) \cup {n}
    BY JoinedSlots, <1>3, <1>4 DEF EntrySlots
  <2>2. Cardinality(EntrySlots(r, v, d)) = Cardinality(EntrySlots(s, v, d)) + 1
    BY <1>2, <2>1, FS_AddElement
  <2>3. r.size[v][d] = s.size[v][d] + 1 /\ r.phys[v][d] = q
    BY <1>4
  <2>4. ASSUME NEW t \in EntrySlots(s, v, d) PROVE t[2] = q
    <3>1. Cardinality(EntrySlots(s, v, d)) # 0
      BY <1>2, <2>4, FS_EmptySet
    <3>. QED BY <1>1, <1>2, <1>4, <3>1
  <2>. QED BY <1>1, <1>3, <2>1, <2>2, <2>3, <2>4
<1>5. CASE ~ (v = Vfid[p.flow] /\ d = o)
  <2>1. EntrySlots(r, v, d) = EntrySlots(s, v, d)
    BY JoinedSlots, <1>3, <1>5 DEF EntrySlots
  <2>. QED BY <1>1, <1>5, <2>1
<1>. QED BY <1>4, <1>5

(* So does the decrement in DequeueAndTransmit.                            *)
LEMMA EntryDeparted ==
  ASSUME NEW s \in State, InStepOf(s), EntryExactOf(s), NEW o \in Dev, NEW q \in DataQ,
         s.queue[o][q] # <<>>, NEW r, Departed(s, r, o, q),
         NEW p, p = Head(s.queue[o][q]),
         \A v \in Vfids, d \in Dev :
           /\ r.size[v][d] = IF v = Vfid[p.flow] /\ d = o THEN s.size[v][d] - 1 ELSE s.size[v][d]
           /\ r.phys[v][d] = s.phys[v][d]
  PROVE  EntryExactOf(r)
<1> DEFINE n == FirstSlot(o, q)
<1> SUFFICES ASSUME NEW v \in Vfids, NEW d \in Dev
             PROVE  /\ r.size[v][d] = Cardinality(EntrySlots(r, v, d))
                    /\ \A t \in EntrySlots(r, v, d) : t[2] = r.phys[v][d]
  BY DEF EntryExactOf
<1>1. /\ s.size[v][d] = Cardinality(EntrySlots(s, v, d))
      /\ \A t \in EntrySlots(s, v, d) : t[2] = s.phys[v][d]
  BY DEF EntryExactOf
<1>2. EntrySlots(r, v, d) = {t \in Slots(r) : Before(o, q, t) \in EntrySlots(s, v, d)}
  BY DepartedSlots DEF EntrySlots
<1>3. n \in EntrySlots(s, v, d) <=> v = Vfid[p.flow] /\ d = o
  <2>1. n[1] = o /\ n \in Slots(s) /\ At(s, n) = p
    BY DepartedSlots DEF FirstSlot
  <2>. QED BY <2>1 DEF EntrySlots
<1>4. Cardinality(EntrySlots(r, v, d)) = r.size[v][d]
  BY <1>1, <1>2, <1>3, DepartedCount, SlotSets
<1>5. ASSUME NEW t \in EntrySlots(r, v, d) PROVE t[2] = r.phys[v][d]
  <2>1. t \in Slots(r) /\ Before(o, q, t) \in EntrySlots(s, v, d) /\ Before(o, q, t)[2] = t[2]
    BY <1>2, DepartedSlots
  <2>. QED BY <1>1, <2>1
<1>. QED BY <1>4, <1>5

(* MarkedSlots by membership.                                              *)
LEMMA MarkedMember ==
  ASSUME NEW s, NEW d, NEW ix, NEW t
  PROVE  t \in MarkedSlots(s, d, ix) <=>
           t \in Slots(s) /\ s.heads[t[1]][t[2]][t[3]] /\ At(s, t).in = d /\ Index(At(s, t).prev) = ix
BY Zenon DEF MarkedSlots

(* A counter and a bit of device d that stand for n marked packets. *)
CounterFits(s, d, ix, n) ==
  /\ s.counter[d][ix] = (Counter0[d][ix] + n) % CounterMod
  /\ Zeroed(d, ix) => (ix \in s.bloom[d] <=> n > 0)

(* CounterExactOf, counter by counter. *)
LEMMA CounterExactFits ==
  ASSUME NEW s
  PROVE  CounterExactOf(s) <=>
           \A d \in Dev, ix \in Bloom : CounterFits(s, d, ix, Cardinality(MarkedSlots(s, d, ix)))
BY DEF CounterExactOf, CounterFits

(* What the memory holds in a counter.                                     *)
LEMMA CounterStart ==
  ASSUME NEW d \in Dev, NEW ix \in Bloom
  PROVE  Counter0[d][ix] \in Nat /\ CounterMod \in Nat /\ Counter0[d][ix] < CounterMod
BY MemoryAssumption, SwitchAssumption

(* UpdatePauseQueue with n packets marked: the bit is set at the first.     *)
LEMMA FitsUp ==
  ASSUME NEW s, NEW r, NEW d \in Dev, NEW ix \in Bloom, NEW n \in Nat, n + 1 < CounterMod,
         CounterFits(s, d, ix, n),
         r.counter[d][ix] = (s.counter[d][ix] + 1) % CounterMod,
         ix \in r.bloom[d] <=> ix \in s.bloom[d] \/ s.counter[d][ix] = 0
  PROVE  CounterFits(r, d, ix, n + 1)
<1>1. Counter0[d][ix] \in Nat /\ CounterMod \in Nat /\ Counter0[d][ix] < CounterMod
  BY CounterStart
<1>2. s.counter[d][ix] = (Counter0[d][ix] + n) % CounterMod
  BY DEF CounterFits
<1>3. r.counter[d][ix] = (Counter0[d][ix] + (n + 1)) % CounterMod
  <2>1. (((Counter0[d][ix] + n) % CounterMod) + 1) % CounterMod = (Counter0[d][ix] + (n + 1)) % CounterMod
    BY <1>1, ModUp
  <2>. QED BY <1>2, <2>1, Zenon
<1>4. ASSUME Zeroed(d, ix) PROVE ix \in r.bloom[d]
  <2>1. Counter0[d][ix] = 0 /\ (ix \in s.bloom[d] <=> n > 0)
    BY <1>4 DEF Zeroed, CounterFits
  <2>2. CASE n > 0
    BY <2>1, <2>2
  <2>3. CASE n = 0
    <3>1. s.counter[d][ix] = 0
      BY <1>1, <1>2, <2>1, <2>3, ModSmall
    <3>. QED BY <3>1
  <2>. QED BY <2>2, <2>3
<1>. QED BY <1>3, <1>4 DEF CounterFits

(* UpdateResumeQueue: the bit is cleared at the last.                      *)
LEMMA FitsDown ==
  ASSUME NEW s, NEW r, NEW d \in Dev, NEW ix \in Bloom, NEW n \in Nat, n < CounterMod, 0 < n,
         CounterFits(s, d, ix, n),
         r.counter[d][ix] = (s.counter[d][ix] - 1) % CounterMod,
         ix \in r.bloom[d] <=> ix \in s.bloom[d] /\ s.counter[d][ix] # 1
  PROVE  CounterFits(r, d, ix, n - 1)
<1>1. Counter0[d][ix] \in Nat /\ CounterMod \in Nat /\ Counter0[d][ix] < CounterMod
  BY CounterStart
<1>2. s.counter[d][ix] = (Counter0[d][ix] + n) % CounterMod
  BY DEF CounterFits
<1>3. r.counter[d][ix] = (Counter0[d][ix] + (n - 1)) % CounterMod
  BY <1>1, <1>2, ModDown
<1>4. ASSUME Zeroed(d, ix) PROVE ix \in r.bloom[d] <=> n - 1 > 0
  <2>1. Counter0[d][ix] = 0 /\ (ix \in s.bloom[d] <=> n > 0)
    BY <1>4 DEF Zeroed, CounterFits
  <2>2. s.counter[d][ix] = n
    BY <1>1, <1>2, <2>1, ModSmall
  <2>. QED BY <2>1, <2>2
<1>. QED BY <1>3, <1>4 DEF CounterFits

(* A marked packet joins: there are not enough packets for the counter to   *)
(* come round to where it was.                                             *)
LEMMA CounterJoined ==
  ASSUME NEW s \in State, InStepOf(s), CounterExactOf(s), NEW o \in Dev, NEW q \in DataQ,
         Len(s.queue[o][q]) < MaxQueue, NEW p \in Packet, NEW mark \in BOOLEAN,
         NEW r, Queued(s, r, o, q, p, mark),
         \A d \in Dev, ix \in Bloom :
           IF mark /\ d = p.in /\ ix = Index(p.prev)
           THEN /\ r.counter[d][ix] = (s.counter[d][ix] + 1) % CounterMod
                /\ ix \in r.bloom[d] <=> ix \in s.bloom[d] \/ s.counter[d][ix] = 0
           ELSE /\ r.counter[d][ix] = s.counter[d][ix]
                /\ ix \in r.bloom[d] <=> ix \in s.bloom[d]
  PROVE  CounterExactOf(r)
<1> DEFINE n == NewSlot(s, o, q)
<1> SUFFICES ASSUME NEW d \in Dev, NEW ix \in Bloom
             PROVE  CounterFits(r, d, ix, Cardinality(MarkedSlots(r, d, ix)))
  BY CounterExactFits
<1> DEFINE k == Cardinality(MarkedSlots(s, d, ix))
<1>1. CounterFits(s, d, ix, k)
  BY CounterExactFits
<1>2. /\ IsFiniteSet(MarkedSlots(s, d, ix)) /\ Cardinality(MarkedSlots(s, d, ix)) \in Nat
      /\ n \notin MarkedSlots(s, d, ix)
  BY SlotSets, JoinedSlots
<1>3. r.heads[n[1]][n[2]][n[3]] = mark /\ n \in Slots(r)
  BY JoinedMarks, JoinedSlots DEF NewSlot
<1>4. \A t \in Slots(s) : t \in Slots(r) /\ (t \in MarkedSlots(r, d, ix) <=> t \in MarkedSlots(s, d, ix))
  <2> SUFFICES ASSUME NEW t \in Slots(s)
               PROVE  t \in Slots(r) /\ (t \in MarkedSlots(r, d, ix) <=> t \in MarkedSlots(s, d, ix))
    OBVIOUS
  <2>1. t \in Slots(r) /\ At(r, t) = At(s, t)
    BY JoinedSlots
  <2>2. r.heads[t[1]][t[2]][t[3]] = s.heads[t[1]][t[2]][t[3]]
    BY JoinedMarks
  <2>3. t \in MarkedSlots(r, d, ix) <=>
          t \in Slots(r) /\ r.heads[t[1]][t[2]][t[3]] /\ At(r, t).in = d /\ Index(At(r, t).prev) = ix
    BY MarkedMember
  <2>4. t \in MarkedSlots(s, d, ix) <=>
          t \in Slots(s) /\ s.heads[t[1]][t[2]][t[3]] /\ At(s, t).in = d /\ Index(At(s, t).prev) = ix
    BY MarkedMember
  <2>. QED BY <2>1, <2>2, <2>3, <2>4, Zenon
<1>5. \A t \in MarkedSlots(r, d, ix) : t \in Slots(s) \/ t = n
  BY JoinedSlots DEF MarkedSlots
<1>. n \in MarkedSlots(r, d, ix) <=> mark /\ d = p.in /\ ix = Index(p.prev)
  <2>1. n \in MarkedSlots(r, d, ix) <=>
          n \in Slots(r) /\ r.heads[n[1]][n[2]][n[3]] /\ At(r, n).in = d /\ Index(At(r, n).prev) = ix
    BY MarkedMember
  <2>2. At(r, n) = p
    BY JoinedSlots
  <2>. QED BY <1>3, <2>1, <2>2, Zenon
<1>6. CASE mark /\ d = p.in /\ ix = Index(p.prev)
  <2>1. n \in MarkedSlots(r, d, ix)
    BY <1>6
  <2>2. MarkedSlots(r, d, ix) = MarkedSlots(s, d, ix) \cup {n}
    BY <1>4, <1>5, <2>1, SlotSets
  <2>3. Cardinality(MarkedSlots(r, d, ix)) = Cardinality(MarkedSlots(s, d, ix)) + 1
    BY <1>2, <2>2, FS_AddElement
  <2>4. MarkedSlots(r, d, ix) \in SUBSET Positions
    BY SlotSets
  <2>5. Cardinality(MarkedSlots(r, d, ix)) < CounterMod
    BY <2>4, PartFinite
  <2> HIDE DEF k
  <2>6. k \in Nat /\ k + 1 < CounterMod
    BY <1>2, <2>3, <2>5 DEF k
  <2>7. CounterFits(r, d, ix, k + 1)
    BY <1>1, <1>6, <2>6, FitsUp
  <2>. QED BY <2>3, <2>7 DEF k
<1>7. CASE ~ (mark /\ d = p.in /\ ix = Index(p.prev))
  <2>1. n \notin MarkedSlots(r, d, ix)
    BY <1>7
  <2>2. MarkedSlots(r, d, ix) = MarkedSlots(s, d, ix)
    <3>1. \A t \in MarkedSlots(r, d, ix) : t \in MarkedSlots(s, d, ix)
      BY <1>4, <1>5, <2>1
    <3>2. \A t \in MarkedSlots(s, d, ix) : t \in MarkedSlots(r, d, ix)
      BY <1>4, SlotSets
    <3>. QED BY <3>1, <3>2
  <2>. QED BY <1>1, <1>7, <2>2 DEF CounterFits
<1>. QED BY <1>6, <1>7

(* Nor does the count underflow: the departing packet was counted.         *)
LEMMA CounterDeparted ==
  ASSUME NEW s \in State, InStepOf(s), CounterExactOf(s), NEW o \in Dev, NEW q \in DataQ,
         s.queue[o][q] # <<>>, NEW r, Departed(s, r, o, q),
         NEW p, p = Head(s.queue[o][q]), NEW mark, mark = Head(s.heads[o][q]),
         \A d \in Dev, ix \in Bloom :
           IF mark /\ d = p.in /\ ix = Index(p.prev)
           THEN /\ r.counter[d][ix] = (s.counter[d][ix] - 1) % CounterMod
                /\ ix \in r.bloom[d] <=> ix \in s.bloom[d] /\ s.counter[d][ix] # 1
           ELSE /\ r.counter[d][ix] = s.counter[d][ix]
                /\ ix \in r.bloom[d] <=> ix \in s.bloom[d]
  PROVE  CounterExactOf(r)
<1> DEFINE n == FirstSlot(o, q)
<1> SUFFICES ASSUME NEW d \in Dev, NEW ix \in Bloom
             PROVE  CounterFits(r, d, ix, Cardinality(MarkedSlots(r, d, ix)))
  BY CounterExactFits
<1> DEFINE k == Cardinality(MarkedSlots(s, d, ix))
<1>1. CounterFits(s, d, ix, k)
  BY CounterExactFits
<1>2. IsFiniteSet(MarkedSlots(s, d, ix)) /\ Cardinality(MarkedSlots(s, d, ix)) \in Nat
  BY SlotSets
<1>3. MarkedSlots(r, d, ix) = {t \in Slots(r) : Before(o, q, t) \in MarkedSlots(s, d, ix)}
  <2>1. ASSUME NEW t \in Slots(r)
        PROVE  t \in MarkedSlots(r, d, ix) <=> Before(o, q, t) \in MarkedSlots(s, d, ix)
    <3> DEFINE u == Before(o, q, t)
    <3>1. u \in Slots(s) /\ At(r, t) = At(s, u)
      BY DepartedSlots
    <3>2. r.heads[t[1]][t[2]][t[3]] = s.heads[u[1]][u[2]][u[3]]
      BY DepartedMarks
    <3>3. t \in MarkedSlots(r, d, ix) <=>
            t \in Slots(r) /\ r.heads[t[1]][t[2]][t[3]] /\ At(r, t).in = d /\ Index(At(r, t).prev) = ix
      BY MarkedMember
    <3>4. u \in MarkedSlots(s, d, ix) <=>
            u \in Slots(s) /\ s.heads[u[1]][u[2]][u[3]] /\ At(s, u).in = d /\ Index(At(s, u).prev) = ix
      BY MarkedMember
    <3> HIDE DEF u
    <3>5. t \in MarkedSlots(r, d, ix) <=> u \in MarkedSlots(s, d, ix)
      BY <3>1, <3>2, <3>3, <3>4, Zenon
    <3>. QED BY <3>5 DEF u
  <2>. QED BY <2>1, SlotSets
<1>4. n \in MarkedSlots(s, d, ix) <=> mark /\ d = p.in /\ ix = Index(p.prev)
  <2>1. n \in Slots(s) /\ At(s, n) = p
    BY DepartedSlots
  <2>2. s.heads[n[1]][n[2]][n[3]] = s.heads[o][q][1]
    BY DEF FirstSlot
  <2>3. s.heads[o][q][1] = mark
    BY DEF Head
  <2>. QED BY <2>1, <2>2, <2>3 DEF MarkedSlots
<1>5. Cardinality(MarkedSlots(r, d, ix))
        = IF mark /\ d = p.in /\ ix = Index(p.prev) THEN k - 1 ELSE k
  BY <1>3, <1>4, DepartedCount, SlotSets
<1>6. CASE mark /\ d = p.in /\ ix = Index(p.prev)
  <2>1. Cardinality(MarkedSlots(s, d, ix)) # 0
    BY <1>2, <1>4, <1>6, FS_EmptySet
  <2>2. MarkedSlots(s, d, ix) \in SUBSET Positions
    BY SlotSets
  <2>3. Cardinality(MarkedSlots(s, d, ix)) < CounterMod
    BY <2>2, PartFinite
  <2> HIDE DEF k
  <2>4. k \in Nat /\ k < CounterMod /\ 0 < k
    BY <1>2, <2>1, <2>3 DEF k
  <2>5. CounterFits(r, d, ix, k - 1)
    BY <1>1, <1>6, <2>4, FitsDown
  <2>. QED BY <1>5, <1>6, <2>5 DEF k
<1>7. CASE ~ (mark /\ d = p.in /\ ix = Index(p.prev))
  BY <1>1, <1>5, <1>7 DEF CounterFits
<1>. QED BY <1>6, <1>7

-----------------------------------------------------------------------------
(* The invariant of a state record.  PauseSync is the strengthening: a      *)
(* queue in paused_map is one the filter names, and so is, the other way   *)
(* round, a queue with packets.  An empty queue the filter names need not   *)
(* be in paused_map: before the first frame the filter holds what the      *)
(* memory held, and paused_map nothing.                                    *)

PauseSync(s) ==
  \A o \in Dev, q \in DataQ :
    /\ q \in s.paused[o] => Index(q) \in s.received[o]
    /\ s.queue[o][q] # <<>> /\ Index(q) \in s.received[o] => q \in s.paused[o]

SInv(s) == s \in State /\ InStepOf(s) /\ EntryExactOf(s) /\ CounterExactOf(s) /\ PauseSync(s)

WakeAt(s, o) == s.tx[o] = Idle => s.ctl[o] = <<>> /\ ~ CanSendData(s, o)

(* Everything but the control queues and the wires. *)
SameTables(s, r) ==
  /\ r.queue = s.queue       /\ r.heads = s.heads     /\ r.active = s.active
  /\ r.rrlast = s.rrlast     /\ r.paused = s.paused   /\ r.received = s.received
  /\ r.bloom = s.bloom       /\ r.counter = s.counter /\ r.size = s.size
  /\ r.phys = s.phys

(* The types of the fields.                                                *)
LEMMA StateFields ==
  ASSUME NEW s \in State
  PROVE  /\ s.queue \in [Dev -> [DataQ -> Seq(Packet)]]
         /\ s.heads \in [Dev -> [DataQ -> Seq(BOOLEAN)]]
         /\ s.active \in [Dev -> SUBSET DataQ] /\ s.rrlast \in [Dev -> DataQ \cup {0}]
         /\ s.paused \in [Dev -> SUBSET DataQ] /\ s.received \in [Dev -> SUBSET Bloom]
         /\ s.bloom \in [Dev -> SUBSET Bloom] /\ s.counter \in [Dev -> [Bloom -> Int]]
         /\ s.size \in [Vfids -> [Dev -> Int]]
         /\ s.phys \in [Vfids -> [Dev -> DataQ \cup {Unassigned}]]
         /\ s.ctl \in [Dev -> Seq(Control)] /\ s.tx \in [Dev -> Control \cup Data \cup {Idle}]
BY DEF State

(* Everything the counts depend on. *)
SameLoads(s, r) ==
  /\ r.queue = s.queue   /\ r.heads = s.heads     /\ r.active = s.active
  /\ r.bloom = s.bloom   /\ r.counter = s.counter /\ r.size = s.size
  /\ r.phys = s.phys

(* Wires, control queues, round robin and pauses are not what SInv counts. *)
LEMMA InvSameLoads ==
  ASSUME NEW s, SInv(s), NEW r \in State, SameLoads(s, r), PauseSync(r)
  PROVE  SInv(r)
<1>1. \A t : At(r, t) = At(s, t)
  BY DEF SameLoads, At
<1>2. Slots(r) = Slots(s)
  BY DEF SameLoads, Slots
<1>3. \A v, o : EntrySlots(r, v, o) = EntrySlots(s, v, o)
  BY <1>1, <1>2 DEF EntrySlots
<1>4. \A d, ix : MarkedSlots(r, d, ix) = MarkedSlots(s, d, ix)
  <2> SUFFICES ASSUME NEW d, NEW ix
               PROVE  MarkedSlots(r, d, ix) = MarkedSlots(s, d, ix)
    OBVIOUS
  <2>1. r.heads = s.heads
    BY DEF SameLoads
  <2>2. ASSUME NEW t
        PROVE  t \in MarkedSlots(r, d, ix) <=> t \in MarkedSlots(s, d, ix)
    <3>1. /\ t \in MarkedSlots(r, d, ix) <=>
               t \in Slots(r) /\ r.heads[t[1]][t[2]][t[3]] /\ At(r, t).in = d /\ Index(At(r, t).prev) = ix
          /\ t \in MarkedSlots(s, d, ix) <=>
               t \in Slots(s) /\ s.heads[t[1]][t[2]][t[3]] /\ At(s, t).in = d /\ Index(At(s, t).prev) = ix
      BY MarkedMember
    <3>. QED BY <1>1, <1>2, <2>1, <3>1, Zenon
  <2>. QED BY <2>2
<1>5. InStepOf(r)
  BY DEF SInv, SameLoads, InStepOf
<1>6. EntryExactOf(r)
  BY <1>3 DEF SInv, SameLoads, EntryExactOf
<1>7. CounterExactOf(r)
  BY <1>4 DEF SInv, SameLoads, CounterExactOf
<1>. QED BY <1>5, <1>6, <1>7 DEF SInv

(* Control traffic leaves SInv alone.                                      *)
LEMMA InvSame ==
  ASSUME NEW s, SInv(s), NEW r \in State, SameTables(s, r)
  PROVE  SInv(r)
<1>1. SameLoads(s, r)
  BY DEF SameTables, SameLoads
<1>2. PauseSync(r)
  BY DEF SInv, SameTables, PauseSync
<1>. QED BY <1>1, <1>2, InvSameLoads

(* Control frames, data frames and READY are told apart.                   *)
LEMMA DifferentFrames ==
  /\ \A x \in Control : x \notin Data /\ x # Idle
  /\ \A x \in Data : x # Idle
BY IdleAssumption DEF Control, PfcFrame, Transit, Data

(* A control packet f joins those of device d; the oldest one goes on the   *)
(* wire when the device is READY.                                          *)
FrameJoined(s, r, d, f) ==
  IF s.tx[d] = Idle
  THEN r.ctl[d] = Tail(Append(s.ctl[d], f)) /\ r.tx[d] = Head(Append(s.ctl[d], f))
  ELSE r.ctl[d] = Append(s.ctl[d], f) /\ r.tx[d] = s.tx[d]

(* What a control packet on each device of D changes.                      *)
ControlSent(s, D, frame, r) ==
  /\ s \in State /\ D \in SUBSET Dev /\ frame \in [D -> Control]
  /\ r = SendControl(s, D, frame)

ControlOutcome(s, D, frame, r) ==
  /\ r \in State /\ SameTables(s, r)
  /\ \A d \in D : /\ FrameJoined(s, r, d, frame[d])
                  /\ s.tx[d] = Idle => r.tx[d] \in Control
  /\ \A d \in Dev \ D : r.ctl[d] = s.ctl[d] /\ r.tx[d] = s.tx[d]

LEMMA SendControlStep ==
  ASSUME NEW s, NEW D, NEW frame, NEW r, ControlSent(s, D, frame, r)
  PROVE  ControlOutcome(s, D, frame, r)
<1>0. s \in State /\ D \in SUBSET Dev /\ frame \in [D -> Control] /\ r = SendControl(s, D, frame)
  BY DEF ControlSent
<1> DEFINE waiting == [d \in D |-> Append(s.ctl[d], frame[d])]
<1> DEFINE ctl2 == [d \in Dev |-> IF d \in D /\ s.tx[d] = Idle THEN Tail(waiting[d])
                                  ELSE IF d \in D THEN waiting[d] ELSE s.ctl[d]]
<1> DEFINE tx2 == [d \in Dev |-> IF d \in D /\ s.tx[d] = Idle THEN Head(waiting[d]) ELSE s.tx[d]]
<1>1. r = [s EXCEPT !.ctl = ctl2, !.tx = tx2]
  BY <1>0 DEF SendControl
<1>2. \A d \in D : /\ s.ctl[d] \in Seq(Control) /\ frame[d] \in Control
                   /\ waiting[d] = Append(s.ctl[d], frame[d])
  BY <1>0, StateFields
<1>3. \A d \in D : waiting[d] \in Seq(Control) /\ waiting[d] # <<>>
  BY <1>2, AppendProperties
<1>4. \A d \in D : Head(waiting[d]) \in Control /\ Tail(waiting[d]) \in Seq(Control)
  BY <1>3, HeadTailProperties
<1> HIDE DEF waiting
<1>5. ctl2 \in [Dev -> Seq(Control)] /\ tx2 \in [Dev -> Control \cup Data \cup {Idle}]
  BY <1>0, <1>3, <1>4, StateFields
<1>6. SameTables(s, r) /\ r.ctl = ctl2 /\ r.tx = tx2
  <2> HIDE DEF ctl2, tx2
  <2>. QED BY <1>0, <1>1 DEF State, SameTables
<1>7. r \in State
  <2> HIDE DEF ctl2, tx2
  <2>. QED BY <1>0, <1>1, <1>5 DEF State
<1>8. \A d \in Dev \ D : r.ctl[d] = s.ctl[d] /\ r.tx[d] = s.tx[d]
  BY <1>6
<1>9. ASSUME NEW d \in D
      PROVE  FrameJoined(s, r, d, frame[d]) /\ (s.tx[d] = Idle => r.tx[d] \in Control)
  BY <1>0, <1>2, <1>4, <1>6 DEF FrameJoined
<1>. QED BY <1>6, <1>7, <1>8, <1>9 DEF ControlOutcome

(* A resume is the newest control packet of the device, and a device with  *)
(* nothing to send is not put to sleep by one.                             *)
FrameSent(s, r, d) ==
  /\ r \in State /\ SameTables(s, r)
  /\ NewestControl(r.ctl[d], r.tx[d]) = [pause |-> s.bloom[d]]
  /\ [pause |-> s.bloom[d]] \in PfcFrame
  /\ FrameJoined(s, r, d, [pause |-> s.bloom[d]])
  /\ \A o \in Dev \ {d} : r.ctl[o] = s.ctl[o] /\ r.tx[o] = s.tx[o]
  /\ \A o \in Dev : /\ WakeAt(s, o) => WakeAt(r, o)
                    /\ r.tx[o] = s.tx[o] \/ (s.tx[o] = Idle /\ r.tx[o] \in Control)

LEMMA PauseFrameSent ==
  ASSUME NEW s \in State, NEW d \in Dev, NEW r, r = SendPauseFrames(s, {d})
  PROVE  FrameSent(s, r, d)
<1> DEFINE frame == [x \in {d} |-> [pause |-> s.bloom[x]]]
<1>1. [pause |-> s.bloom[d]] \in PfcFrame
  BY StateFields DEF PfcFrame
<1>2. frame \in [{d} -> Control] /\ frame[d] = [pause |-> s.bloom[d]] /\ r = SendControl(s, {d}, frame)
  BY <1>1 DEF Control, SendPauseFrames
<1> HIDE DEF frame
<1>3. /\ r \in State /\ SameTables(s, r)
      /\ FrameJoined(s, r, d, frame[d]) /\ (s.tx[d] = Idle => r.tx[d] \in Control)
      /\ \A o \in Dev \ {d} : r.ctl[o] = s.ctl[o] /\ r.tx[o] = s.tx[o]
  <2> DEFINE D == {d}
  <2>1. frame \in [D -> Control] /\ r = SendControl(s, D, frame) /\ D \in SUBSET Dev /\ d \in D
    BY <1>2
  <2>2. \A o \in Dev \ {d} : o \in Dev \ D
    OBVIOUS
  <2> HIDE DEF D
  <2>3. ControlSent(s, D, frame, r)
    BY <2>1 DEF ControlSent
  <2>4. ControlOutcome(s, D, frame, r)
    BY <2>3, SendControlStep
  <2>. QED BY <2>1, <2>2, <2>4 DEF ControlOutcome
<1>4. s.ctl[d] \in Seq(Control) /\ frame[d] \in Control
  BY <1>1, <1>2, StateFields DEF Control
<1>5. NewestControl(r.ctl[d], r.tx[d]) = frame[d]
  <2>1. CASE s.tx[d] # Idle
    <3>1. r.ctl[d] = Append(s.ctl[d], frame[d])
      BY <1>3, <2>1 DEF FrameJoined
    <3>. QED BY <1>4, <3>1, AppendProperties DEF NewestControl
  <2>2. CASE s.tx[d] = Idle /\ s.ctl[d] = <<>>
    <3>1. r.ctl[d] = <<>> /\ r.tx[d] = frame[d]
      BY <1>3, <1>4, <2>2, HeadTailAppend DEF FrameJoined
    <3>. QED BY <3>1 DEF NewestControl
  <2>3. CASE s.tx[d] = Idle /\ s.ctl[d] # <<>>
    <3>1. r.ctl[d] = Append(Tail(s.ctl[d]), frame[d])
      BY <1>3, <1>4, <2>3, HeadTailAppend DEF FrameJoined
    <3>2. Tail(s.ctl[d]) \in Seq(Control)
      BY <1>4, <2>3, HeadTailProperties
    <3>. QED BY <1>4, <3>1, <3>2, AppendProperties DEF NewestControl
  <2>. QED BY <2>1, <2>2, <2>3
<1>6. ASSUME NEW o \in Dev
      PROVE  /\ WakeAt(s, o) => WakeAt(r, o)
             /\ r.tx[o] = s.tx[o] \/ (s.tx[o] = Idle /\ r.tx[o] \in Control)
  <2>1. CASE o = d
    <3>1. r.tx[d] = s.tx[d] \/ (s.tx[d] = Idle /\ r.tx[d] \in Control)
      BY <1>3 DEF FrameJoined
    <3>2. s.tx[d] # Idle => r.tx[d] # Idle
      BY <3>1
    <3>3. s.tx[d] = Idle => r.tx[d] # Idle
      BY <1>3, DifferentFrames
    <3>. QED BY <2>1, <3>1, <3>2, <3>3 DEF WakeAt
  <2>2. CASE o # d
    BY <1>3, <2>2 DEF WakeAt, CanSendData, SameTables
  <2>. QED BY <2>1, <2>2
<1>. QED BY <1>1, <1>2, <1>3, <1>5, <1>6 DEF FrameSent

(* Update_Paused_PhysicalQ finds the bit as it would set it.               *)
LEMMA RefreshChangesNothing ==
  ASSUME NEW s \in State, NEW o \in Dev, NEW q \in DataQ,
         q \in s.paused[o] <=> Index(q) \in s.received[o]
  PROVE  UpdatePausedPhysicalQ(s, o, q) = s
<1> DEFINE refreshed == IF Index(q) \in s.received[o] THEN s.paused[o] \cup {q} ELSE s.paused[o] \ {q}
<1>1. s.paused[o] = refreshed
  <2>1. CASE Index(q) \in s.received[o]
    BY <2>1
  <2>2. CASE Index(q) \notin s.received[o]
    BY <2>2
  <2>. QED BY <2>1, <2>2
<1>2. [s EXCEPT !.paused[o] = IF Index(q) \in s.received[o] THEN @ \cup {q} ELSE @ \ {q}] = s
  BY <1>1 DEF State
<1>. QED BY <1>2 DEF UpdatePausedPhysicalQ

(* In general it settles whether q is paused, and nothing else.            *)
Refreshed(s, r, o, q) ==
  /\ r \in State
  /\ r.queue = s.queue /\ r.heads = s.heads /\ r.active = s.active
  /\ r.received = s.received /\ r.bloom = s.bloom /\ r.counter = s.counter
  /\ r.size = s.size /\ r.phys = s.phys /\ r.ctl = s.ctl /\ r.tx = s.tx
  /\ \A d \in Dev \ {o} : r.paused[d] = s.paused[d]
  /\ \A e \in DataQ : e \in r.paused[o] <=> IF e = q THEN Index(q) \in s.received[o] ELSE e \in s.paused[o]

LEMMA RefreshFields ==
  ASSUME NEW s \in State, NEW o \in Dev, NEW q \in DataQ
  PROVE  Refreshed(s, UpdatePausedPhysicalQ(s, o, q), o, q)
<1> DEFINE now == IF Index(q) \in s.received[o] THEN s.paused[o] \cup {q} ELSE s.paused[o] \ {q}
<1>1. PICK r : r = UpdatePausedPhysicalQ(s, o, q)
  OBVIOUS
<1>2. now \in SUBSET DataQ
  BY StateFields
<1>3. r = [s EXCEPT !.paused[o] = now]
  BY <1>1 DEF UpdatePausedPhysicalQ
<1>4. \A e \in DataQ : e \in now <=> IF e = q THEN Index(q) \in s.received[o] ELSE e \in s.paused[o]
  OBVIOUS
<1> HIDE DEF now
<1>5. r \in State
  BY <1>2, <1>3 DEF State
<1>6. /\ r.queue = s.queue /\ r.heads = s.heads /\ r.active = s.active
      /\ r.received = s.received /\ r.bloom = s.bloom /\ r.counter = s.counter
      /\ r.size = s.size /\ r.phys = s.phys /\ r.ctl = s.ctl /\ r.tx = s.tx
  BY <1>3 DEF State
<1>7. r.paused = [s.paused EXCEPT ![o] = now]
  BY <1>3 DEF State
<1>8. r.paused[o] = now /\ \A d \in Dev \ {o} : r.paused[d] = s.paused[d]
  BY <1>7, StateFields
<1>. QED BY <1>1, <1>4, <1>5, <1>6, <1>8 DEF Refreshed

-----------------------------------------------------------------------------
(* Transmission of a data packet. *)

Dequeued(s, r, o, q, p) ==
  /\ r \in State /\ Departed(s, r, o, q) /\ p \in Packet
  /\ r.active = [s.active EXCEPT ![o] = IF Tail(s.queue[o][q]) = <<>> THEN @ \ {q} ELSE @]
  /\ r.paused = s.paused /\ r.received = s.received
  /\ r.bloom = s.bloom /\ r.counter = s.counter /\ r.phys = s.phys /\ r.ctl = s.ctl
  /\ \A v \in Vfids, d \in Dev :
       r.size[v][d] = IF v = Vfid[p.flow] /\ d = o THEN s.size[v][d] - 1 ELSE s.size[v][d]
  /\ r.tx = [s.tx EXCEPT ![o] = [flow |-> p.flow, q |-> q]]

(* DequeueData field by field.                                             *)
LEMMA DequeueDataFields ==
  ASSUME NEW s \in State, NEW o \in Dev, NEW q \in DataQ,
         s.queue[o][q] # <<>>, s.heads[o][q] # <<>>,
         NEW p, p = Head(s.queue[o][q]), NEW r, r = DequeueData(s, o, q)
  PROVE  Dequeued(s, r, o, q, p)
<1> DEFINE v0 == Vfid[p.flow]
<1>1. s.queue[o][q] \in Seq(Packet)
  BY StateFields
<1>2. p \in Packet /\ Tail(s.queue[o][q]) \in Seq(Packet)
  BY <1>1, HeadTailProperties
<1>3. v0 \in Vfids /\ [flow |-> p.flow, q |-> q] \in Data
  BY <1>2 DEF Packet, Vfids, Data
<1>4. Tail(s.heads[o][q]) \in Seq(BOOLEAN)
  <2> PICK T : T = BOOLEAN
    OBVIOUS
  <2>1. s.heads[o][q] \in Seq(T)
    BY StateFields
  <2>2. Tail(s.heads[o][q]) \in Seq(T)
    BY <2>1, HeadTailProperties
  <2>. QED BY <2>2
<1>5. r.queue = [s.queue EXCEPT ![o][q] = Tail(s.queue[o][q])]
  BY DEF State, DequeueData
<1>6. r.heads = [s.heads EXCEPT ![o][q] = Tail(s.heads[o][q])]
  BY DEF State, DequeueData
<1>7. r.active = [s.active EXCEPT ![o] = IF Tail(s.queue[o][q]) = <<>> THEN @ \ {q} ELSE @]
      /\ r.rrlast = [s.rrlast EXCEPT ![o] = q]
  BY DEF State, DequeueData
<1>8. r.size = [s.size EXCEPT ![v0][o] = s.size[v0][o] - 1]
  BY DEF State, DequeueData
<1>9. r.tx = [s.tx EXCEPT ![o] = [flow |-> p.flow, q |-> q]]
  BY DEF State, DequeueData
<1>10. /\ r.paused = s.paused /\ r.received = s.received /\ r.bloom = s.bloom
       /\ r.counter = s.counter /\ r.phys = s.phys /\ r.ctl = s.ctl
  BY DEF State, DequeueData
<1> HIDE DEF v0
<1>11. /\ r.queue \in [Dev -> [DataQ -> Seq(Packet)]]
       /\ \A d \in Dev, e \in DataQ :
            r.queue[d][e] = IF d = o /\ e = q THEN Tail(s.queue[o][q]) ELSE s.queue[d][e]
  BY <1>2, <1>5, StateFields, TableUpdate
<1>12. /\ r.heads \in [Dev -> [DataQ -> Seq(BOOLEAN)]]
       /\ \A d \in Dev, e \in DataQ :
            r.heads[d][e] = IF d = o /\ e = q THEN Tail(s.heads[o][q]) ELSE s.heads[d][e]
  <2> PICK T : T = Seq(BOOLEAN)
    OBVIOUS
  <2>1. s.heads \in [Dev -> [DataQ -> T]] /\ Tail(s.heads[o][q]) \in T
    BY <1>4, StateFields
  <2>2. /\ r.heads \in [Dev -> [DataQ -> T]]
        /\ \A d \in Dev, e \in DataQ :
             r.heads[d][e] = IF d = o /\ e = q THEN Tail(s.heads[o][q]) ELSE s.heads[d][e]
    BY <1>6, <2>1, TableUpdate
  <2>. QED BY <2>2
<1>13. /\ r.size \in [Vfids -> [Dev -> Int]]
       /\ \A v \in Vfids, d \in Dev :
            r.size[v][d] = IF v = v0 /\ d = o THEN s.size[v][d] - 1 ELSE s.size[v][d]
  <2>1. s.size[v0][o] - 1 \in Int /\ s.size \in [Vfids -> [Dev -> Int]]
    BY <1>3, StateFields
  <2>2. /\ r.size \in [Vfids -> [Dev -> Int]]
        /\ \A v \in Vfids, d \in Dev :
             r.size[v][d] = IF v = v0 /\ d = o THEN s.size[v0][o] - 1 ELSE s.size[v][d]
    BY <1>3, <1>8, <2>1, TableUpdate
  <2>. QED BY <2>2
<1>14. /\ r.active \in [Dev -> SUBSET DataQ] /\ r.rrlast \in [Dev -> DataQ \cup {0}]
       /\ r.tx \in [Dev -> Control \cup Data \cup {Idle}]
  BY <1>3, <1>7, <1>9, StateFields
<1>15. r \in State
  <2>1. r = [queue |-> r.queue, heads |-> r.heads, active |-> r.active, rrlast |-> r.rrlast,
             paused |-> r.paused, received |-> r.received, bloom |-> r.bloom, counter |-> r.counter,
             size |-> r.size, phys |-> r.phys, ctl |-> r.ctl, tx |-> r.tx]
    BY DEF State, DequeueData
  <2>. QED BY <1>10, <1>11, <1>12, <1>13, <1>14, <2>1, StateFields DEF State
<1>16. Departed(s, r, o, q)
  BY <1>11, <1>12 DEF Departed
<1>. QED BY <1>2, <1>7, <1>9, <1>10, <1>13, <1>15, <1>16 DEF v0, Dequeued

(* What a step may do to the wires: a packet starts only on device o, and  *)
(* only from a queue that is not held back.                                *)
StartsObeyed(s, r, o) ==
  \A d \in Dev : r.tx[d] \in Data =>
    \/ r.tx[d] = s.tx[d] /\ r.queue[d] = s.queue[d]
    \/ d = o /\ Index(r.tx[d].q) \notin r.received[d]

(* A bit that is cleared is announced. *)
ClearsAnnounced(s, r) ==
  \A d \in Dev : \A ix \in s.bloom[d] \ r.bloom[d] :
    LET f == NewestControl(r.ctl[d], r.tx[d]) IN f \in PfcFrame /\ ix \notin f.pause

(* A device's control packets change only by a frame with its filter.      *)
FramesFollow(s, r, e) ==
  \/ r.ctl[e] = s.ctl[e] /\ r.tx[e] = s.tx[e] /\ r.bloom[e] = s.bloom[e]
  \/ FrameJoined(s, r, e, [pause |-> r.bloom[e]]) /\ [pause |-> r.bloom[e]] \in PfcFrame

Resumed(s, r, d, ix) ==
  /\ r \in State
  /\ r.queue = s.queue /\ r.heads = s.heads /\ r.active = s.active /\ r.paused = s.paused
  /\ r.received = s.received /\ r.size = s.size /\ r.phys = s.phys
  /\ \A e \in Dev, i \in Bloom :
       IF e = d /\ i = ix
       THEN /\ r.counter[e][i] = (s.counter[e][i] - 1) % CounterMod
            /\ i \in r.bloom[e] <=> i \in s.bloom[e] /\ s.counter[e][i] # 1
       ELSE r.counter[e][i] = s.counter[e][i] /\ (i \in r.bloom[e] <=> i \in s.bloom[e])
  /\ \A o \in Dev : /\ WakeAt(s, o) => WakeAt(r, o)
                    /\ r.tx[o] = s.tx[o] \/ (s.tx[o] = Idle /\ r.tx[o] \in Control)
  /\ ClearsAnnounced(s, r) /\ \A e \in Dev : FramesFollow(s, r, e)

(* UpdateResumeQueue field by field, the nested Send of the pause frame included.*)
LEMMA ResumeStep ==
  ASSUME NEW s \in State, NEW d \in Dev, NEW ix \in Bloom,
         NEW r, r = UpdateResumeQueue(s, d, ix)
  PROVE  Resumed(s, r, d, ix)
<1> DEFINE last == s.counter[d][ix] = 1
<1> DEFINE bits == IF last THEN s.bloom[d] \ {ix} ELSE s.bloom[d]
<1> DEFINE n == (s.counter[d][ix] - 1) % CounterMod
<1>0. PICK s1 : s1 = [s EXCEPT !.bloom[d] = IF last THEN @ \ {ix} ELSE @,
                               !.counter[d][ix] = (@ - 1) % CounterMod]
  OBVIOUS
<1>1. r = IF last THEN SendPauseFrames(s1, {d}) ELSE s1
  BY <1>0 DEF UpdateResumeQueue
<1>2. CounterMod \in Nat /\ CounterMod > 0
  BY PositionsFinite, SwitchAssumption
<1>3. s.counter[d][ix] \in Int /\ s.bloom[d] \in SUBSET Bloom
  BY StateFields
<1>4. n \in Int /\ bits \in SUBSET Bloom
  BY <1>2, <1>3
<1>5. s1.bloom = [s.bloom EXCEPT ![d] = bits] /\ s1.counter = [s.counter EXCEPT ![d][ix] = n]
  BY <1>0 DEF State
<1>6. /\ s1.queue = s.queue /\ s1.heads = s.heads /\ s1.active = s.active /\ s1.rrlast = s.rrlast
      /\ s1.paused = s.paused /\ s1.received = s.received /\ s1.size = s.size /\ s1.phys = s.phys
      /\ s1.ctl = s.ctl /\ s1.tx = s.tx
      /\ s1 = [queue |-> s1.queue, heads |-> s1.heads, active |-> s1.active, rrlast |-> s1.rrlast,
               paused |-> s1.paused, received |-> s1.received, bloom |-> s1.bloom,
               counter |-> s1.counter, size |-> s1.size, phys |-> s1.phys, ctl |-> s1.ctl, tx |-> s1.tx]
  <2>1. s1.queue = s.queue /\ s1.heads = s.heads /\ s1.active = s.active
    BY <1>0 DEF State
  <2>2. s1.rrlast = s.rrlast /\ s1.paused = s.paused /\ s1.received = s.received
    BY <1>0 DEF State
  <2>3. s1.size = s.size /\ s1.phys = s.phys /\ s1.ctl = s.ctl /\ s1.tx = s.tx
    BY <1>0 DEF State
  <2>4. s1 = [queue |-> s1.queue, heads |-> s1.heads, active |-> s1.active, rrlast |-> s1.rrlast,
              paused |-> s1.paused, received |-> s1.received, bloom |-> s1.bloom,
              counter |-> s1.counter, size |-> s1.size, phys |-> s1.phys, ctl |-> s1.ctl, tx |-> s1.tx]
    BY <1>0 DEF State
  <2>. QED BY <2>1, <2>2, <2>3, <2>4
<1> HIDE DEF n
<1>7. /\ s1.counter \in [Dev -> [Bloom -> Int]]
      /\ \A e \in Dev, i \in Bloom :
           s1.counter[e][i] = IF e = d /\ i = ix THEN n ELSE s.counter[e][i]
  BY <1>4, <1>5, StateFields, TableUpdate
<1>8. /\ s1.bloom \in [Dev -> SUBSET Bloom]
      /\ \A e \in Dev : s1.bloom[e] = IF e = d THEN bits ELSE s.bloom[e]
  BY <1>4, <1>5, StateFields
<1>9. s1 \in State
  BY <1>6, <1>7, <1>8, StateFields DEF State
<1>10. CASE last
  <2>1. r = SendPauseFrames(s1, {d})
    BY <1>1, <1>10
  <2>2. /\ r \in State /\ SameTables(s1, r)
        /\ NewestControl(r.ctl[d], r.tx[d]) = [pause |-> s1.bloom[d]]
        /\ [pause |-> s1.bloom[d]] \in PfcFrame
        /\ FrameJoined(s1, r, d, [pause |-> s1.bloom[d]])
        /\ \A o \in Dev \ {d} : r.ctl[o] = s1.ctl[o] /\ r.tx[o] = s1.tx[o]
        /\ \A o \in Dev : /\ WakeAt(s1, o) => WakeAt(r, o)
                          /\ r.tx[o] = s1.tx[o] \/ (s1.tx[o] = Idle /\ r.tx[o] \in Control)
    <3>1. FrameSent(s1, r, d)
      BY <1>9, <2>1, PauseFrameSent
    <3>. QED BY <3>1 DEF FrameSent
  <2>3. \A o \in Dev : /\ WakeAt(s, o) => WakeAt(r, o)
                       /\ r.tx[o] = s.tx[o] \/ (s.tx[o] = Idle /\ r.tx[o] \in Control)
    BY <1>6, <2>2 DEF WakeAt, CanSendData
  <2>4. ClearsAnnounced(s, r)
    <3> SUFFICES ASSUME NEW e \in Dev, NEW i \in s.bloom[e] \ r.bloom[e]
                 PROVE  LET f == NewestControl(r.ctl[e], r.tx[e]) IN f \in PfcFrame /\ i \notin f.pause
      BY DEF ClearsAnnounced
    <3>1. r.bloom = s1.bloom
      BY <2>2 DEF SameTables
    <3>2. e = d
      BY <1>8, <3>1
    <3>3. i \notin [pause |-> s1.bloom[d]].pause
      BY <3>1, <3>2
    <3>. QED BY <2>2, <3>2, <3>3
  <2>5. /\ r.queue = s.queue /\ r.heads = s.heads /\ r.active = s.active /\ r.paused = s.paused
        /\ r.received = s.received /\ r.size = s.size /\ r.phys = s.phys
        /\ r.counter = s1.counter /\ r.bloom = s1.bloom
    BY <1>6, <2>2 DEF SameTables
  <2>6. \A e \in Dev, i \in Bloom :
          IF e = d /\ i = ix
          THEN /\ r.counter[e][i] = (s.counter[e][i] - 1) % CounterMod
               /\ i \in r.bloom[e] <=> i \in s.bloom[e] /\ s.counter[e][i] # 1
          ELSE r.counter[e][i] = s.counter[e][i] /\ (i \in r.bloom[e] <=> i \in s.bloom[e])
    BY <1>7, <1>8, <1>10, <2>5 DEF n
  <2>7. ASSUME NEW e \in Dev PROVE FramesFollow(s, r, e)
    <3>1. CASE e = d
      BY <3>1, <1>6, <2>2, <2>5 DEF FramesFollow, FrameJoined
    <3>2. CASE e # d
      BY <3>2, <1>6, <1>8, <2>2, <2>5 DEF FramesFollow
    <3>. QED BY <3>1, <3>2
  <2>. QED BY <2>2, <2>3, <2>4, <2>5, <2>6, <2>7 DEF Resumed
<1>11. CASE ~ last
  <2>1. r = s1
    BY <1>1, <1>11
  <2>2. \A o \in Dev : /\ WakeAt(s, o) => WakeAt(r, o)
                       /\ r.tx[o] = s.tx[o] \/ (s.tx[o] = Idle /\ r.tx[o] \in Control)
    BY <1>6, <2>1 DEF WakeAt, CanSendData
  <2>3. ClearsAnnounced(s, r)
    BY <1>8, <1>11, <2>1 DEF ClearsAnnounced
  <2>4. \A e \in Dev, i \in Bloom :
          IF e = d /\ i = ix
          THEN /\ r.counter[e][i] = (s.counter[e][i] - 1) % CounterMod
               /\ i \in r.bloom[e] <=> i \in s.bloom[e] /\ s.counter[e][i] # 1
          ELSE r.counter[e][i] = s.counter[e][i] /\ (i \in r.bloom[e] <=> i \in s.bloom[e])
    BY <1>7, <1>8, <1>11, <2>1 DEF n
  <2>5. \A e \in Dev : FramesFollow(s, r, e)
    BY <1>6, <1>8, <1>11, <2>1 DEF FramesFollow
  <2>. QED BY <1>6, <1>9, <2>1, <2>2, <2>3, <2>4, <2>5 DEF Resumed
<1>. QED BY <1>10, <1>11

(* A departure pops packet and mark, and clears the bit of an emptied queue.*)
LEMMA InStepDeparted ==
  ASSUME NEW s \in State, InStepOf(s), NEW o \in Dev, NEW q \in DataQ,
         s.queue[o][q] # <<>>, NEW r, Departed(s, r, o, q),
         r.active = [s.active EXCEPT ![o] = IF Tail(s.queue[o][q]) = <<>> THEN @ \ {q} ELSE @]
  PROVE  InStepOf(r)
<1> PICK T : T = BOOLEAN
  OBVIOUS
<1> SUFFICES ASSUME NEW d \in Dev, NEW e \in DataQ
             PROVE  /\ Len(r.heads[d][e]) = Len(r.queue[d][e])
                    /\ e \in r.active[d] <=> r.queue[d][e] # <<>>
                    /\ Len(r.queue[d][e]) <= MaxQueue
  BY DEF InStepOf
<1>1. /\ Len(s.heads[d][e]) = Len(s.queue[d][e])
      /\ e \in s.active[d] <=> s.queue[d][e] # <<>>
      /\ Len(s.queue[d][e]) <= MaxQueue
  BY DEF InStepOf
<1>2. s.queue[d][e] \in Seq(Packet) /\ s.heads[d][e] \in Seq(T) /\ s.active[d] \in SUBSET DataQ
  BY StateFields
<1>3. CASE d = o /\ e = q
  <2>1. r.queue[d][e] = Tail(s.queue[d][e]) /\ r.heads[d][e] = Tail(s.heads[d][e])
    BY <1>3 DEF Departed
  <2>2. s.heads[d][e] # <<>>
    BY <1>1, <1>2, <1>3
  <2>3. /\ Len(r.queue[d][e]) = Len(s.queue[d][e]) - 1
        /\ Len(r.heads[d][e]) = Len(s.heads[d][e]) - 1
    BY <1>2, <1>3, <2>1, <2>2, HeadTailProperties
  <2>4. Len(s.queue[d][e]) \in Nat /\ MaxQueue \in Nat
    BY <1>2, SwitchAssumption
  <2>5. e \in r.active[d] <=> r.queue[d][e] # <<>>
    BY <1>1, <1>3, <2>1, StateFields
  <2>. QED BY <1>1, <2>3, <2>4, <2>5
<1>4. CASE ~ (d = o /\ e = q)
  <2>1. r.queue[d][e] = s.queue[d][e] /\ r.heads[d][e] = s.heads[d][e]
    BY <1>4 DEF Departed
  <2>2. e \in r.active[d] <=> e \in s.active[d]
    BY <1>4, StateFields
  <2>. QED BY <1>1, <2>1, <2>2
<1>. QED BY <1>3, <1>4

(* The queue round robin picks may send and holds a packet.                *)
LEMMA NextQueueHolds ==
  ASSUME NEW s, SInv(s), NEW o \in Dev, CanSendData(s, o)
  PROVE  LET q == NextQueue(s, o)
         IN  /\ q \in DataQ /\ q \notin s.paused[o] /\ Index(q) \notin s.received[o]
             /\ s.queue[o][q] # <<>> /\ s.heads[o][q] # <<>>
<1> DEFINE S == s.active[o] \ s.paused[o]
<1>1. s \in State /\ S # {}
  BY DEF SInv, CanSendData
<1>2. S \in SUBSET DataQ /\ s.rrlast[o] \in DataQ \cup {0}
  BY <1>1, StateFields
<1>3. S \in SUBSET Nat /\ s.rrlast[o] \in Nat /\ W \in Nat /\ W > 0
  <2>1. DataQ \in SUBSET Nat /\ W \in Nat /\ W > 0
    BY SwitchAssumption
  <2>2. s.rrlast[o] \in Nat
    <3>1. s.rrlast[o] \in DataQ \/ s.rrlast[o] = 0
      BY <1>2
    <3>2. DataQ \subseteq Nat
      BY SwitchAssumption
    <3>3. 0 \in Nat
      OBVIOUS
    <3>. QED BY <3>1, <3>2, <3>3, Zenon
  <2>3. S \in SUBSET Nat
    <3> HIDE DEF S
    <3>. QED BY <1>2, <2>1
  <2>. QED BY <2>1, <2>2, <2>3
<1> HIDE DEF S
<1>4. NextQueue(s, o) \in S
  <2>1. WordScan(S, s.rrlast[o], W) \in S
    BY <1>1, <1>3, WordScanMember
  <2>. QED BY <2>1 DEF NextQueue, S
<1>5. PICK q : q = NextQueue(s, o)
  OBVIOUS
<1>6. q \in DataQ /\ q \in s.active[o] /\ q \notin s.paused[o]
  BY <1>2, <1>4, <1>5 DEF S
<1>7. Index(q) \notin s.received[o]
  BY <1>6 DEF SInv, PauseSync, InStepOf
<1>8. s.queue[o][q] # <<>> /\ Len(s.heads[o][q]) = Len(s.queue[o][q])
  BY <1>6 DEF SInv, InStepOf
<1>9. s.heads[o][q] # <<>>
  <2>1. s.queue[o][q] \in Seq(Packet)
    BY <1>1, <1>6, StateFields
  <2>. QED BY <1>8, <2>1
<1>. QED BY <1>5, <1>6, <1>7, <1>8, <1>9

(* The packet that leaves device o, and what may happen to other wires.     *)
Leaves(s, r, o) ==
  \E q \in s.active[o] \ s.paused[o] :
    /\ q \in DataQ /\ s.queue[o][q] # <<>> /\ Departed(s, r, o, q) /\ r.phys = s.phys
    /\ r.tx[o] = [flow |-> Head(s.queue[o][q]).flow, q |-> q]
    /\ \A d \in Dev \ {o} : r.tx[d] = s.tx[d] \/ (s.tx[d] = Idle /\ r.tx[d] \in Control)

(* Transmission of a data packet, from the dequeue to the nested resume.   *)
LEMMA TransmitDataStep ==
  ASSUME NEW s, SInv(s), NEW o \in Dev, CanSendData(s, o),
         NEW r, r = TransmitData(s, o)
  PROVE  /\ SInv(r)
         /\ WakeAt(r, o) /\ r.tx[o] # Idle
         /\ \A d \in Dev \ {o} : WakeAt(s, d) => WakeAt(r, d)
         /\ StartsObeyed(s, r, o)
         /\ ClearsAnnounced(s, r)
         /\ Leaves(s, r, o)
<1>1. PICK q : q = NextQueue(s, o)
  OBVIOUS
<1>2. /\ q \in DataQ /\ q \notin s.paused[o] /\ Index(q) \notin s.received[o]
      /\ s.queue[o][q] # <<>> /\ s.heads[o][q] # <<>>
  BY <1>1, NextQueueHolds
<1>3. PICK p : p = Head(s.queue[o][q])
  OBVIOUS
<1>4. PICK s1 : s1 = DequeueData(s, o, q)
  OBVIOUS
<1>5. PICK mark : mark = Head(s.heads[o][q])
  OBVIOUS
<1>6. s \in State /\ InStepOf(s) /\ EntryExactOf(s) /\ CounterExactOf(s) /\ PauseSync(s)
  BY DEF SInv
<1>7. Dequeued(s, s1, o, q, p)
  BY <1>2, <1>3, <1>4, <1>6, DequeueDataFields
<1>8. PauseSync(s1)
  BY <1>2, <1>6, <1>7 DEF PauseSync, Dequeued, Departed
<1>9. UpdatePausedPhysicalQ(s1, o, q) = s1
  BY <1>2, <1>7, RefreshChangesNothing DEF Dequeued
<1>10. r = IF mark THEN UpdateResumeQueue(s1, p.in, Index(p.prev)) ELSE s1
  BY <1>1, <1>3, <1>4, <1>5, <1>9, Zenon DEF TransmitData
<1>11. p.in \in Dev /\ Index(p.prev) \in Bloom
  <2>1. p.in \in Dev /\ p.prev \in Nat
    BY <1>7, SwitchAssumption DEF Packet, Dequeued
  <2>. QED BY <2>1, IndexInBloom
<1>12. [flow |-> p.flow, q |-> q] \in Data
  BY <1>2, <1>7 DEF Data, Packet, Dequeued
<1>13. s1.tx[o] \in Data /\ s1.tx[o].q = q /\ s1.tx[o] # Idle
       /\ \A d \in Dev \ {o} : s1.tx[d] = s.tx[d]
  BY <1>6, <1>7, <1>12, StateFields, DifferentFrames DEF Dequeued
<1>14. \A d \in Dev \ {o} : WakeAt(s, d) => WakeAt(s1, d)
  BY <1>6, <1>7, <1>13, StateFields DEF WakeAt, CanSendData, Dequeued
<1>15. /\ r \in State
       /\ r.queue = s1.queue /\ r.heads = s1.heads /\ r.active = s1.active /\ r.paused = s1.paused
       /\ r.received = s1.received /\ r.size = s1.size /\ r.phys = s1.phys
       /\ \A d \in Dev, ix \in Bloom :
            IF mark /\ d = p.in /\ ix = Index(p.prev)
            THEN /\ r.counter[d][ix] = (s.counter[d][ix] - 1) % CounterMod
                 /\ ix \in r.bloom[d] <=> ix \in s.bloom[d] /\ s.counter[d][ix] # 1
            ELSE /\ r.counter[d][ix] = s.counter[d][ix]
                 /\ ix \in r.bloom[d] <=> ix \in s.bloom[d]
       /\ \A d \in Dev : /\ WakeAt(s1, d) => WakeAt(r, d)
                         /\ r.tx[d] = s1.tx[d] \/ (s1.tx[d] = Idle /\ r.tx[d] \in Control)
       /\ ClearsAnnounced(s, r)
  <2>1. CASE mark
    <3>1. r = UpdateResumeQueue(s1, p.in, Index(p.prev))
      BY <1>10, <2>1
    <3>2. Resumed(s1, r, p.in, Index(p.prev))
      BY <1>7, <1>11, <3>1, ResumeStep DEF Dequeued
    <3>3. ClearsAnnounced(s, r)
      BY <1>7, <3>2 DEF ClearsAnnounced, Dequeued, Resumed
    <3>. QED BY <1>7, <2>1, <3>2, <3>3 DEF Dequeued, Resumed
  <2>2. CASE ~ mark
    <3>1. r = s1
      BY <1>10, <2>2
    <3>2. ClearsAnnounced(s, r)
      BY <1>7, <3>1 DEF ClearsAnnounced, Dequeued
    <3>. QED BY <1>7, <2>2, <3>1, <3>2 DEF Dequeued
  <2>. QED BY <2>1, <2>2
<1>16. Departed(s, r, o, q)
  BY <1>7, <1>15 DEF Departed, Dequeued
<1>17. InStepOf(r)
  BY <1>2, <1>6, <1>7, <1>15, <1>16, InStepDeparted DEF Dequeued
<1>18. EntryExactOf(r)
  BY <1>2, <1>3, <1>6, <1>7, <1>15, <1>16, EntryDeparted DEF Dequeued
<1>19. CounterExactOf(r)
  BY <1>2, <1>3, <1>5, <1>6, <1>15, <1>16, CounterDeparted
<1>20. PauseSync(r)
  BY <1>7, <1>8, <1>15 DEF PauseSync, Dequeued
<1>21. r.tx[o] = s1.tx[o] /\ r.tx[o] # Idle
  BY <1>13, <1>15
<1>22. WakeAt(r, o)
  BY <1>21 DEF WakeAt
<1>23. StartsObeyed(s, r, o)
  <2> SUFFICES ASSUME NEW d \in Dev, r.tx[d] \in Data
               PROVE  \/ r.tx[d] = s.tx[d] /\ r.queue[d] = s.queue[d]
                      \/ d = o /\ Index(r.tx[d].q) \notin r.received[d]
    BY DEF StartsObeyed
  <2>1. CASE d = o
    BY <1>2, <1>7, <1>13, <1>15, <1>21, <2>1 DEF Dequeued
  <2>2. CASE d # o
    <3>1. r.tx[d] = s.tx[d]
      BY <1>13, <1>15, <2>2, DifferentFrames
    <3>2. r.queue[d] = s.queue[d]
      <4>1. r.queue[d] \in [DataQ -> Seq(Packet)] /\ s.queue[d] \in [DataQ -> Seq(Packet)]
        BY <1>6, <1>15, StateFields
      <4>2. \A e \in DataQ : r.queue[d][e] = s.queue[d][e]
        BY <1>16, <2>2 DEF Departed
      <4>. QED BY <4>1, <4>2
    <3>. QED BY <3>1, <3>2
  <2>. QED BY <2>1, <2>2
<1>24. Leaves(s, r, o)
  <2>1. q \in s.active[o] \ s.paused[o]
    BY <1>2, <1>6 DEF InStepOf
  <2>2. r.phys = s.phys
    BY <1>7, <1>15 DEF Dequeued
  <2>3. r.tx[o] = [flow |-> p.flow, q |-> q]
    BY <1>6, <1>7, <1>21, StateFields DEF Dequeued
  <2>4. \A d \in Dev \ {o} : r.tx[d] = s.tx[d] \/ (s.tx[d] = Idle /\ r.tx[d] \in Control)
    BY <1>13, <1>15
  <2>. QED BY <1>2, <1>3, <1>16, <2>1, <2>2, <2>3, <2>4 DEF Leaves
<1>. QED BY <1>14, <1>15, <1>17, <1>18, <1>19, <1>20, <1>21, <1>22, <1>23, <1>24 DEF SInv

Progressed(s, r, o) ==
  /\ SInv(r) /\ NoLostWakeupOf(r)
  /\ StartsObeyed(s, r, o) /\ ClearsAnnounced(s, r)

(* DequeueAndTransmit restores what a handler disturbs on device o only:   *)
(* that o may be READY with something to send.                             *)
LEMMA DequeueAndTransmitStep ==
  ASSUME NEW s, SInv(s), NEW o \in Dev, \A d \in Dev \ {o} : WakeAt(s, d),
         NEW r, r = DequeueAndTransmit(s, o)
  PROVE  Progressed(s, r, o)
<1>1. s \in State
  BY DEF SInv
<1>2. CASE s.tx[o] = Idle /\ s.ctl[o] # <<>>
  <2>1. r = [s EXCEPT !.ctl[o] = Tail(s.ctl[o]), !.tx[o] = Head(s.ctl[o])]
    BY <1>2 DEF DequeueAndTransmit, TransmitControl
  <2>2. Tail(s.ctl[o]) \in Seq(Control) /\ Head(s.ctl[o]) \in Control
    BY <1>1, <1>2, StateFields, HeadTailProperties
  <2>3. r.ctl = [s.ctl EXCEPT ![o] = Tail(s.ctl[o])] /\ r.tx = [s.tx EXCEPT ![o] = Head(s.ctl[o])]
    BY <1>1, <2>1 DEF State
  <2>4. SameTables(s, r)
    BY <1>1, <2>1 DEF State, SameTables
  <2>5. r \in State
    <3>1. r = [queue |-> r.queue, heads |-> r.heads, active |-> r.active, rrlast |-> r.rrlast,
               paused |-> r.paused, received |-> r.received, bloom |-> r.bloom, counter |-> r.counter,
               size |-> r.size, phys |-> r.phys, ctl |-> r.ctl, tx |-> r.tx]
      BY <1>1, <2>1 DEF State
    <3>2. /\ r.ctl \in [Dev -> Seq(Control)]
          /\ r.tx \in [Dev -> Control \cup Data \cup {Idle}]
      BY <1>1, <2>2, <2>3, StateFields
    <3>. QED BY <1>1, <2>4, <3>1, <3>2, StateFields DEF State, SameTables
  <2>6. SInv(r)
    BY <2>4, <2>5, InvSame
  <2>7. r.tx[o] \in Control /\ \A d \in Dev \ {o} : r.tx[d] = s.tx[d] /\ r.ctl[d] = s.ctl[d]
    BY <1>1, <2>2, <2>3, StateFields
  <2>8. NoLostWakeupOf(r)
    BY <2>4, <2>7, DifferentFrames DEF NoLostWakeupOf, WakeAt, CanSendData, SameTables
  <2>9. StartsObeyed(s, r, o) /\ ClearsAnnounced(s, r)
    BY <2>4, <2>7, DifferentFrames DEF StartsObeyed, ClearsAnnounced, SameTables
  <2>. QED BY <2>6, <2>8, <2>9 DEF Progressed
<1>3. CASE s.tx[o] = Idle /\ s.ctl[o] = <<>> /\ CanSendData(s, o)
  <2>1. r = TransmitData(s, o)
    BY <1>3 DEF DequeueAndTransmit
  <2>2. /\ SInv(r)
        /\ WakeAt(r, o) /\ r.tx[o] # Idle
        /\ \A d \in Dev \ {o} : WakeAt(s, d) => WakeAt(r, d)
        /\ StartsObeyed(s, r, o)
        /\ ClearsAnnounced(s, r)
    BY <1>3, <2>1, TransmitDataStep
  <2>3. NoLostWakeupOf(r)
    BY <2>2 DEF NoLostWakeupOf, WakeAt
  <2>. QED BY <2>2, <2>3 DEF Progressed
<1>4. CASE ~ (s.tx[o] = Idle /\ s.ctl[o] # <<>>)
           /\ ~ (s.tx[o] = Idle /\ s.ctl[o] = <<>> /\ CanSendData(s, o))
  <2>1. r = s
    BY <1>4 DEF DequeueAndTransmit
  <2>2. NoLostWakeupOf(r)
    BY <1>4, <2>1 DEF NoLostWakeupOf, WakeAt
  <2>3. StartsObeyed(s, r, o) /\ ClearsAnnounced(s, r)
    BY <2>1 DEF StartsObeyed, ClearsAnnounced
  <2>. QED BY <2>1, <2>2, <2>3 DEF Progressed
<1>. QED BY <1>2, <1>3, <1>4

-----------------------------------------------------------------------------
(* Admission of a data packet. *)

Enqueued(s, r, p, o, q) ==
  /\ r \in State
  /\ r.queue = [s.queue EXCEPT ![o][q] = Append(s.queue[o][q], p)]
  /\ r.active = [s.active EXCEPT ![o] = IF s.queue[o][q] = <<>> THEN @ \cup {q} ELSE @]
  /\ \A v \in Vfids, d \in Dev :
       IF v = Vfid[p.flow] /\ d = o
       THEN r.size[v][d] = s.size[v][d] + 1 /\ r.phys[v][d] = q
       ELSE r.size[v][d] = s.size[v][d] /\ r.phys[v][d] = s.phys[v][d]
  /\ r.heads = s.heads /\ r.paused = s.paused /\ r.received = s.received /\ r.bloom = s.bloom
  /\ r.counter = s.counter /\ r.ctl = s.ctl /\ r.tx = s.tx

(* EnqueueData field by field.                                             *)
LEMMA EnqueueDataFields ==
  ASSUME NEW s \in State, NEW p \in Packet, NEW o \in Dev, NEW q \in DataQ,
         NEW r, r = EnqueueData(s, p, o, q)
  PROVE  Enqueued(s, r, p, o, q)
<1>0. PICK v0 : v0 = Vfid[p.flow]
  OBVIOUS
<1>1. v0 \in Vfids
  BY <1>0 DEF Packet, Vfids
<1>2. Append(s.queue[o][q], p) \in Seq(Packet)
  BY StateFields, AppendProperties
<1>3. r.queue = [s.queue EXCEPT ![o][q] = Append(s.queue[o][q], p)]
  BY DEF State, EnqueueData
<1>4. r.active = [s.active EXCEPT ![o] = IF s.queue[o][q] = <<>> THEN @ \cup {q} ELSE @]
  BY DEF State, EnqueueData
<1>5. r.size = [s.size EXCEPT ![v0][o] = s.size[v0][o] + 1]
  BY <1>0 DEF State, EnqueueData
<1>6. r.phys = [s.phys EXCEPT ![v0][o] = q]
  BY <1>0 DEF State, EnqueueData
<1>7. /\ r.heads = s.heads /\ r.paused = s.paused /\ r.received = s.received
      /\ r.bloom = s.bloom /\ r.counter = s.counter /\ r.ctl = s.ctl /\ r.tx = s.tx
      /\ r.rrlast = s.rrlast
  BY DEF State, EnqueueData
<1>8. r.queue \in [Dev -> [DataQ -> Seq(Packet)]]
  BY <1>2, <1>3, StateFields, TableUpdate
<1>9. r.active \in [Dev -> SUBSET DataQ]
  BY <1>4, StateFields
<1>10. /\ r.size \in [Vfids -> [Dev -> Int]]
       /\ \A v \in Vfids, d \in Dev :
            r.size[v][d] = IF v = v0 /\ d = o THEN s.size[v0][o] + 1 ELSE s.size[v][d]
  <2>1. s.size[v0][o] + 1 \in Int /\ s.size \in [Vfids -> [Dev -> Int]]
    BY <1>1, StateFields
  <2>. QED BY <1>1, <1>5, <2>1, TableUpdate
<1>11. /\ r.phys \in [Vfids -> [Dev -> DataQ \cup {Unassigned}]]
       /\ \A v \in Vfids, d \in Dev :
            r.phys[v][d] = IF v = v0 /\ d = o THEN q ELSE s.phys[v][d]
  <2>1. q \in DataQ \cup {Unassigned} /\ s.phys \in [Vfids -> [Dev -> DataQ \cup {Unassigned}]]
    BY StateFields
  <2>. QED BY <1>1, <1>6, <2>1, TableUpdate
<1>12. r \in State
  <2>1. r = [queue |-> r.queue, heads |-> r.heads, active |-> r.active, rrlast |-> r.rrlast,
             paused |-> r.paused, received |-> r.received, bloom |-> r.bloom, counter |-> r.counter,
             size |-> r.size, phys |-> r.phys, ctl |-> r.ctl, tx |-> r.tx]
    BY DEF State, EnqueueData
  <2>. QED BY <1>7, <1>8, <1>9, <1>10, <1>11, <2>1, StateFields DEF State
<1>. QED BY <1>0, <1>3, <1>4, <1>7, <1>10, <1>11, <1>12 DEF Enqueued

Paused(s, r, d, ix) ==
  /\ r \in State
  /\ \A e \in Dev, i \in Bloom :
       IF e = d /\ i = ix
       THEN /\ r.counter[e][i] = (s.counter[e][i] + 1) % CounterMod
            /\ i \in r.bloom[e] <=> i \in s.bloom[e] \/ s.counter[e][i] = 0
       ELSE r.counter[e][i] = s.counter[e][i] /\ (i \in r.bloom[e] <=> i \in s.bloom[e])
  /\ r.queue = s.queue /\ r.heads = s.heads /\ r.active = s.active /\ r.paused = s.paused
  /\ r.received = s.received /\ r.size = s.size /\ r.phys = s.phys
  /\ r.ctl = s.ctl /\ r.tx = s.tx

(* UpdatePauseQueue field by field.                                        *)
LEMMA UpdatePauseQueueFields ==
  ASSUME NEW s \in State, NEW d \in Dev, NEW ix \in Bloom, NEW r, r = UpdatePauseQueue(s, d, ix)
  PROVE  Paused(s, r, d, ix)
<1>0. PICK n, bits : /\ n = (s.counter[d][ix] + 1) % CounterMod
                     /\ bits = IF s.counter[d][ix] = 0 THEN s.bloom[d] \cup {ix} ELSE s.bloom[d]
  OBVIOUS
<1>1. CounterMod \in Nat /\ CounterMod > 0
  BY PositionsFinite, SwitchAssumption
<1>2. s.counter[d][ix] \in Int /\ s.bloom[d] \in SUBSET Bloom
  BY StateFields
<1>3. n \in Int /\ bits \in SUBSET Bloom
  BY <1>0, <1>1, <1>2
<1>4. r.bloom = [s.bloom EXCEPT ![d] = bits] /\ r.counter = [s.counter EXCEPT ![d][ix] = n]
  BY <1>0 DEF State, UpdatePauseQueue
<1>5. r.queue = s.queue /\ r.heads = s.heads /\ r.active = s.active /\ r.rrlast = s.rrlast
  BY DEF State, UpdatePauseQueue
<1>6. /\ r.paused = s.paused /\ r.received = s.received /\ r.size = s.size /\ r.phys = s.phys
      /\ r.ctl = s.ctl /\ r.tx = s.tx
  BY DEF State, UpdatePauseQueue
<1>7. r = [queue |-> r.queue, heads |-> r.heads, active |-> r.active, rrlast |-> r.rrlast,
           paused |-> r.paused, received |-> r.received, bloom |-> r.bloom, counter |-> r.counter,
           size |-> r.size, phys |-> r.phys, ctl |-> r.ctl, tx |-> r.tx]
  BY DEF State, UpdatePauseQueue
<1>8. /\ r.counter \in [Dev -> [Bloom -> Int]]
      /\ \A e \in Dev, i \in Bloom :
           r.counter[e][i] = IF e = d /\ i = ix THEN n ELSE s.counter[e][i]
  BY <1>3, <1>4, StateFields, TableUpdate
<1>9. /\ r.bloom \in [Dev -> SUBSET Bloom]
      /\ \A e \in Dev : r.bloom[e] = IF e = d THEN bits ELSE s.bloom[e]
  BY <1>3, <1>4, StateFields
<1>10. r \in State
  BY <1>5, <1>6, <1>7, <1>8, <1>9, StateFields DEF State
<1>. QED BY <1>0, <1>5, <1>6, <1>8, <1>9, <1>10 DEF Paused

Pushed(s, r, o, q, mark) == r = [s EXCEPT !.heads[o][q] = Append(@, mark)]

Marked(s, r, o, q, mark) ==
  /\ r \in State
  /\ \A d \in Dev, e \in DataQ :
       r.heads[d][e] = IF d = o /\ e = q THEN Append(s.heads[o][q], mark) ELSE s.heads[d][e]
  /\ r.queue = s.queue /\ r.active = s.active /\ r.paused = s.paused
  /\ r.received = s.received /\ r.bloom = s.bloom /\ r.counter = s.counter
  /\ r.size = s.size /\ r.phys = s.phys /\ r.ctl = s.ctl /\ r.tx = s.tx

(* The push of the mark, field by field.                                   *)
LEMMA MarkPushed ==
  ASSUME NEW s \in State, NEW o \in Dev, NEW q \in DataQ, NEW mark \in BOOLEAN,
         NEW r, Pushed(s, r, o, q, mark)
  PROVE  Marked(s, r, o, q, mark)
<1> PICK T : T = BOOLEAN
  OBVIOUS
<1>1. s.heads \in [Dev -> [DataQ -> Seq(T)]] /\ mark \in T
  BY StateFields
<1>2. r.heads = [s.heads EXCEPT ![o][q] = Append(s.heads[o][q], mark)]
  BY DEF State, Pushed
<1>3. Append(s.heads[o][q], mark) \in Seq(T)
  BY <1>1, AppendProperties
<1>4. /\ r.heads \in [Dev -> [DataQ -> Seq(T)]]
      /\ \A d \in Dev, e \in DataQ :
           r.heads[d][e] = IF d = o /\ e = q THEN Append(s.heads[o][q], mark) ELSE s.heads[d][e]
  <2> PICK L : L = Append(s.heads[o][q], mark)
    OBVIOUS
  <2>1. r.heads = [s.heads EXCEPT ![o][q] = L] /\ L \in Seq(T)
    BY <1>2, <1>3, Zenon
  <2>2. /\ r.heads \in [Dev -> [DataQ -> Seq(T)]]
        /\ \A d \in Dev, e \in DataQ :
             r.heads[d][e] = IF d = o /\ e = q THEN L ELSE s.heads[d][e]
    BY <1>1, <2>1, TableUpdate
  <2>. QED BY <2>2, Zenon
<1>5. /\ r.queue = s.queue /\ r.active = s.active /\ r.rrlast = s.rrlast /\ r.paused = s.paused
      /\ r.received = s.received
  BY DEF State, Pushed
<1>6. /\ r.bloom = s.bloom /\ r.counter = s.counter
      /\ r.size = s.size /\ r.phys = s.phys /\ r.ctl = s.ctl /\ r.tx = s.tx
  BY DEF State, Pushed
<1>7. r = [queue |-> r.queue, heads |-> r.heads, active |-> r.active, rrlast |-> r.rrlast,
           paused |-> r.paused, received |-> r.received, bloom |-> r.bloom, counter |-> r.counter,
           size |-> r.size, phys |-> r.phys, ctl |-> r.ctl, tx |-> r.tx]
  BY DEF State, Pushed
<1>8. r \in State
  BY <1>4, <1>5, <1>6, <1>7, StateFields DEF State
<1>. QED BY <1>4, <1>5, <1>6, <1>8, Zenon DEF Marked

(* An arrival pushes packet and mark, and sets the bit of the queue.       *)
LEMMA InStepJoined ==
  ASSUME NEW s \in State, InStepOf(s), NEW o \in Dev, NEW q \in DataQ,
         Len(s.queue[o][q]) < MaxQueue, NEW p \in Packet, NEW mark \in BOOLEAN,
         NEW r, Queued(s, r, o, q, p, mark),
         r.active = [s.active EXCEPT ![o] = IF s.queue[o][q] = <<>> THEN @ \cup {q} ELSE @]
  PROVE  InStepOf(r)
<1> PICK T : T = BOOLEAN
  OBVIOUS
<1> SUFFICES ASSUME NEW d \in Dev, NEW e \in DataQ
             PROVE  /\ Len(r.heads[d][e]) = Len(r.queue[d][e])
                    /\ e \in r.active[d] <=> r.queue[d][e] # <<>>
                    /\ Len(r.queue[d][e]) <= MaxQueue
  BY DEF InStepOf
<1>1. /\ Len(s.heads[d][e]) = Len(s.queue[d][e])
      /\ e \in s.active[d] <=> s.queue[d][e] # <<>>
      /\ Len(s.queue[d][e]) <= MaxQueue
  BY DEF InStepOf
<1>2. /\ s.queue[d][e] \in Seq(Packet) /\ s.heads[d][e] \in Seq(T) /\ mark \in T
      /\ s.active \in [Dev -> SUBSET DataQ]
  BY StateFields
<1>3. CASE d = o /\ e = q
  <2>1. r.queue[d][e] = Append(s.queue[d][e], p) /\ r.heads[d][e] = Append(s.heads[d][e], mark)
    BY <1>3 DEF Queued
  <2>2. r.queue[d][e] # <<>> /\ Len(r.queue[d][e]) = Len(s.queue[d][e]) + 1
    <3>1. Append(s.queue[d][e], p) # <<>> /\ Len(Append(s.queue[d][e], p)) = Len(s.queue[d][e]) + 1
      BY <1>2, AppendProperties
    <3>. QED BY <2>1, <3>1
  <2>5. Len(r.heads[d][e]) = Len(s.heads[d][e]) + 1
    <3>1. Len(Append(s.heads[d][e], mark)) = Len(s.heads[d][e]) + 1
      <4> PICK x : x = mark
        OBVIOUS
      <4>1. Len(Append(s.heads[d][e], x)) = Len(s.heads[d][e]) + 1
        BY <1>2, AppendProperties
      <4>. QED BY <4>1
    <3>. QED BY <2>1, <3>1, Zenon
  <2>3. e \in r.active[d]
    <3>1. r.active[d] = IF s.queue[o][q] = <<>> THEN s.active[o] \cup {q} ELSE s.active[o]
      BY <1>2, <1>3
    <3>. QED BY <1>1, <1>3, <3>1
  <2>4. Len(s.queue[d][e]) \in Nat /\ MaxQueue \in Nat
    BY <1>2, SwitchAssumption
  <2>6. Len(r.heads[d][e]) = Len(r.queue[d][e])
    BY <1>1, <2>2, <2>5, Zenon
  <2>7. Len(r.queue[d][e]) <= MaxQueue
    BY <1>3, <2>2, <2>4
  <2>. QED BY <2>2, <2>3, <2>6, <2>7
<1>4. CASE ~ (d = o /\ e = q)
  <2>1. r.queue[d][e] = s.queue[d][e] /\ r.heads[d][e] = s.heads[d][e]
    BY <1>4 DEF Queued
  <2>2. e \in r.active[d] <=> e \in s.active[d]
    BY <1>2, <1>4
  <2>. QED BY <1>1, <2>1, <2>2
<1>. QED BY <1>3, <1>4

(* What AdmitData leaves alone. *)
Admitted(s, r, o) ==
  /\ SInv(r)
  /\ r.tx = s.tx /\ r.ctl = s.ctl /\ r.received = s.received
  /\ \A d \in Dev \ {o} : r.active[d] = s.active[d] /\ r.paused[d] = s.paused[d]
  /\ \A d \in Dev : s.bloom[d] \subseteq r.bloom[d]
  /\ \A d \in Dev, e \in DataQ : Len(s.queue[d][e]) <= Len(r.queue[d][e])

(* What it does to the queues and the entries. *)
Enlisted(s, r, p, o, q) ==
  /\ \A d \in Dev, e \in DataQ :
       r.queue[d][e] = IF d = o /\ e = q THEN Append(s.queue[d][e], p) ELSE s.queue[d][e]
  /\ \A v \in Vfids, d \in Dev :
       r.phys[v][d] = IF v = Vfid[p.flow] /\ d = o THEN q ELSE s.phys[v][d]

(* The switch branch of Send up to DequeueAndTransmit keeps SInv.          *)
LEMMA AdmitDataStep ==
  ASSUME NEW s, SInv(s), NEW o \in Dev, NEW q \in DataQ, NEW p \in Packet,
         Len(s.queue[o][q]) < MaxQueue,
         s.size[Vfid[p.flow]][o] > 0 => q = s.phys[Vfid[p.flow]][o],
         NEW r, r = AdmitData(s, p, o, q)
  PROVE  Admitted(s, r, o) /\ Enlisted(s, r, p, o, q)
<1>1. s \in State /\ InStepOf(s) /\ EntryExactOf(s) /\ CounterExactOf(s) /\ PauseSync(s)
  BY DEF SInv
<1>2. PICK s1 : s1 = EnqueueData(s, p, o, q)
  OBVIOUS
<1>3. Enqueued(s, s1, p, o, q)
  BY <1>1, <1>2, EnqueueDataFields
<1>4. PICK mark : mark = (s1.size[Vfid[p.flow]][o] > 1 /\ Overloaded(s1, o, q))
  OBVIOUS
<1>5. mark \in BOOLEAN
  BY <1>4
<1>6. PICK s2 : s2 = IF mark THEN UpdatePauseQueue(s1, p.in, Index(p.prev)) ELSE s1
  OBVIOUS
<1>7. PICK s3 : Pushed(s2, s3, o, q, mark)
  BY DEF Pushed
<1>8. r = UpdatePausedPhysicalQ(s3, o, q)
  BY <1>2, <1>4, <1>6, <1>7 DEF AdmitData, Pushed
<1>9. p.in \in Dev /\ Index(p.prev) \in Bloom
  <2>1. p.in \in Dev /\ p.prev \in Nat
    BY SwitchAssumption DEF Packet
  <2>. QED BY <2>1, IndexInBloom
<1>10. /\ s2 \in State
       /\ \A e \in Dev, i \in Bloom :
            IF mark /\ e = p.in /\ i = Index(p.prev)
            THEN /\ s2.counter[e][i] = (s1.counter[e][i] + 1) % CounterMod
                 /\ i \in s2.bloom[e] <=> i \in s1.bloom[e] \/ s1.counter[e][i] = 0
            ELSE s2.counter[e][i] = s1.counter[e][i] /\ (i \in s2.bloom[e] <=> i \in s1.bloom[e])
       /\ s2.queue = s1.queue /\ s2.heads = s1.heads /\ s2.active = s1.active
       /\ s2.paused = s1.paused /\ s2.received = s1.received /\ s2.size = s1.size
       /\ s2.phys = s1.phys /\ s2.ctl = s1.ctl /\ s2.tx = s1.tx
  <2>1. CASE mark
    <3>1. Paused(s1, s2, p.in, Index(p.prev))
      BY <1>3, <1>6, <1>9, <2>1, UpdatePauseQueueFields DEF Enqueued
    <3>. QED BY <2>1, <3>1 DEF Paused
  <2>2. CASE ~ mark
    BY <1>3, <1>6, <2>2 DEF Enqueued
  <2>. QED BY <1>5, <2>1, <2>2
<1>11. Marked(s2, s3, o, q, mark)
  <2>1. s2 \in State
    BY <1>10
  <2>. QED BY <1>5, <1>7, <2>1, MarkPushed
<1>12. Refreshed(s3, r, o, q)
  BY <1>8, <1>11, RefreshFields DEF Marked
<1>13. /\ r \in State
       /\ r.queue = s3.queue /\ r.heads = s3.heads /\ r.active = s3.active
       /\ r.received = s3.received /\ r.bloom = s3.bloom /\ r.counter = s3.counter
       /\ r.size = s3.size /\ r.phys = s3.phys /\ r.ctl = s3.ctl /\ r.tx = s3.tx
       /\ s3.paused = s.paused /\ s3.received = s.received
  BY <1>3, <1>10, <1>11, <1>12 DEF Refreshed, Marked, Enqueued
<1>14. \A d \in Dev, e \in DataQ :
         r.queue[d][e] = IF d = o /\ e = q THEN Append(s.queue[d][e], p) ELSE s.queue[d][e]
  <2>1. r.queue = s1.queue
    BY <1>10, <1>11, <1>13 DEF Marked
  <2>2. r.queue = [s.queue EXCEPT ![o][q] = Append(s.queue[o][q], p)]
    BY <1>3, <2>1 DEF Enqueued
  <2>3. s.queue \in [Dev -> [DataQ -> Seq(Packet)]] /\ Append(s.queue[o][q], p) \in Seq(Packet)
    BY <1>1, StateFields, AppendProperties
  <2>. QED BY <2>2, <2>3, TableUpdate
<1>15. Queued(s, r, o, q, p, mark)
  BY <1>3, <1>10, <1>11, <1>13, <1>14 DEF Queued, Enqueued, Marked
<1>16. InStepOf(r)
  BY <1>1, <1>3, <1>5, <1>10, <1>11, <1>13, <1>15, InStepJoined DEF Enqueued, Marked
<1>17. \A v \in Vfids, d \in Dev :
         IF v = Vfid[p.flow] /\ d = o
         THEN r.size[v][d] = s.size[v][d] + 1 /\ r.phys[v][d] = q
         ELSE r.size[v][d] = s.size[v][d] /\ r.phys[v][d] = s.phys[v][d]
  BY <1>3, <1>10, <1>11, <1>13 DEF Enqueued, Marked
<1>18. EntryExactOf(r)
  BY <1>1, <1>5, <1>15, <1>17, EntryJoined
<1>19. Enlisted(s, r, p, o, q)
  BY <1>14, <1>17 DEF Enlisted
<1>20. \A d \in Dev, ix \in Bloom :
         IF mark /\ d = p.in /\ ix = Index(p.prev)
         THEN /\ r.counter[d][ix] = (s.counter[d][ix] + 1) % CounterMod
              /\ ix \in r.bloom[d] <=> ix \in s.bloom[d] \/ s.counter[d][ix] = 0
         ELSE /\ r.counter[d][ix] = s.counter[d][ix]
              /\ ix \in r.bloom[d] <=> ix \in s.bloom[d]
  BY <1>3, <1>10, <1>11, <1>13 DEF Enqueued, Marked
<1>21. CounterExactOf(r)
  BY <1>1, <1>5, <1>15, <1>20, CounterJoined
<1>27. PauseSync(r)
  <2> SUFFICES ASSUME NEW d \in Dev, NEW e \in DataQ
               PROVE  /\ e \in r.paused[d] => Index(e) \in r.received[d]
                      /\ r.queue[d][e] # <<>> /\ Index(e) \in r.received[d] => e \in r.paused[d]
    BY DEF PauseSync
  <2>1. /\ e \in s.paused[d] => Index(e) \in s.received[d]
        /\ s.queue[d][e] # <<>> /\ Index(e) \in s.received[d] => e \in s.paused[d]
    BY <1>1 DEF PauseSync
  <2>2. CASE d = o /\ e = q
    BY <1>12, <1>13, <2>2 DEF Refreshed
  <2>3. CASE ~ (d = o /\ e = q)
    <3>1. r.queue[d][e] = s.queue[d][e]
      BY <1>14, <2>3
    <3>2. e \in r.paused[d] <=> e \in s.paused[d]
      BY <1>12, <1>13, <2>3 DEF Refreshed
    <3>. QED BY <1>13, <2>1, <3>1, <3>2
  <2>. QED BY <2>2, <2>3
<1>22. SInv(r)
  BY <1>13, <1>16, <1>18, <1>21, <1>27 DEF SInv
<1>23. r.tx = s.tx /\ r.ctl = s.ctl /\ r.received = s.received
  BY <1>3, <1>10, <1>11, <1>13 DEF Enqueued, Marked
<1>24. \A d \in Dev \ {o} : r.active[d] = s.active[d] /\ r.paused[d] = s.paused[d]
  BY <1>1, <1>3, <1>10, <1>11, <1>12, <1>13, StateFields DEF Enqueued, Marked, Refreshed
<1>25. \A d \in Dev : s.bloom[d] \subseteq r.bloom[d]
  BY <1>1, <1>20, StateFields
<1>26. \A d \in Dev, e \in DataQ : Len(s.queue[d][e]) <= Len(r.queue[d][e])
  <2>1. \A d \in Dev, e \in DataQ : s.queue[d][e] \in Seq(Packet)
    BY <1>1, StateFields
  <2>2. Len(Append(s.queue[o][q], p)) = Len(s.queue[o][q]) + 1 /\ Len(s.queue[o][q]) \in Nat
    BY <2>1, AppendProperties
  <2>3. \A d \in Dev, e \in DataQ : Len(s.queue[d][e]) \in Nat
    BY <2>1
  <2> SUFFICES ASSUME NEW d \in Dev, NEW e \in DataQ
               PROVE  Len(s.queue[d][e]) <= Len(r.queue[d][e])
    OBVIOUS
  <2>4. CASE d = o /\ e = q
    <3>1. r.queue[o][q] = Append(s.queue[o][q], p)
      BY <1>14
    <3>. QED BY <2>2, <2>4, <3>1
  <2>5. CASE ~ (d = o /\ e = q)
    <3>1. r.queue[d][e] = s.queue[d][e]
      BY <1>14, <2>5
    <3>. QED BY <2>3, <3>1
  <2>. QED BY <2>4, <2>5
<1>. QED BY <1>22, <1>23, <1>24, <1>25, <1>26, <1>19 DEF Admitted

(* The queue GetCentralArrayIndex returns is the entry's own as long as    *)
(* the entry has packets.                                                  *)
LEMMA PlacementKept ==
  ASSUME NEW s, SInv(s), NEW v \in Vfids, NEW o \in Dev, NEW q \in Placements(s, v, o)
  PROVE  q \in DataQ /\ (s.size[v][o] > 0 => q = s.phys[v][o])
<1>1. /\ s \in State
      /\ s.size[v][o] = Cardinality(EntrySlots(s, v, o))
      /\ \A t \in EntrySlots(s, v, o) : t[2] = s.phys[v][o]
  BY DEF SInv, EntryExactOf
<1>2. CASE s.size[v][o] > 0
  <2>1. EntrySlots(s, v, o) # {}
    BY <1>1, <1>2, FS_EmptySet
  <2>2. PICK t \in EntrySlots(s, v, o) : TRUE
    BY <2>1
  <2>3. t[2] \in DataQ
    BY <2>2 DEF EntrySlots, Slots
  <2>4. q = s.phys[v][o]
    BY <1>2 DEF Placements
  <2>. QED BY <1>1, <2>2, <2>3, <2>4
<1>3. CASE ~ (s.size[v][o] > 0)
  <2>1. AssignChoices(s, o) \subseteq DataQ
    BY DEF AssignChoices
  <2>2. s.phys[v][o] \in DataQ \cup {Unassigned}
    BY <1>1, StateFields
  <2>. QED BY <1>3, <2>1, <2>2 DEF Placements
<1>. QED BY <1>2, <1>3

-----------------------------------------------------------------------------
(* What every step of the switch does. *)

PausesObeyed(s, r) ==
  \A d \in Dev, q \in DataQ :
    /\ r.tx[d] \in Data /\ r.tx[d].q = q
    /\ s.tx[d] = Idle \/ Len(r.queue[d][q]) < Len(s.queue[d][q])
    => Index(q) \notin r.received[d]

Good(s, r) ==
  SInv(r) /\ NoLostWakeupOf(r) /\ PausesObeyed(s, r) /\ ClearsAnnounced(s, r)

(* A handler that ends in DequeueAndTransmit: m is the state before the    *)
(* attempt.                                                                *)
LEMMA HandlerGood ==
  ASSUME NEW s \in State, NEW m, SInv(m), NEW o \in Dev, \A d \in Dev \ {o} : WakeAt(m, d),
         \A d \in Dev : m.tx[d] = s.tx[d] \/ m.tx[d] = Idle,
         \A d \in Dev : s.bloom[d] \subseteq m.bloom[d],
         \A d \in Dev, q \in DataQ : Len(s.queue[d][q]) <= Len(m.queue[d][q]),
         NEW r, r = DequeueAndTransmit(m, o)
  PROVE  Good(s, r)
<1>1. SInv(r) /\ NoLostWakeupOf(r) /\ StartsObeyed(m, r, o) /\ ClearsAnnounced(m, r)
  BY DequeueAndTransmitStep DEF Progressed
<1>2. ClearsAnnounced(s, r)
  BY <1>1 DEF ClearsAnnounced
<1>3. PausesObeyed(s, r)
  <2> SUFFICES ASSUME NEW d \in Dev, NEW q \in DataQ, r.tx[d] \in Data, r.tx[d].q = q,
                      s.tx[d] = Idle \/ Len(r.queue[d][q]) < Len(s.queue[d][q])
               PROVE  Index(q) \notin r.received[d]
    BY DEF PausesObeyed
  <2>1. CASE r.tx[d] = m.tx[d] /\ r.queue[d] = m.queue[d]
    <3>1. s.tx[d] # Idle
      BY <2>1, DifferentFrames
    <3>2. Len(s.queue[d][q]) <= Len(r.queue[d][q])
      BY <2>1
    <3>3. s.queue[d][q] \in Seq(Packet) /\ r.queue[d][q] \in Seq(Packet)
      BY <1>1, StateFields DEF SInv
    <3>4. Len(s.queue[d][q]) \in Nat /\ Len(r.queue[d][q]) \in Nat
      BY <3>3
    <3>5. ~ (Len(r.queue[d][q]) < Len(s.queue[d][q]))
      BY <3>2, <3>4
    <3>. QED BY <3>1, <3>5, Zenon
  <2>2. CASE d = o /\ Index(r.tx[d].q) \notin r.received[d]
    BY <2>2
  <2>. QED BY <1>1, <2>1, <2>2 DEF StartsObeyed
<1>. QED BY <1>1, <1>2, <1>3 DEF Good

(* A handler that only sends control packets. *)
LEMMA ControlGood ==
  ASSUME NEW s, SInv(s), NoLostWakeupOf(s), NEW D \in SUBSET Dev, NEW frame \in [D -> Control],
         NEW r, r = SendControl(s, D, frame)
  PROVE  Good(s, r)
<1>1. s \in State
  BY DEF SInv
<1>2. /\ r \in State /\ SameTables(s, r)
      /\ \A d \in Dev : /\ r.tx[d] = Idle => s.tx[d] = Idle /\ d \notin D /\ r.ctl[d] = s.ctl[d]
                        /\ r.tx[d] \in Data => r.tx[d] = s.tx[d]
  <2>1. ControlSent(s, D, frame, r)
    BY <1>1 DEF ControlSent
  <2>2. ControlOutcome(s, D, frame, r)
    BY <2>1, SendControlStep
  <2>3. \A d \in D : s.tx[d] = Idle => r.tx[d] # Idle /\ r.tx[d] \notin Data
    BY <2>2, DifferentFrames DEF ControlOutcome
  <2>4. \A d \in D : s.tx[d] # Idle => r.tx[d] = s.tx[d]
    BY <2>2 DEF ControlOutcome, FrameJoined
  <2>5. \A d \in Dev \ D : r.ctl[d] = s.ctl[d] /\ r.tx[d] = s.tx[d]
    BY <2>2 DEF ControlOutcome
  <2>6. r \in State /\ SameTables(s, r)
    BY <2>2 DEF ControlOutcome
  <2>. QED BY <2>3, <2>4, <2>5, <2>6
<1>3. SInv(r)
  BY <1>2, InvSame
<1>4. NoLostWakeupOf(r)
  BY <1>2 DEF NoLostWakeupOf, CanSendData, SameTables
<1>5. PausesObeyed(s, r)
  <2> SUFFICES ASSUME NEW d \in Dev, NEW q \in DataQ, r.tx[d] \in Data,
                      s.tx[d] = Idle \/ Len(r.queue[d][q]) < Len(s.queue[d][q])
               PROVE  FALSE
    BY DEF PausesObeyed
  <2>1. s.tx[d] # Idle /\ r.queue = s.queue
    BY <1>2, DifferentFrames DEF SameTables
  <2>2. s.queue[d][q] \in Seq(Packet)
    BY <1>1, StateFields
  <2>. QED BY <2>1, <2>2
<1>6. ClearsAnnounced(s, r)
  BY <1>2 DEF ClearsAnnounced, SameTables
<1>. QED BY <1>3, <1>4, <1>5, <1>6 DEF Good

-----------------------------------------------------------------------------
(* The actions. *)

IInv == SInv(Now) /\ NoLostWakeupOf(Now)

(* Become names the next state.                                            *)
LEMMA Becomes ==
  ASSUME NEW s \in State, Become(s)
  PROVE  Now' = s
<1>1. s = [queue |-> s.queue, heads |-> s.heads, active |-> s.active, rrlast |-> s.rrlast,
           paused |-> s.paused, received |-> s.received, bloom |-> s.bloom, counter |-> s.counter,
           size |-> s.size, phys |-> s.phys, ctl |-> s.ctl, tx |-> s.tx]
  BY DEF State
<1>2. Now' = [queue |-> s.queue, heads |-> s.heads, active |-> s.active, rrlast |-> s.rrlast,
              paused |-> s.paused, received |-> s.received, bloom |-> s.bloom, counter |-> s.counter,
              size |-> s.size, phys |-> s.phys, ctl |-> s.ctl, tx |-> s.tx]
  BY DEF Become, Now
<1>. QED BY <1>1, <1>2

(* One lemma for each disjunct of Next.                                    *)
LEMMA ReceiveDataGood ==
  ASSUME IInv, NEW p \in Packet, ReceiveData(p)
  PROVE  Good(Now, Now')
<1>1. PICK s : s = Now
  OBVIOUS
<1>2. PICK o : o = Route[p.flow][p.in]
  OBVIOUS
<1>3. p \in Packet /\ o \in Dev /\ Vfid[p.flow] \in Vfids
  BY <1>2, SwitchAssumption DEF Packet, Vfids
<1>4. PICK q \in Placements(s, Vfid[p.flow], o) :
        Len(s.queue[o][q]) < MaxQueue /\ Become(SendData(s, p, o, q))
  <2>1. s.queue = queue
    BY <1>1 DEF Now
  <2>2. PICK q \in Placements(Now, Vfid[p.flow], o) :
          Len(queue[o][q]) < MaxQueue /\ Become(SendData(Now, p, o, q))
    BY <1>2, Zenon DEF ReceiveData
  <2>. QED BY <1>1, <2>1, <2>2
<1>5. PICK m : m = AdmitData(s, p, o, q)
  OBVIOUS
<1>6. PICK r : r = DequeueAndTransmit(m, o)
  OBVIOUS
<1>7. SInv(s) /\ NoLostWakeupOf(s) /\ s \in State
  BY <1>1 DEF IInv, SInv
<1>8. q \in DataQ /\ (s.size[Vfid[p.flow]][o] > 0 => q = s.phys[Vfid[p.flow]][o])
  BY <1>3, <1>4, <1>7, PlacementKept
<1>9. Admitted(s, m, o)
  BY <1>3, <1>4, <1>5, <1>7, <1>8, AdmitDataStep
<1>10. \A d \in Dev \ {o} : WakeAt(m, d)
  BY <1>7, <1>9 DEF Admitted, WakeAt, NoLostWakeupOf, CanSendData
<1>11. Good(s, r)
  BY <1>3, <1>6, <1>7, <1>9, <1>10, HandlerGood DEF Admitted
<1>12. Now' = r
  BY <1>4, <1>5, <1>6, <1>11, Becomes DEF SendData, Good, SInv
<1>. QED BY <1>1, <1>11, <1>12

(* A pause frame replaces the filter and paused_map together.              *)
PfcTaken(s, m, d, bits) == m = [s EXCEPT !.received[d] = bits, !.paused[d] = PausedBy(bits)]

PfcOutcome(s, m, d, bits) ==
  /\ SInv(m) /\ SameLoads(s, m) /\ m.ctl = s.ctl /\ m.tx = s.tx
  /\ \A o \in Dev : m.received[o] = IF o = d THEN bits ELSE s.received[o]
  /\ \A o \in Dev \ {d} : m.paused[o] = s.paused[o]

LEMMA PfcTakenStep ==
  ASSUME NEW s, SInv(s), NEW d \in Dev, NEW bits \in SUBSET Bloom, NEW m, PfcTaken(s, m, d, bits)
  PROVE  PfcOutcome(s, m, d, bits)
<1>1. m = [s EXCEPT !.received[d] = bits, !.paused[d] = PausedBy(bits)]
  BY DEF PfcTaken
<1>2. s \in State /\ PauseSync(s)
  BY DEF SInv
<1>3. PausedBy(bits) \in SUBSET DataQ /\ \A q \in DataQ : q \in PausedBy(bits) <=> Index(q) \in bits
  BY DEF PausedBy
<1>4. /\ m.received = [s.received EXCEPT ![d] = bits]
      /\ m.paused = [s.paused EXCEPT ![d] = PausedBy(bits)]
  BY <1>1, <1>2 DEF State
<1>5. SameLoads(s, m) /\ m.rrlast = s.rrlast /\ m.ctl = s.ctl /\ m.tx = s.tx
  BY <1>1, <1>2 DEF State, SameLoads
<1>6. m \in State
  <2>1. m = [queue |-> m.queue, heads |-> m.heads, active |-> m.active, rrlast |-> m.rrlast,
             paused |-> m.paused, received |-> m.received, bloom |-> m.bloom, counter |-> m.counter,
             size |-> m.size, phys |-> m.phys, ctl |-> m.ctl, tx |-> m.tx]
    BY <1>1, <1>2 DEF State
  <2>2. m.received \in [Dev -> SUBSET Bloom] /\ m.paused \in [Dev -> SUBSET DataQ]
    BY <1>2, <1>3, <1>4, StateFields
  <2>. QED BY <1>2, <1>5, <2>1, <2>2, StateFields DEF State, SameLoads
<1>7. \A o \in Dev : /\ m.paused[o] = IF o = d THEN PausedBy(bits) ELSE s.paused[o]
                     /\ m.received[o] = IF o = d THEN bits ELSE s.received[o]
  BY <1>2, <1>4, StateFields
<1>8. PauseSync(m)
  BY <1>2, <1>3, <1>5, <1>7 DEF PauseSync, SameLoads
<1>9. SInv(m)
  BY <1>2, <1>5, <1>6, <1>8, InvSameLoads
<1>. QED BY <1>5, <1>7, <1>9 DEF PfcOutcome

LEMMA ReceivePfcGood ==
  ASSUME IInv, NEW d \in Dev, NEW bits \in SUBSET Bloom, ReceivePfc(d, bits)
  PROVE  Good(Now, Now')
<1>1. PICK s : s = Now
  OBVIOUS
<1>2. PICK m : PfcTaken(s, m, d, bits)
  BY DEF PfcTaken
<1>3. PICK r : r = DequeueAndTransmit(m, d)
  OBVIOUS
<1>4. SInv(s) /\ NoLostWakeupOf(s) /\ s \in State
  BY <1>1 DEF IInv, SInv
<1>5. /\ SInv(m) /\ SameLoads(s, m) /\ m.ctl = s.ctl /\ m.tx = s.tx
      /\ \A o \in Dev \ {d} : m.paused[o] = s.paused[o]
  <2>1. PfcOutcome(s, m, d, bits)
    BY <1>2, <1>4, PfcTakenStep
  <2>. QED BY <2>1 DEF PfcOutcome
<1>6. \A o \in Dev \ {d} : WakeAt(m, o)
  BY <1>4, <1>5 DEF WakeAt, NoLostWakeupOf, CanSendData, SameLoads
<1>7. \A o \in Dev, q \in DataQ : Len(s.queue[o][q]) <= Len(m.queue[o][q])
  <2>1. \A o \in Dev, q \in DataQ : s.queue[o][q] \in Seq(Packet)
    BY <1>4, StateFields
  <2>2. \A o \in Dev, q \in DataQ : Len(s.queue[o][q]) \in Nat
    BY <2>1
  <2>. QED BY <1>5, <2>2 DEF SameLoads
<1>8. Good(s, r)
  BY <1>3, <1>4, <1>5, <1>6, <1>7, HandlerGood DEF SameLoads
<1>9. Become(r)
  BY <1>1, <1>2, <1>3 DEF ReceivePfc, PfcTaken
<1>10. Now' = r
  BY <1>8, <1>9, Becomes DEF Good, SInv
<1>. QED BY <1>1, <1>8, <1>10

(* A transit packet is control traffic.                                    *)
LEMMA ForwardControlGood ==
  ASSUME IInv, NEW o \in AckOut, ForwardControl(o)
  PROVE  Good(Now, Now')
<1> DEFINE frame == [d \in {o} |-> [ack |-> "ack"]]
<1>1. PICK s : s = Now
  OBVIOUS
<1>2. PICK r : r = SendControl(s, {o}, frame)
  OBVIOUS
<1>3. {o} \in SUBSET Dev /\ frame \in [{o} -> Control]
  BY EnvironmentAssumption DEF Control, Transit
<1>4. Become(r)
  BY <1>1, <1>2 DEF ForwardControl
<1> HIDE DEF frame
<1>5. Good(s, r)
  BY <1>1, <1>2, <1>3, ControlGood DEF IInv
<1>. QED BY <1>1, <1>4, <1>5, Becomes DEF Good, SInv

(* So is the periodic pause frame of every device of a switch.             *)
LEMMA CheckAndSendPauseGood ==
  ASSUME IInv, NEW n, CheckAndSendPause(n)
  PROVE  Good(Now, Now')
<1> DEFINE D == {d \in Dev : Node[d] = n}
<1>1. PICK s : s = Now
  OBVIOUS
<1>2. PICK frame : frame = [d \in D |-> [pause |-> s.bloom[d]]]
  OBVIOUS
<1>3. PICK r : r = SendControl(s, D, frame)
  OBVIOUS
<1>4. SInv(s) /\ NoLostWakeupOf(s) /\ s \in State
  BY <1>1 DEF IInv, SInv
<1>5. D \in SUBSET Dev /\ frame \in [D -> Control]
  <2>1. \A d \in Dev : [pause |-> s.bloom[d]] \in Control
    BY <1>4, StateFields DEF Control, PfcFrame
  <2>. QED BY <1>2, <2>1
<1>6. Become(r)
  BY <1>1, <1>2, <1>3 DEF CheckAndSendPause, SendPauseFrames
<1> HIDE DEF D
<1>7. Good(s, r)
  BY <1>3, <1>4, <1>5, ControlGood
<1>. QED BY <1>1, <1>6, <1>7, Becomes DEF Good, SInv

(* The end of a transmission wakes the device.                             *)
WireFreed(s, m, o) == m = [s EXCEPT !.tx[o] = Idle]

LEMMA WireFreedStep ==
  ASSUME NEW s, SInv(s), NEW o \in Dev, NEW m, WireFreed(s, m, o)
  PROVE  /\ SInv(m) /\ SameTables(s, m) /\ m.ctl = s.ctl
         /\ \A d \in Dev : m.tx[d] = IF d = o THEN Idle ELSE s.tx[d]
<1>1. m = [s EXCEPT !.tx[o] = Idle]
  BY DEF WireFreed
<1>2. s \in State
  BY DEF SInv
<1>3. m.tx = [s.tx EXCEPT ![o] = Idle]
  BY <1>1, <1>2 DEF State
<1>4. SameTables(s, m) /\ m.ctl = s.ctl
  BY <1>1, <1>2 DEF State, SameTables
<1>5. m \in State
  <2>1. m = [queue |-> m.queue, heads |-> m.heads, active |-> m.active, rrlast |-> m.rrlast,
             paused |-> m.paused, received |-> m.received, bloom |-> m.bloom, counter |-> m.counter,
             size |-> m.size, phys |-> m.phys, ctl |-> m.ctl, tx |-> m.tx]
    BY <1>1, <1>2 DEF State
  <2>2. m.tx \in [Dev -> Control \cup Data \cup {Idle}]
    BY <1>2, <1>3, StateFields
  <2>. QED BY <1>2, <1>4, <2>1, <2>2, StateFields DEF State, SameTables
<1>6. SInv(m)
  BY <1>2, <1>4, <1>5, InvSame
<1>7. \A d \in Dev : m.tx[d] = IF d = o THEN Idle ELSE s.tx[d]
  BY <1>2, <1>3, StateFields
<1>. QED BY <1>4, <1>6, <1>7

LEMMA TransmitCompleteGood ==
  ASSUME IInv, NEW o \in Dev, TransmitComplete(o)
  PROVE  Good(Now, Now')
<1>1. PICK s : s = Now
  OBVIOUS
<1>2. PICK m : WireFreed(s, m, o)
  BY DEF WireFreed
<1>3. PICK r : r = DequeueAndTransmit(m, o)
  OBVIOUS
<1>4. SInv(s) /\ NoLostWakeupOf(s) /\ s \in State
  BY <1>1 DEF IInv, SInv
<1>5. /\ SInv(m) /\ SameTables(s, m) /\ m.ctl = s.ctl
      /\ \A d \in Dev : m.tx[d] = IF d = o THEN Idle ELSE s.tx[d]
  BY <1>2, <1>4, WireFreedStep
<1>6. \A d \in Dev \ {o} : WakeAt(m, d)
  BY <1>4, <1>5 DEF WakeAt, NoLostWakeupOf, CanSendData, SameTables
<1>7. \A d \in Dev, q \in DataQ : Len(s.queue[d][q]) <= Len(m.queue[d][q])
  <2>1. \A d \in Dev, q \in DataQ : s.queue[d][q] \in Seq(Packet)
    BY <1>4, StateFields
  <2>2. \A d \in Dev, q \in DataQ : Len(s.queue[d][q]) \in Nat
    BY <2>1
  <2>. QED BY <1>5, <2>2 DEF SameTables
<1>8. Good(s, r)
  BY <1>3, <1>4, <1>5, <1>6, <1>7, HandlerGood DEF SameTables
<1>9. Become(r)
  BY <1>1, <1>2, <1>3 DEF TransmitComplete, WireFreed
<1>. QED BY <1>1, <1>8, <1>9, Becomes DEF Good, SInv

(* The poll finds the device as the last handler left it.                  *)
LEMMA PollGood ==
  ASSUME IInv, NEW o \in Dev, Poll(o)
  PROVE  Good(Now, Now')
<1>1. PICK s : s = Now
  OBVIOUS
<1>2. PICK r : r = DequeueAndTransmit(s, o)
  OBVIOUS
<1>3. SInv(s) /\ NoLostWakeupOf(s) /\ s \in State
  BY <1>1 DEF IInv, SInv
<1>4. \A d \in Dev, q \in DataQ : Len(s.queue[d][q]) <= Len(s.queue[d][q])
  <2>1. \A d \in Dev, q \in DataQ : s.queue[d][q] \in Seq(Packet)
    BY <1>3, StateFields
  <2>2. \A d \in Dev, q \in DataQ : Len(s.queue[d][q]) \in Nat
    BY <2>1
  <2>. QED BY <2>2
<1>5. Good(s, r)
  BY <1>2, <1>3, <1>4, HandlerGood DEF NoLostWakeupOf, WakeAt
<1>6. Become(r)
  BY <1>1, <1>2 DEF Poll
<1>. QED BY <1>1, <1>5, <1>6, Becomes DEF Good, SInv

(* Every step is good.                                                     *)
LEMMA NextGood ==
  ASSUME IInv, Next
  PROVE  Good(Now, Now')
<1>1. CASE \E p \in Offered : ReceiveData(p)
  BY <1>1, EnvironmentAssumption, ReceiveDataGood
<1>2. CASE \E d \in PfcFrom, bits \in SUBSET Bloom : ReceivePfc(d, bits)
  BY <1>2, EnvironmentAssumption, ReceivePfcGood
<1>3. CASE \E o \in AckOut : ForwardControl(o)
  BY <1>3, ForwardControlGood
<1>4. CASE \E o \in Dev : TransmitComplete(o) \/ Poll(o)
  BY <1>4, TransmitCompleteGood, PollGood
<1>5. CASE \E n \in {Node[d] : d \in Dev} : CheckAndSendPause(n)
  BY <1>5, CheckAndSendPauseGood
<1>. QED BY <1>1, <1>2, <1>3, <1>4, <1>5 DEF Next

(* The initial state satisfies the inductive invariant.                    *)
LEMMA InitIInv == Init => IInv
<1> SUFFICES ASSUME Init PROVE IInv
  OBVIOUS
<1>1. PICK s : s = Now
  OBVIOUS
<1>2. /\ s.queue = [o \in Dev |-> [q \in DataQ |-> <<>>]]
      /\ s.heads = [o \in Dev |-> [q \in DataQ |-> <<>>]]
      /\ s.active = [o \in Dev |-> {}] /\ s.rrlast = [o \in Dev |-> 0]
      /\ s.paused = [o \in Dev |-> {}] /\ s.received = Received0
      /\ s.bloom = Bloom0 /\ s.counter = Counter0
      /\ s.size = [v \in Vfids |-> [o \in Dev |-> 0]]
      /\ s.phys = [v \in Vfids |-> [o \in Dev |-> Unassigned]]
      /\ s.ctl = [o \in Dev |-> <<>>] /\ s.tx = [o \in Dev |-> Idle]
      /\ s = [queue |-> s.queue, heads |-> s.heads, active |-> s.active, rrlast |-> s.rrlast,
              paused |-> s.paused, received |-> s.received, bloom |-> s.bloom,
              counter |-> s.counter, size |-> s.size, phys |-> s.phys, ctl |-> s.ctl, tx |-> s.tx]
  BY <1>1 DEF Init, DeviceInit, TableInit, Now
<1>3. s \in State
  <2>1. s.queue \in [Dev -> [DataQ -> Seq(Packet)]]
    BY <1>2
  <2>2. s.heads \in [Dev -> [DataQ -> Seq(BOOLEAN)]]
    <3> PICK T : T = BOOLEAN
      OBVIOUS
    <3>1. <<>> \in Seq(T)
      OBVIOUS
    <3>2. s.heads \in [Dev -> [DataQ -> Seq(T)]]
      BY <1>2, <3>1
    <3>. QED BY <3>2
  <2>3. /\ s.active \in [Dev -> SUBSET DataQ] /\ s.rrlast \in [Dev -> DataQ \cup {0}]
        /\ s.paused \in [Dev -> SUBSET DataQ] /\ s.received \in [Dev -> SUBSET Bloom]
        /\ s.bloom \in [Dev -> SUBSET Bloom]
    BY <1>2, MemoryAssumption
  <2>6. s.counter \in [Dev -> [Bloom -> Int]]
    <3>1. \A d \in Dev, ix \in Bloom : Counter0[d][ix] \in Int
      BY CounterStart
    <3>2. Counter0 = [d \in Dev |-> [ix \in Bloom |-> Counter0[d][ix]]]
      BY MemoryAssumption
    <3>. QED BY <1>2, <3>1, <3>2
  <2>4. /\ s.size \in [Vfids -> [Dev -> Int]]
        /\ s.phys \in [Vfids -> [Dev -> DataQ \cup {Unassigned}]]
    BY <1>2
  <2>5. s.ctl \in [Dev -> Seq(Control)] /\ s.tx \in [Dev -> Control \cup Data \cup {Idle}]
    BY <1>2
  <2>. QED BY <1>2, <2>1, <2>2, <2>3, <2>4, <2>5, <2>6 DEF State
<1>4. InStepOf(s)
  BY <1>2, SwitchAssumption DEF InStepOf
<1>5. Slots(s) = {}
  BY <1>2, SwitchAssumption DEF Slots
<1>6. EntryExactOf(s)
  BY <1>2, <1>5, FS_EmptySet DEF EntrySlots, EntryExactOf
<1>7. CounterExactOf(s)
  <2> SUFFICES ASSUME NEW d \in Dev, NEW ix \in Bloom
               PROVE  CounterFits(s, d, ix, Cardinality(MarkedSlots(s, d, ix)))
    BY CounterExactFits
  <2>1. Cardinality(MarkedSlots(s, d, ix)) = 0
    BY <1>5, FS_EmptySet DEF MarkedSlots
  <2>2. Counter0[d][ix] % CounterMod = Counter0[d][ix] /\ Counter0[d][ix] + 0 = Counter0[d][ix]
    BY CounterStart, ModSmall
  <2>3. CounterFits(s, d, ix, 0)
    BY <1>2, <2>2 DEF CounterFits, Zeroed
  <2>. QED BY <2>1, <2>3
<1>8. PauseSync(s)
  BY <1>2 DEF PauseSync
<1>9. NoLostWakeupOf(s)
  BY <1>2 DEF NoLostWakeupOf, CanSendData
<1>. QED BY <1>1, <1>3, <1>4, <1>6, <1>7, <1>8, <1>9 DEF SInv, IInv

(* And every step keeps it.                                                *)
LEMMA NextIInv == IInv /\ [Next]_vars => IInv'
<1> SUFFICES ASSUME IInv, [Next]_vars PROVE IInv'
  OBVIOUS
<1>1. CASE Next
  <2>1. SInv(Now') /\ NoLostWakeupOf(Now')
    BY <1>1, NextGood DEF Good
  <2>. QED BY <2>1 DEF IInv
<1>2. CASE UNCHANGED vars
  <2>1. Now' = Now
    BY <1>2 DEF vars, Now
  <2>2. SInv(Now') /\ NoLostWakeupOf(Now')
    BY <2>1 DEF IInv
  <2>. QED BY <2>2 DEF IInv
<1>. QED BY <1>1, <1>2

(* The inductive invariant holds throughout.                               *)
LEMMA Inductive == Spec => []IInv
BY InitIInv, NextIInv, PTL DEF Spec

-----------------------------------------------------------------------------
(* Every reachable state of the switch's tables, queues and wires is one   *)
(* the state record of QbbSwitch describes.                                *)
THEOREM TypeCorrect == Spec => []TypeOK
<1>1. IInv => TypeOK
  BY DEF IInv, SInv, TypeOK
<1>. QED BY <1>1, Inductive, PTL

(* The marks of every physical queue (Send, DequeueAndTransmit), its       *)
(* packets and its bit in active_queues_arr (BEgressQueue) never fall out  *)
(* of step, however arrivals, pauses and transmissions interleave.         *)
THEOREM QueuesInStep == Spec => []InStep
<1>1. IInv => InStep
  BY DEF IInv, SInv, InStep
<1>. QED BY <1>1, Inductive, PTL

(* An entry of the central flow table counts exactly the queued packets of *)
(* its virtual flow on its device, and they share one physical queue       *)
(* (GetCentralArrayIndex, DequeueAndTransmit).                             *)
THEOREM EntriesExact == Spec => []EntryExact
<1>1. IInv => EntryExact
  BY DEF IInv, SInv, EntryExact
<1>. QED BY <1>1, Inductive, PTL

(* Whatever a device's memory held when it was created: a bloom filter     *)
(* counter has moved by the number of marked packets still queued anywhere *)
(* in the switch that came from an upstream queue of that index, and where *)
(* the memory held zeros its bit is set exactly while there is one         *)
(* (UpdatePauseQueue, UpdateResumeQueue).                                  *)
THEOREM CountersExact == Spec => []CounterExact
<1>1. IInv => CounterExact
  BY DEF IInv, SInv, CounterExact
<1>. QED BY <1>1, Inductive, PTL

(* A device left READY has nothing it may send: no handler forgets to      *)
(* restart it (Send, Receive, TransmitComplete).                           *)
THEOREM NoWakeupIsLost == Spec => []NoLostWakeup
<1>1. IInv => NoLostWakeup
  BY DEF IInv, NoLostWakeup
<1>. QED BY <1>1, Inductive, PTL

(* No data packet starts from a queue the newest pause frame holds back:   *)
(* paused_map is never stale when round robin reads it.                    *)
THEOREM PausesAreObeyed == Spec => PauseObeyed
<1> DEFINE A == \A o \in Dev, q \in DataQ : Starts(o, q) => Index(q) \notin received'[o]
<1>1. ASSUME IInv, Next PROVE A
  <2>1. PausesObeyed(Now, Now')
    BY <1>1, NextGood DEF Good
  <2>. QED BY <2>1 DEF PausesObeyed, Starts, Now
<1>2. IInv /\ [Next]_vars => [A]_vars
  <2> HIDE DEF A
  <2>. QED BY <1>1
<1>. QED BY <1>2, Inductive, PTL DEF Spec, PauseObeyed

(* A bit that leaves the bloom filter leaves in a pause frame of the same  *)
(* step, newer than every other control packet of the device               *)
(* (UpdateResumeQueue, SendPauseFrame).                                    *)
THEOREM ResumesAreAnnounced == Spec => ResumeAnnounced
<1> DEFINE A == \A d \in Dev : \A ix \in bloom[d] \ bloom'[d] :
                  LET f == NewestControl(ctl'[d], tx'[d]) IN f \in PfcFrame /\ ix \notin f.pause
<1>1. ASSUME IInv, Next PROVE A
  <2>1. ClearsAnnounced(Now, Now')
    BY <1>1, NextGood DEF Good
  <2>. QED BY <2>1 DEF ClearsAnnounced, Now
<1>2. IInv /\ [Next]_vars => [A]_vars
  <2> HIDE DEF A
  <2>. QED BY <1>1
<1>. QED BY <1>2, Inductive, PTL DEF Spec, ResumeAnnounced

-----------------------------------------------------------------------------
(* The packets of a VFID in a physical queue. *)

(* PacketsOf is computed by a function on the prefixes of the queue.        *)
Kept(s, v, g) ==
  g = [n \in 0 .. Len(s) |->
         IF n = 0 THEN <<>>
         ELSE IF Vfid[s[n].flow] = v THEN Append(g[n - 1], s[n]) ELSE g[n - 1]]

LEMMA PacketsAreKept ==
  ASSUME NEW s, NEW v
  PROVE  PacketsOf(s, v) = (CHOOSE g : Kept(s, v, g))[Len(s)]
BY Zenon DEF PacketsOf, Kept

(* The packet at n joins those kept of the queue before it, or does not.    *)
Joins(s, v, n, x) == IF Vfid[s[n].flow] = v THEN Append(x, s[n]) ELSE x

LEMMA KeptExists ==
  ASSUME NEW s \in Seq(Packet), NEW v
  PROVE  \E g : Kept(s, v, g)
<1> DEFINE Eq(g, n) == /\ DOMAIN g = 0 .. n
                       /\ \A k \in 0 .. n :
                            g[k] = IF k = 0 THEN <<>> ELSE Joins(s, v, k, g[k - 1])
           Built == {n \in Nat : \E g : Eq(g, n)}
<1>1. 0 \in Built
  <2> DEFINE g == [k \in 0 .. 0 |-> <<>>]
  <2>1. Eq(g, 0)
    OBVIOUS
  <2>. HIDE DEF Eq
  <2>. QED BY <2>1
<1>2. ASSUME NEW n \in Nat, n \in Built
      PROVE  n + 1 \in Built
  <2>1. PICK g : Eq(g, n)
    BY <1>2
  <2> DEFINE h == [k \in 0 .. n + 1 |-> IF k <= n THEN g[k] ELSE Joins(s, v, k, g[n])]
  <2>2. ASSUME NEW k \in 0 .. n + 1
        PROVE  h[k] = IF k = 0 THEN <<>> ELSE Joins(s, v, k, h[k - 1])
    <3>1. CASE k = 0
      BY <3>1, <2>1
    <3>2. CASE k # 0 /\ k <= n
      <4>1. h[k] = g[k] /\ h[k - 1] = g[k - 1]
        BY <3>2
      <4>2. g[k] = Joins(s, v, k, g[k - 1])
        BY <3>2, <2>1
      <4>. QED BY <3>2, <4>1, <4>2
    <3>3. CASE k = n + 1
      <4>1. h[k] = Joins(s, v, k, g[n]) /\ h[k - 1] = g[n]
        BY <3>3
      <4>. QED BY <3>3, <4>1
    <3>. QED BY <3>1, <3>2, <3>3
  <2>3. Eq(h, n + 1)
    BY <2>2
  <2>. HIDE DEF Eq
  <2>. QED BY <2>3
<1>3. Len(s) \in Built
  <2>. HIDE DEF Built
  <2>. QED BY <1>1, <1>2, Induction
<1>4. PICK g : Eq(g, Len(s))
  BY <1>3
<1> DEFINE z == [n \in 0 .. Len(s) |->
                   IF n = 0 THEN <<>>
                   ELSE IF Vfid[s[n].flow] = v THEN Append(g[n - 1], s[n]) ELSE g[n - 1]]
<1>5. \A k \in 0 .. Len(s) : g[k] = z[k]
  BY <1>4 DEF Joins
<1> DEFINE f == [k \in 0 .. Len(s) |-> g[k]]
<1>6. \A k \in 0 .. Len(s) : k # 0 => f[k - 1] = g[k - 1]
  OBVIOUS
<1>7. f = [n \in 0 .. Len(s) |->
             IF n = 0 THEN <<>>
             ELSE IF Vfid[s[n].flow] = v THEN Append(f[n - 1], s[n]) ELSE f[n - 1]]
  BY <1>5, <1>6
<1>. QED BY <1>7, Zenon DEF Kept

(* What any such function computes. *)
Keeps(s, v, g) ==
  /\ PacketsOf(s, v) = g[Len(s)]
  /\ g[0] = <<>>
  /\ \A n \in Nat : n < Len(s) => g[n + 1] = Joins(s, v, n + 1, g[n])
  /\ \A n \in 0 .. Len(s) : g[n] \in Seq(Packet)

LEMMA PacketsKept ==
  ASSUME NEW s \in Seq(Packet), NEW v
  PROVE  \E g : Keeps(s, v, g)
<1>1. PICK g : g = CHOOSE h : Kept(s, v, h)
  OBVIOUS
<1>2. Kept(s, v, g)
  BY <1>1, KeptExists, Zenon
<1>3. PacketsOf(s, v) = g[Len(s)]
  BY <1>1, PacketsAreKept
<1>4. g[0] = <<>>
  BY <1>2 DEF Kept
<1>5. \A n \in Nat : n < Len(s) => g[n + 1] = Joins(s, v, n + 1, g[n])
  <2>. SUFFICES ASSUME NEW n \in Nat, n < Len(s)
                PROVE  g[n + 1] = Joins(s, v, n + 1, g[n])
    OBVIOUS
  <2>1. n + 1 \in 0 .. Len(s) /\ n + 1 # 0 /\ (n + 1) - 1 = n
    OBVIOUS
  <2>. QED BY <1>2, <2>1 DEF Kept, Joins
<1> DEFINE T == {n \in Nat : n <= Len(s) => g[n] \in Seq(Packet)}
<1>6. 0 \in T
  <2>1. g[0] \in Seq(Packet)
    BY <1>4
  <2>. QED BY <2>1
<1>7. ASSUME NEW n \in Nat, n \in T
      PROVE  n + 1 \in T
  <2>. SUFFICES ASSUME n + 1 <= Len(s) PROVE g[n + 1] \in Seq(Packet)
    OBVIOUS
  <2>1. n + 1 \in 1 .. Len(s) /\ n < Len(s)
    OBVIOUS
  <2>2. s[n + 1] \in Packet /\ g[n] \in Seq(Packet)
    BY <1>7, <2>1, ElementOfSeq
  <2>3. g[n + 1] = Joins(s, v, n + 1, g[n])
    BY <1>5, <2>1
  <2>4. Append(g[n], s[n + 1]) \in Seq(Packet)
    BY <2>2, AppendProperties
  <2>. HIDE DEF T
  <2>. QED BY <2>2, <2>3, <2>4 DEF Joins
<1>8. \A n \in 0 .. Len(s) : g[n] \in Seq(Packet)
  <2>1. Nat \subseteq T
    <3>. HIDE DEF T
    <3>. QED BY <1>6, <1>7, Induction
  <2>. QED BY <2>1
<1>. QED BY <1>3, <1>4, <1>5, <1>8 DEF Keeps

(* The selected packets are packets. *)
LEMMA PacketsTyped ==
  ASSUME NEW s \in Seq(Packet), NEW v
  PROVE  PacketsOf(s, v) \in Seq(Packet)
BY PacketsKept DEF Keeps

(* A queue without packets of the VFID has none to select.                 *)
LEMMA PacketsNone ==
  ASSUME NEW s \in Seq(Packet), NEW v, \A i \in 1 .. Len(s) : Vfid[s[i].flow] # v
  PROVE  PacketsOf(s, v) = <<>>
<1>1. PICK g : Keeps(s, v, g)
  BY PacketsKept
<1> DEFINE T == {n \in Nat : n <= Len(s) => g[n] = <<>>}
<1>2. 0 \in T
  BY <1>1 DEF Keeps
<1>3. ASSUME NEW n \in Nat, n \in T
      PROVE  n + 1 \in T
  <2>. SUFFICES ASSUME n + 1 <= Len(s) PROVE g[n + 1] = <<>>
    OBVIOUS
  <2>1. n + 1 \in 1 .. Len(s) /\ n < Len(s) /\ g[n] = <<>>
    BY <1>3
  <2>2. g[n + 1] = Joins(s, v, n + 1, g[n])
    BY <1>1, <2>1 DEF Keeps
  <2>. QED BY <2>1, <2>2 DEF Joins
<1>4. Nat \subseteq T
  <2>. HIDE DEF T
  <2>. QED BY <1>2, <1>3, Induction
<1>. QED BY <1>1, <1>4 DEF Keeps

(* A packet that joins the queue joins the selection of its VFID.          *)
LEMMA PacketsJoined ==
  ASSUME NEW s \in Seq(Packet), NEW v, NEW p \in Packet
  PROVE  PacketsOf(Append(s, p), v) =
           IF Vfid[p.flow] = v THEN Append(PacketsOf(s, v), p) ELSE PacketsOf(s, v)
<1>1. PICK t : t = Append(s, p)
  OBVIOUS
<1>2. /\ t \in Seq(Packet) /\ Len(t) = Len(s) + 1 /\ t[Len(s) + 1] = p
      /\ \A i \in 1 .. Len(s) : t[i] = s[i]
  BY <1>1, AppendProperties
<1>3. PICK g : Keeps(s, v, g)
  BY PacketsKept
<1>4. PICK h : Keeps(t, v, h)
  BY <1>2, PacketsKept
<1> DEFINE T == {n \in Nat : n <= Len(s) => h[n] = g[n]}
<1>5. 0 \in T
  BY <1>3, <1>4 DEF Keeps
<1>6. ASSUME NEW n \in Nat, n \in T
      PROVE  n + 1 \in T
  <2>. SUFFICES ASSUME n + 1 <= Len(s) PROVE h[n + 1] = g[n + 1]
    OBVIOUS
  <2>1. h[n] = g[n] /\ t[n + 1] = s[n + 1]
    BY <1>2, <1>6
  <2>2. g[n + 1] = Joins(s, v, n + 1, g[n])
    BY <1>3 DEF Keeps
  <2>3. h[n + 1] = Joins(t, v, n + 1, h[n])
    BY <1>2, <1>4 DEF Keeps
  <2>. QED BY <2>1, <2>2, <2>3 DEF Joins
<1>7. h[Len(s)] = g[Len(s)]
  <2>1. Nat \subseteq T
    <3>. HIDE DEF T
    <3>. QED BY <1>5, <1>6, Induction
  <2>. QED BY <2>1
<1>8. h[Len(s) + 1] = Joins(t, v, Len(s) + 1, h[Len(s)])
  BY <1>2, <1>4 DEF Keeps
<1>. QED BY <1>1, <1>2, <1>3, <1>4, <1>7, <1>8 DEF Keeps, Joins

(* The head of the queue is the head of the selection of its VFID.          *)
LEMMA PacketsDeparted ==
  ASSUME NEW s \in Seq(Packet), s # <<>>, NEW v
  PROVE  IF Vfid[Head(s).flow] = v
         THEN /\ PacketsOf(s, v) # <<>>
              /\ Head(PacketsOf(s, v)) = Head(s)
              /\ PacketsOf(Tail(s), v) = Tail(PacketsOf(s, v))
         ELSE PacketsOf(Tail(s), v) = PacketsOf(s, v)
<1>1. PICK t : t = Tail(s)
  OBVIOUS
<1>2. /\ t \in Seq(Packet) /\ Len(s) = Len(t) + 1 /\ Head(s) = s[1] /\ s[1] \in Packet
      /\ \A i \in 1 .. Len(t) : t[i] = s[i + 1]
  BY <1>1, HeadTailProperties
<1>3. PICK g : Keeps(s, v, g)
  BY PacketsKept
<1>4. PICK h : Keeps(t, v, h)
  BY <1>2, PacketsKept
<1>5. g[1] = Joins(s, v, 1, <<>>)
  <2>1. 0 \in Nat /\ 0 < Len(s) /\ 0 + 1 = 1
    BY <1>2
  <2>. QED BY <1>3, <2>1 DEF Keeps
<1>6. ASSUME NEW n \in Nat, n < Len(t)
      PROVE  /\ h[n + 1] = Joins(t, v, n + 1, h[n])
             /\ g[(n + 1) + 1] = Joins(s, v, (n + 1) + 1, g[n + 1])
             /\ t[n + 1] = s[(n + 1) + 1] /\ t[n + 1] \in Packet
             /\ h[n] \in Seq(Packet) /\ g[n + 1] \in Seq(Packet)
  <2>1. n + 1 \in Nat /\ n + 1 < Len(s) /\ n + 1 \in 1 .. Len(t) /\ n \in 0 .. Len(t)
        /\ n + 1 \in 0 .. Len(s)
    BY <1>2, <1>6
  <2>. QED BY <1>2, <1>3, <1>4, <1>6, <2>1, ElementOfSeq DEF Keeps
<1>7. CASE Vfid[Head(s).flow] = v
  <2> DEFINE T == {n \in Nat : n <= Len(t) => /\ g[n + 1] # <<>> /\ Head(g[n + 1]) = s[1]
                                              /\ Tail(g[n + 1]) = h[n]}
  <2>1. 0 \in T
    <3>1. g[1] = Append(<<>>, s[1]) /\ h[0] = <<>>
      BY <1>2, <1>4, <1>5, <1>7 DEF Joins, Keeps
    <3>2. \A x \in Packet : LET y == Append(<<>>, x) IN y # <<>> /\ Head(y) = x /\ Tail(y) = <<>>
      OBVIOUS
    <3>3. g[1] # <<>> /\ Head(g[1]) = s[1] /\ Tail(g[1]) = h[0]
      BY <1>2, <3>1, <3>2
    <3>. QED BY <3>3
  <2>2. ASSUME NEW n \in Nat, n \in T
        PROVE  n + 1 \in T
    <3>. SUFFICES ASSUME n + 1 <= Len(t)
                  PROVE  /\ g[(n + 1) + 1] # <<>> /\ Head(g[(n + 1) + 1]) = s[1]
                         /\ Tail(g[(n + 1) + 1]) = h[n + 1]
      OBVIOUS
    <3>0. n < Len(t)
      BY <1>2
    <3>1. g[n + 1] # <<>> /\ Head(g[n + 1]) = s[1] /\ Tail(g[n + 1]) = h[n]
      BY <2>2, <3>0
    <3>2. PICK a, b, x : a = g[n + 1] /\ b = h[n] /\ x = t[n + 1]
      OBVIOUS
    <3>3. a \in Seq(Packet) /\ x \in Packet /\ a # <<>>
      BY <1>6, <3>0, <3>1, <3>2
    <3>4. Append(a, x) # <<>> /\ Head(Append(a, x)) = Head(a) /\ Tail(Append(a, x)) = Append(Tail(a), x)
      BY <3>3
    <3>5. CASE Vfid[x.flow] = v
      BY <1>6, <3>0, <3>1, <3>2, <3>4, <3>5 DEF Joins
    <3>6. CASE Vfid[x.flow] # v
      BY <1>6, <3>0, <3>1, <3>2, <3>6 DEF Joins
    <3>. QED BY <3>5, <3>6
  <2>3. Len(t) \in T
    <3>. HIDE DEF T
    <3>. QED BY <1>2, <2>1, <2>2, Induction
  <2>4. g[Len(s)] # <<>> /\ Head(g[Len(s)]) = s[1] /\ Tail(g[Len(s)]) = h[Len(t)]
    BY <1>2, <2>3
  <2>5. PacketsOf(s, v) = g[Len(s)] /\ PacketsOf(t, v) = h[Len(t)]
    BY <1>3, <1>4 DEF Keeps
  <2>. QED BY <1>1, <1>2, <1>7, <2>4, <2>5
<1>8. CASE Vfid[Head(s).flow] # v
  <2> DEFINE T == {n \in Nat : n <= Len(t) => g[n + 1] = h[n]}
  <2>1. 0 \in T
    <3>1. g[1] = <<>> /\ h[0] = <<>>
      BY <1>2, <1>4, <1>5, <1>8 DEF Joins, Keeps
    <3>. QED BY <3>1
  <2>2. ASSUME NEW n \in Nat, n \in T
        PROVE  n + 1 \in T
    <3>. SUFFICES ASSUME n + 1 <= Len(t)
                  PROVE  g[(n + 1) + 1] = h[n + 1]
      OBVIOUS
    <3>0. n < Len(t)
      BY <1>2
    <3>1. g[n + 1] = h[n]
      BY <2>2, <3>0
    <3>. QED BY <1>6, <3>0, <3>1 DEF Joins
  <2>3. Len(t) \in T
    <3>. HIDE DEF T
    <3>. QED BY <1>2, <2>1, <2>2, Induction
  <2>4. g[Len(s)] = h[Len(t)]
    BY <1>2, <2>3
  <2>5. PacketsOf(s, v) = g[Len(s)] /\ PacketsOf(t, v) = h[Len(t)]
    BY <1>3, <1>4 DEF Keeps
  <2>. QED BY <1>1, <1>8, <2>4, <2>5
<1>. QED BY <1>7, <1>8

-----------------------------------------------------------------------------
(* The refinement of VirtualFifo. *)

(* The abstract state of a state record. *)
VQ(s, v, o) ==
  IF s.phys[v][o] = Unassigned THEN <<>> ELSE PacketsOf(s.queue[o][s.phys[v][o]], v)
OnLine(s, o) == IF s.tx[o] \in Data THEN s.tx[o].flow ELSE None

Fifos(s) == [v \in Vfids |-> [o \in Dev |-> VQ(s, v, o)]]
Lines(s) == [o \in Dev |-> OnLine(s, o)]

SameFifos(s, r) == \A v \in Vfids, d \in Dev : VQ(r, v, d) = VQ(s, v, d)

(* A queued packet is in the queue its entry names, and the entry counts it.*)
LEMMA EntryHolds ==
  ASSUME NEW s, SInv(s), NEW o \in Dev, NEW q \in DataQ, NEW i \in 1 .. Len(s.queue[o][q]),
         NEW p, p = s.queue[o][q][i], NEW v, v = Vfid[p.flow]
  PROVE  v \in Vfids /\ s.phys[v][o] = q /\ s.size[v][o] > 0
<1>3. s.queue[o][q] \in Seq(Packet)
  BY StateFields DEF SInv
<1>4. p \in Packet
  BY <1>3, ElementOfSeq
<1>5. v \in Vfids
  BY <1>4 DEF Packet, Vfids
<1>6. <<o, q, i>> \in EntrySlots(s, v, o)
  <2>1. i \in 1 .. MaxQueue /\ i <= Len(s.queue[o][q])
    <3>1. Len(s.queue[o][q]) <= MaxQueue /\ Len(s.queue[o][q]) \in Nat /\ MaxQueue \in Nat
      BY <1>3, SwitchAssumption DEF SInv, InStepOf
    <3>. QED BY <3>1
  <2>. QED BY <2>1 DEF EntrySlots, Slots, At
<1>7. /\ s.size[v][o] = Cardinality(EntrySlots(s, v, o))
      /\ \A t \in EntrySlots(s, v, o) : t[2] = s.phys[v][o]
  BY <1>5 DEF SInv, EntryExactOf
<1>8. IsFiniteSet(EntrySlots(s, v, o)) /\ Cardinality(EntrySlots(s, v, o)) \in Nat
  BY SlotSets
<1>9. Cardinality(EntrySlots(s, v, o)) # 0
  BY <1>6, <1>8, FS_EmptySet
<1>10. s.phys[v][o] = q
  BY <1>6, <1>7
<1>11. s.size[v][o] > 0
  <2>1. \A n \in Nat : n # 0 => n > 0
    OBVIOUS
  <2>. QED BY <1>7, <1>8, <1>9, <2>1
<1>. QED BY <1>5, <1>10, <1>11

(* An entry names a data queue or none.                                    *)
LEMMA EntryNames ==
  ASSUME NEW s \in State, NEW v \in Vfids, NEW o \in Dev
  PROVE  /\ s.phys[v][o] # Unassigned => s.phys[v][o] \in DataQ
         /\ \A q \in DataQ : s.queue[o][q] \in Seq(Packet)
         /\ VQ(s, v, o) \in Seq(Packet)
<1>1. s.phys[v][o] \in DataQ \cup {Unassigned}
  BY StateFields
<1>2. \A q \in DataQ : s.queue[o][q] \in Seq(Packet)
  BY StateFields
<1>3. <<>> \in Seq(Packet)
  OBVIOUS
<1>. QED BY <1>1, <1>2, <1>3, PacketsTyped DEF VQ

(* An entry that counts nothing has no packet in any queue. *)
LEMMA EntryEmpty ==
  ASSUME NEW s, SInv(s), NEW v \in Vfids, NEW o \in Dev, ~ (s.size[v][o] > 0), NEW q \in DataQ
  PROVE  PacketsOf(s.queue[o][q], v) = <<>>
<1>1. s.queue[o][q] \in Seq(Packet)
  BY StateFields DEF SInv
<1>2. \A i \in 1 .. Len(s.queue[o][q]) : Vfid[s.queue[o][q][i].flow] # v
  BY EntryHolds
<1>. QED BY <1>1, <1>2, PacketsNone

(* A packet joins the FIFO queue of its virtual flow, wherever its entry is *)
(* placed.                                                                 *)
LEMMA JoinedFifo ==
  ASSUME NEW s, SInv(s), NEW o \in Dev, NEW q \in DataQ, NEW p \in Packet,
         s.size[Vfid[p.flow]][o] > 0 => q = s.phys[Vfid[p.flow]][o],
         NEW r, Enlisted(s, r, p, o, q)
  PROVE  \A v \in Vfids, d \in Dev :
           VQ(r, v, d) = IF v = Vfid[p.flow] /\ d = o THEN Append(VQ(s, v, d), p) ELSE VQ(s, v, d)
<1>. SUFFICES ASSUME NEW v \in Vfids, NEW d \in Dev
              PROVE  VQ(r, v, d) = IF v = Vfid[p.flow] /\ d = o THEN Append(VQ(s, v, d), p)
                                   ELSE VQ(s, v, d)
  OBVIOUS
<1>0. s \in State /\ Unassigned \notin DataQ
  BY SwitchAssumption DEF SInv
<1>1. \A e \in DataQ :
        r.queue[d][e] = IF d = o /\ e = q THEN Append(s.queue[d][e], p) ELSE s.queue[d][e]
  BY DEF Enlisted
<1>2. r.phys[v][d] = IF v = Vfid[p.flow] /\ d = o THEN q ELSE s.phys[v][d]
  BY DEF Enlisted
<1>3. /\ s.phys[v][d] # Unassigned => s.phys[v][d] \in DataQ
      /\ \A e \in DataQ : s.queue[d][e] \in Seq(Packet)
  BY <1>0, EntryNames
<1>4. CASE v = Vfid[p.flow] /\ d = o
  <2>1. VQ(r, v, d) = PacketsOf(Append(s.queue[o][q], p), v)
    BY <1>0, <1>1, <1>2, <1>4 DEF VQ
  <2>2. VQ(r, v, d) = Append(PacketsOf(s.queue[o][q], v), p)
    BY <1>3, <1>4, <2>1, PacketsJoined
  <2>3. VQ(s, v, d) = PacketsOf(s.queue[o][q], v)
    <3>1. CASE s.size[v][d] > 0
      BY <1>0, <1>4, <3>1 DEF VQ
    <3>2. CASE ~ (s.size[v][d] > 0)
      <4>1. PacketsOf(s.queue[o][q], v) = <<>>
        BY <1>4, <3>2, EntryEmpty
      <4>2. VQ(s, v, d) = <<>>
        BY <1>3, <3>2, EntryEmpty DEF VQ
      <4>. QED BY <4>1, <4>2
    <3>. QED BY <3>1, <3>2
  <2>. QED BY <1>4, <2>2, <2>3
<1>5. CASE v # Vfid[p.flow] \/ d # o
  <2>1. r.phys[v][d] = s.phys[v][d]
    BY <1>2, <1>5
  <2>2. ASSUME s.phys[v][d] # Unassigned
        PROVE  PacketsOf(r.queue[d][s.phys[v][d]], v) = PacketsOf(s.queue[d][s.phys[v][d]], v)
    <3>1. CASE d = o /\ s.phys[v][d] = q
      BY <1>1, <1>3, <1>5, <2>2, <3>1, PacketsJoined
    <3>2. CASE ~ (d = o /\ s.phys[v][d] = q)
      BY <1>1, <1>3, <2>2, <3>2
    <3>. QED BY <3>1, <3>2
  <2>3. VQ(r, v, d) = VQ(s, v, d)
    BY <2>1, <2>2 DEF VQ
  <2>. QED BY <1>5, <2>3
<1>. QED BY <1>4, <1>5

(* Device o takes the oldest packet p of its virtual flow.                 *)
Dispatch(s, r, o, p) ==
  /\ p \in Packet
  /\ VQ(s, Vfid[p.flow], o) # <<>> /\ Head(VQ(s, Vfid[p.flow], o)) = p
  /\ \A v \in Vfids, d \in Dev :
       VQ(r, v, d) = IF v = Vfid[p.flow] /\ d = o THEN Tail(VQ(s, v, d)) ELSE VQ(s, v, d)
  /\ OnLine(r, o) = p.flow

(* The head of a physical queue is the oldest packet of its virtual flow.   *)
LEMMA DepartedFifo ==
  ASSUME NEW s, SInv(s), NEW o \in Dev, NEW q \in DataQ, s.queue[o][q] # <<>>,
         NEW r, Departed(s, r, o, q), r.phys = s.phys,
         r.tx[o] = [flow |-> Head(s.queue[o][q]).flow, q |-> q]
  PROVE  Dispatch(s, r, o, Head(s.queue[o][q]))
<1>1. PICK p : p = Head(s.queue[o][q])
  OBVIOUS
<1>2. s \in State /\ Unassigned \notin DataQ
  BY SwitchAssumption DEF SInv
<1>3. \A d \in Dev, e \in DataQ : s.queue[d][e] \in Seq(Packet)
  BY <1>2, StateFields
<1>4. 1 \in 1 .. Len(s.queue[o][q]) /\ p = s.queue[o][q][1] /\ p \in Packet
  <2>1. s.queue[o][q] \in Seq(Packet) /\ s.queue[o][q] # <<>>
    BY <1>3
  <2>. QED BY <1>1, <2>1, HeadTailProperties
<1>5. Vfid[p.flow] \in Vfids /\ s.phys[Vfid[p.flow]][o] = q
  <2>1. PICK i \in 1 .. Len(s.queue[o][q]) : p = s.queue[o][q][i]
    BY <1>4
  <2>2. PICK w : w = Vfid[p.flow]
    OBVIOUS
  <2>3. w \in Vfids /\ s.phys[w][o] = q
    BY <2>1, <2>2, EntryHolds
  <2>. QED BY <2>2, <2>3
<1>6. \A d \in Dev, e \in DataQ :
        r.queue[d][e] = IF d = o /\ e = q THEN Tail(s.queue[d][e]) ELSE s.queue[d][e]
  BY DEF Departed
<1>7. /\ VQ(s, Vfid[p.flow], o) # <<>> /\ Head(VQ(s, Vfid[p.flow], o)) = p
      /\ VQ(r, Vfid[p.flow], o) = Tail(VQ(s, Vfid[p.flow], o))
  <2>1. VQ(s, Vfid[p.flow], o) = PacketsOf(s.queue[o][q], Vfid[p.flow])
    BY <1>2, <1>5 DEF VQ
  <2>2. VQ(r, Vfid[p.flow], o) = PacketsOf(Tail(s.queue[o][q]), Vfid[p.flow])
    BY <1>2, <1>5, <1>6 DEF VQ
  <2>. QED BY <1>1, <1>3, <2>1, <2>2, PacketsDeparted
<1>8. ASSUME NEW v \in Vfids, NEW d \in Dev, v # Vfid[p.flow] \/ d # o
      PROVE  VQ(r, v, d) = VQ(s, v, d)
  <2>1. s.phys[v][d] # Unassigned => s.phys[v][d] \in DataQ
    BY <1>2, EntryNames
  <2>2. ASSUME s.phys[v][d] # Unassigned
        PROVE  PacketsOf(r.queue[d][s.phys[v][d]], v) = PacketsOf(s.queue[d][s.phys[v][d]], v)
    <3>1. CASE d = o /\ s.phys[v][d] = q
      BY <1>1, <1>3, <1>6, <1>8, <2>1, <2>2, <3>1, PacketsDeparted
    <3>2. CASE ~ (d = o /\ s.phys[v][d] = q)
      BY <1>6, <2>1, <2>2, <3>2
    <3>. QED BY <3>1, <3>2
  <2>. QED BY <2>2 DEF VQ
<1>9. OnLine(r, o) = p.flow
  <2>1. r.tx[o] \in Data
    BY <1>1, <1>4 DEF Data, Packet
  <2>. QED BY <1>1, <2>1 DEF OnLine
<1>. QED BY <1>1, <1>4, <1>7, <1>8, <1>9 DEF Dispatch

(* A control packet on the wire, or none, is no flow's.                    *)
LEMMA NoFlowOnLine ==
  ASSUME NEW s, NEW o, s.tx[o] \in Control \cup {Idle}
  PROVE  OnLine(s, o) = None
BY DifferentFrames DEF OnLine

(* What DequeueAndTransmit does to the FIFO queues.                        *)
Serves(s, r, o) ==
  /\ \A d \in Dev \ {o} : OnLine(r, d) = OnLine(s, d)
  /\ \/ SameFifos(s, r) /\ OnLine(r, o) = OnLine(s, o)
     \/ /\ s.tx[o] = Idle
        /\ \E q \in (s.active[o] \ s.paused[o]) \cap DataQ :
             s.queue[o][q] # <<>> /\ Dispatch(s, r, o, Head(s.queue[o][q]))

LEMMA DequeueAndTransmitFifo ==
  ASSUME NEW s, SInv(s), NEW o \in Dev, NEW r, r = DequeueAndTransmit(s, o)
  PROVE  Serves(s, r, o)
<1>0. s \in State
  BY DEF SInv
<1>1. CASE s.tx[o] = Idle /\ s.ctl[o] # <<>>
  <2>1. r = [s EXCEPT !.ctl[o] = Tail(s.ctl[o]), !.tx[o] = Head(s.ctl[o])]
    BY <1>1 DEF DequeueAndTransmit, TransmitControl
  <2>2. r.tx = [s.tx EXCEPT ![o] = Head(s.ctl[o])] /\ r.queue = s.queue /\ r.phys = s.phys
    BY <1>0, <2>1 DEF State
  <2>3. Head(s.ctl[o]) \in Control
    BY <1>0, <1>1, StateFields, HeadTailProperties
  <2>4. r.tx[o] \in Control \cup {Idle} /\ s.tx[o] \in Control \cup {Idle}
        /\ \A d \in Dev \ {o} : r.tx[d] = s.tx[d]
    BY <1>0, <1>1, <2>2, <2>3, StateFields
  <2>5. OnLine(r, o) = None /\ OnLine(s, o) = None
    BY <2>4, NoFlowOnLine
  <2>6. \A d \in Dev \ {o} : OnLine(r, d) = OnLine(s, d)
    BY <2>4 DEF OnLine
  <2>7. SameFifos(s, r)
    BY <2>2 DEF SameFifos, VQ
  <2>. QED BY <2>5, <2>6, <2>7 DEF Serves
<1>2. CASE s.tx[o] = Idle /\ s.ctl[o] = <<>> /\ CanSendData(s, o)
  <2>1. r = TransmitData(s, o)
    BY <1>2 DEF DequeueAndTransmit
  <2>2. Leaves(s, r, o)
    BY <1>2, <2>1, TransmitDataStep
  <2>3. PICK q \in s.active[o] \ s.paused[o] :
          /\ q \in DataQ /\ s.queue[o][q] # <<>> /\ Departed(s, r, o, q) /\ r.phys = s.phys
          /\ r.tx[o] = [flow |-> Head(s.queue[o][q]).flow, q |-> q]
          /\ \A d \in Dev \ {o} : r.tx[d] = s.tx[d] \/ (s.tx[d] = Idle /\ r.tx[d] \in Control)
    BY <2>2 DEF Leaves
  <2>4. Dispatch(s, r, o, Head(s.queue[o][q]))
    BY <2>3, DepartedFifo
  <2>5. ASSUME NEW d \in Dev \ {o}
        PROVE  OnLine(r, d) = OnLine(s, d)
    <3>1. CASE r.tx[d] = s.tx[d]
      BY <3>1 DEF OnLine
    <3>2. CASE s.tx[d] = Idle /\ r.tx[d] \in Control
      BY <3>2, NoFlowOnLine
    <3>. QED BY <2>3, <3>1, <3>2
  <2>. QED BY <1>2, <2>3, <2>4, <2>5 DEF Serves
<1>3. CASE ~ (s.tx[o] = Idle /\ s.ctl[o] # <<>>)
           /\ ~ (s.tx[o] = Idle /\ s.ctl[o] = <<>> /\ CanSendData(s, o))
  <2>1. r = s
    BY <1>3 DEF DequeueAndTransmit
  <2>. QED BY <2>1 DEF Serves, SameFifos
<1>. QED BY <1>1, <1>2, <1>3

(* The steps of VirtualFifo, on the abstract states of two records.         *)
AbstractStep(s, r) ==
  \/ Fifos(r) = Fifos(s) /\ Lines(r) = Lines(s)
  \/ \E o \in Dev :
       \/ /\ Lines(s)[o] # None
          /\ Lines(r) = [Lines(s) EXCEPT ![o] = None] /\ Fifos(r) = Fifos(s)
       \/ \E v \in Vfids :
            /\ Fifos(s)[v][o] # <<>>
            /\ Fifos(r) = [Fifos(s) EXCEPT ![v][o] = Tail(@)]
            /\ Lines(r) = [Lines(s) EXCEPT ![o] = Head(Fifos(s)[v][o]).flow]
       \/ \E v \in Vfids, p \in Offered :
            \/ Fifos(r) = [Fifos(s) EXCEPT ![v][o] = Append(@, p)] /\ Lines(r) = Lines(s)
            \/ /\ Fifos(s)[v][o] = <<>> /\ Lines(s)[o] = None
               /\ Lines(r) = [Lines(s) EXCEPT ![o] = p.flow] /\ Fifos(r) = Fifos(s)

(* Two records with the same FIFO queues have the same abstract queues, and *)
(* likewise for the lines.                                                 *)
LEMMA FifosEqual ==
  ASSUME NEW s, NEW r, SameFifos(s, r)
  PROVE  Fifos(r) = Fifos(s)
BY DEF SameFifos, Fifos

LEMMA LinesChanged ==
  ASSUME NEW s, NEW r, NEW o \in Dev, \A d \in Dev \ {o} : OnLine(r, d) = OnLine(s, d)
  PROVE  Lines(r) = [Lines(s) EXCEPT ![o] = OnLine(r, o)]
BY DEF Lines

(* A handler ends in DequeueAndTransmit: m is the state before the attempt, *)
(* with the queues of s and, on o, its line or none.                       *)
LEMMA HandlerFifo ==
  ASSUME NEW s, NEW m, SInv(m), NEW o \in Dev, SameFifos(s, m),
         \A d \in Dev \ {o} : OnLine(m, d) = OnLine(s, d),
         OnLine(m, o) = OnLine(s, o) \/ OnLine(m, o) = None,
         NEW r, r = DequeueAndTransmit(m, o)
  PROVE  AbstractStep(s, r)
<1>1. Serves(m, r, o)
  BY DequeueAndTransmitFifo
<1>2. \A d \in Dev \ {o} : OnLine(r, d) = OnLine(s, d)
  BY <1>1 DEF Serves
<1>3. Lines(r) = [Lines(s) EXCEPT ![o] = OnLine(r, o)] /\ Lines(s)[o] = OnLine(s, o)
  BY <1>2, LinesChanged DEF Lines
<1>4. CASE SameFifos(m, r) /\ OnLine(r, o) = OnLine(m, o)
  <2>1. Fifos(r) = Fifos(s)
    BY <1>4, FifosEqual DEF SameFifos
  <2>2. CASE OnLine(m, o) = OnLine(s, o)
    <3>1. Lines(r) = Lines(s)
      BY <1>2, <1>4, <2>2 DEF Lines
    <3>. QED BY <2>1, <3>1 DEF AbstractStep
  <2>3. CASE OnLine(m, o) = None /\ OnLine(s, o) # None
    <3>1. Lines(r) = [Lines(s) EXCEPT ![o] = None] /\ Lines(s)[o] # None
      BY <1>3, <1>4, <2>3
    <3>. QED BY <2>1, <3>1 DEF AbstractStep
  <2>. QED BY <2>2, <2>3
<1>5. CASE \E p : Dispatch(m, r, o, p)
  <2>1. PICK p : Dispatch(m, r, o, p)
    BY <1>5
  <2>2. PICK v : v = Vfid[p.flow]
    OBVIOUS
  <2>3. v \in Vfids
    BY <2>1, <2>2 DEF Dispatch, Packet, Vfids
  <2>4. Fifos(s)[v][o] = VQ(s, v, o) /\ VQ(m, v, o) = VQ(s, v, o)
    BY <2>3 DEF Fifos, SameFifos
  <2>5. Fifos(s)[v][o] # <<>> /\ Head(Fifos(s)[v][o]) = p /\ OnLine(r, o) = p.flow
    BY <2>1, <2>2, <2>4 DEF Dispatch
  <2>6. \A w \in Vfids, d \in Dev :
          VQ(r, w, d) = IF w = v /\ d = o THEN Tail(VQ(s, w, d)) ELSE VQ(s, w, d)
    BY <2>1, <2>2 DEF Dispatch, SameFifos
  <2>7. Fifos(r) = [Fifos(s) EXCEPT ![v][o] = Tail(@)]
    BY <2>3, <2>6 DEF Fifos
  <2>8. Lines(r) = [Lines(s) EXCEPT ![o] = Head(Fifos(s)[v][o]).flow]
    BY <1>3, <2>5
  <2>. QED BY <2>3, <2>5, <2>7, <2>8 DEF AbstractStep
<1>. QED BY <1>1, <1>4, <1>5 DEF Serves

(* Send: the packet waits in its virtual queue, or finds the device READY   *)
(* with nothing to send and passes through.                                *)
LEMMA SendDataFifo ==
  ASSUME NEW s, SInv(s), NoLostWakeupOf(s), NEW p \in Packet, p \in Offered,
         NEW o \in Dev, NEW q \in DataQ, Len(s.queue[o][q]) < MaxQueue,
         s.size[Vfid[p.flow]][o] > 0 => q = s.phys[Vfid[p.flow]][o],
         NEW r, r = SendData(s, p, o, q)
  PROVE  AbstractStep(s, r)
<1>1. PICK m : m = AdmitData(s, p, o, q)
  OBVIOUS
<1>2. r = DequeueAndTransmit(m, o)
  BY <1>1 DEF SendData
<1>3. Admitted(s, m, o) /\ Enlisted(s, m, p, o, q)
  BY <1>1, AdmitDataStep
<1>4. PICK v : v = Vfid[p.flow]
  OBVIOUS
<1>5. v \in Vfids
  BY <1>4 DEF Packet, Vfids
<1>6. \A w \in Vfids, d \in Dev :
        VQ(m, w, d) = IF w = v /\ d = o THEN Append(VQ(s, w, d), p) ELSE VQ(s, w, d)
  BY <1>3, <1>4, JoinedFifo
<1>7. \A d \in Dev : OnLine(m, d) = OnLine(s, d)
  BY <1>3 DEF Admitted, OnLine
<1>8. Serves(m, r, o)
  BY <1>2, <1>3, DequeueAndTransmitFifo DEF Admitted
<1>9. \A d \in Dev \ {o} : OnLine(r, d) = OnLine(s, d)
  BY <1>7, <1>8 DEF Serves
<1>10. CASE SameFifos(m, r) /\ OnLine(r, o) = OnLine(m, o)
  <2>1. \A w \in Vfids, d \in Dev :
          VQ(r, w, d) = IF w = v /\ d = o THEN Append(VQ(s, w, d), p) ELSE VQ(s, w, d)
    BY <1>6, <1>10 DEF SameFifos
  <2>2. Fifos(r) = [Fifos(s) EXCEPT ![v][o] = Append(@, p)]
    BY <1>5, <2>1 DEF Fifos
  <2>3. Lines(r) = Lines(s)
    BY <1>7, <1>9, <1>10 DEF Lines
  <2>. QED BY <1>5, <2>2, <2>3 DEF AbstractStep
<1>11. CASE m.tx[o] = Idle /\ \E e \in (m.active[o] \ m.paused[o]) \cap DataQ :
               m.queue[o][e] # <<>> /\ Dispatch(m, r, o, Head(m.queue[o][e]))
  <2>1. PICK e \in (m.active[o] \ m.paused[o]) \cap DataQ :
          m.queue[o][e] # <<>> /\ Dispatch(m, r, o, Head(m.queue[o][e]))
    BY <1>11
  <2>2. s.tx[o] = Idle /\ e \notin s.active[o]
    <3>1. s.tx[o] = Idle /\ m.received = s.received /\ PauseSync(s) /\ PauseSync(m)
      BY <1>3, <1>11 DEF Admitted, SInv
    <3>2. ASSUME e \in s.active[o] PROVE FALSE
      <4>1. e \in s.paused[o]
        BY <3>1, <3>2 DEF NoLostWakeupOf, CanSendData
      <4>2. Index(e) \in m.received[o]
        BY <2>1, <3>1, <4>1 DEF PauseSync
      <4>. QED BY <2>1, <3>1, <4>2 DEF PauseSync
    <3>. QED BY <3>1, <3>2
  <2>3. s.queue[o][e] = <<>>
    BY <2>1, <2>2 DEF SInv, InStepOf
  <2>4. e = q /\ m.queue[o][e] = Append(<<>>, p)
    <3>1. m.queue[o][e] = IF e = q THEN Append(s.queue[o][e], p) ELSE s.queue[o][e]
      BY <1>3, <2>1 DEF Enlisted
    <3>. QED BY <2>1, <2>3, <3>1
  <2>5. \A x \in Packet : Head(Append(<<>>, x)) = x /\ Tail(Append(<<>>, x)) = <<>>
    OBVIOUS
  <2>6. Dispatch(m, r, o, p)
    BY <2>1, <2>4, <2>5
  <2>7. VQ(s, v, o) = <<>>
    <3>1. s \in State
      BY DEF SInv
    <3>2. PacketsOf(<<>>, v) = <<>>
      <4>1. PICK e0 : e0 = <<>>
        OBVIOUS
      <4>2. e0 \in Seq(Packet) /\ \A i \in 1 .. Len(e0) : Vfid[e0[i].flow] # v
        BY <4>1
      <4>. QED BY <4>1, <4>2, PacketsNone
    <3>3. CASE s.size[v][o] > 0
      BY <1>4, <2>3, <2>4, <3>2, <3>3 DEF VQ
    <3>4. CASE ~ (s.size[v][o] > 0)
      BY <1>5, <3>1, <3>4, EntryNames, EntryEmpty DEF VQ
    <3>. QED BY <3>3, <3>4
  <2>8. SameFifos(s, r)
    BY <1>4, <1>6, <2>5, <2>6, <2>7 DEF SameFifos, Dispatch
  <2>9. Lines(r) = [Lines(s) EXCEPT ![o] = p.flow]
    <3>1. OnLine(r, o) = p.flow
      BY <2>6 DEF Dispatch
    <3>. QED BY <1>9, <3>1, LinesChanged
  <2>10. Lines(s)[o] = None
    BY <2>2, NoFlowOnLine DEF Lines
  <2>11. Fifos(s)[v][o] = <<>> /\ Fifos(r) = Fifos(s)
    BY <1>5, <2>7, <2>8, FifosEqual DEF Fifos
  <2>. QED BY <1>5, <2>9, <2>10, <2>11 DEF AbstractStep
<1>. QED BY <1>8, <1>10, <1>11 DEF Serves

(* Control packets do not touch them. *)
LEMMA ControlFifo ==
  ASSUME NEW s \in State, NEW D \in SUBSET Dev, NEW frame \in [D -> Control],
         NEW r, r = SendControl(s, D, frame)
  PROVE  AbstractStep(s, r)
<1>1. ControlSent(s, D, frame, r)
  BY DEF ControlSent
<1>2. ControlOutcome(s, D, frame, r)
  BY <1>1, SendControlStep
<1>3. SameFifos(s, r)
  BY <1>2 DEF ControlOutcome, SameTables, SameFifos, VQ
<1>4. ASSUME NEW d \in Dev
      PROVE  OnLine(r, d) = OnLine(s, d)
  <2>1. CASE d \in D /\ s.tx[d] = Idle
    BY <1>2, <2>1, NoFlowOnLine DEF ControlOutcome
  <2>2. CASE ~ (d \in D /\ s.tx[d] = Idle)
    <3>1. r.tx[d] = s.tx[d]
      BY <1>2, <2>2 DEF ControlOutcome, FrameJoined
    <3>. QED BY <3>1 DEF OnLine
  <2>. QED BY <2>1, <2>2
<1>5. Fifos(r) = Fifos(s) /\ Lines(r) = Lines(s)
  BY <1>3, <1>4, FifosEqual DEF Lines
<1>. QED BY <1>5 DEF AbstractStep

-----------------------------------------------------------------------------
(* Become fixes what the abstract state is computed from.                  *)
LEMMA BecomesFifo ==
  ASSUME NEW s, NEW x, Become(x), AbstractStep(s, x)
  PROVE  AbstractStep(s, Now')
<1>1. /\ (Now').queue = x.queue /\ (Now').phys = x.phys /\ (Now').tx = x.tx
  BY DEF Become, Now
<1>2. PICK r : r = Now'
  OBVIOUS
<1>3. Fifos(r) = Fifos(x) /\ Lines(r) = Lines(x)
  BY <1>1, <1>2 DEF Fifos, Lines, VQ, OnLine
<1>4. AbstractStep(s, r)
  BY <1>3 DEF AbstractStep
<1>. QED BY <1>2, <1>4

(* Every action of the switch is a step of VirtualFifo or a stutter.       *)
LEMMA NextFifo ==
  ASSUME IInv, Next
  PROVE  AbstractStep(Now, Now')
<1>1. PICK s : s = Now
  OBVIOUS
<1>2. SInv(s) /\ NoLostWakeupOf(s) /\ s \in State
  BY <1>1 DEF IInv, SInv
<1>. SUFFICES \E x : Become(x) /\ AbstractStep(s, x)
  BY <1>1, BecomesFifo
<1>3. CASE \E p \in Offered : ReceiveData(p)
  <2>1. PICK p \in Offered : ReceiveData(p)
    BY <1>3
  <2>2. PICK o : o = Route[p.flow][p.in]
    OBVIOUS
  <2>3. p \in Packet /\ o \in Dev /\ Vfid[p.flow] \in Vfids
    BY <2>2, EnvironmentAssumption, SwitchAssumption DEF Packet, Vfids
  <2>4. PICK q \in Placements(s, Vfid[p.flow], o) :
          Len(s.queue[o][q]) < MaxQueue /\ Become(SendData(s, p, o, q))
    <3>1. s.queue = queue
      BY <1>1 DEF Now
    <3>2. PICK q \in Placements(Now, Vfid[p.flow], o) :
            Len(queue[o][q]) < MaxQueue /\ Become(SendData(Now, p, o, q))
      BY <2>1, <2>2, Zenon DEF ReceiveData
    <3>. QED BY <1>1, <3>1, <3>2
  <2>5. q \in DataQ /\ (s.size[Vfid[p.flow]][o] > 0 => q = s.phys[Vfid[p.flow]][o])
    BY <1>2, <2>3, <2>4, PlacementKept
  <2>6. AbstractStep(s, SendData(s, p, o, q))
    BY <1>2, <2>3, <2>4, <2>5, SendDataFifo
  <2>. QED BY <2>4, <2>6
<1>4. CASE \E d \in PfcFrom, bits \in SUBSET Bloom : ReceivePfc(d, bits)
  <2>1. PICK d \in PfcFrom, bits \in SUBSET Bloom : ReceivePfc(d, bits)
    BY <1>4
  <2>2. PICK m : PfcTaken(s, m, d, bits)
    BY DEF PfcTaken
  <2>3. d \in Dev
    BY EnvironmentAssumption
  <2>4. PfcOutcome(s, m, d, bits)
    BY <1>2, <2>2, <2>3, PfcTakenStep
  <2>5. SInv(m) /\ SameFifos(s, m) /\ \A e \in Dev : OnLine(m, e) = OnLine(s, e)
    BY <2>4 DEF PfcOutcome, SameLoads, SameFifos, VQ, OnLine
  <2>6. AbstractStep(s, DequeueAndTransmit(m, d))
    BY <2>3, <2>5, HandlerFifo
  <2>7. Become(DequeueAndTransmit(m, d))
    BY <1>1, <2>1, <2>2 DEF ReceivePfc, PfcTaken
  <2>. QED BY <2>6, <2>7
<1>5. CASE \E o \in AckOut : ForwardControl(o)
  <2>1. PICK o \in AckOut : ForwardControl(o)
    BY <1>5
  <2> DEFINE frame == [d \in {o} |-> [ack |-> "ack"]]
  <2>2. {o} \in SUBSET Dev /\ frame \in [{o} -> Control]
    BY EnvironmentAssumption DEF Control, Transit
  <2>3. Become(SendControl(s, {o}, frame))
    BY <1>1, <2>1 DEF ForwardControl
  <2> HIDE DEF frame
  <2>4. AbstractStep(s, SendControl(s, {o}, frame))
    BY <1>2, <2>2, ControlFifo
  <2>. QED BY <2>3, <2>4
<1>6. CASE \E n \in {Node[d] : d \in Dev} : CheckAndSendPause(n)
  <2>1. PICK n : CheckAndSendPause(n)
    BY <1>6
  <2> DEFINE D == {d \in Dev : Node[d] = n}
             frame == [d \in D |-> [pause |-> s.bloom[d]]]
  <2>2. D \in SUBSET Dev /\ frame \in [D -> Control]
    <3>1. \A d \in Dev : [pause |-> s.bloom[d]] \in Control
      BY <1>2, StateFields DEF Control, PfcFrame
    <3>. QED BY <3>1
  <2>3. Become(SendControl(s, D, frame))
    BY <1>1, <2>1 DEF CheckAndSendPause, SendPauseFrames
  <2> HIDE DEF D, frame
  <2>4. AbstractStep(s, SendControl(s, D, frame))
    BY <1>2, <2>2, ControlFifo
  <2>. QED BY <2>3, <2>4
<1>7. CASE \E o \in Dev : TransmitComplete(o)
  <2>1. PICK o \in Dev : TransmitComplete(o)
    BY <1>7
  <2>2. PICK m : WireFreed(s, m, o)
    BY DEF WireFreed
  <2>3. /\ SInv(m) /\ SameTables(s, m) /\ m.ctl = s.ctl
        /\ \A d \in Dev : m.tx[d] = IF d = o THEN Idle ELSE s.tx[d]
    BY <1>2, <2>2, WireFreedStep
  <2>4. SameFifos(s, m) /\ \A d \in Dev \ {o} : OnLine(m, d) = OnLine(s, d)
    BY <2>3 DEF SameTables, SameFifos, VQ, OnLine
  <2>5. OnLine(m, o) = None
    BY <2>3, NoFlowOnLine
  <2>6. AbstractStep(s, DequeueAndTransmit(m, o))
    BY <2>3, <2>4, <2>5, HandlerFifo
  <2>7. Become(DequeueAndTransmit(m, o))
    BY <1>1, <2>1, <2>2 DEF TransmitComplete, WireFreed
  <2>. QED BY <2>6, <2>7
<1>8. CASE \E o \in Dev : Poll(o)
  <2>1. PICK o \in Dev : Poll(o)
    BY <1>8
  <2>2. SameFifos(s, s)
    BY DEF SameFifos
  <2>3. AbstractStep(s, DequeueAndTransmit(s, o))
    BY <1>2, <2>2, HandlerFifo
  <2>4. Become(DequeueAndTransmit(s, o))
    BY <1>1, <2>1 DEF Poll
  <2>. QED BY <2>3, <2>4
<1>. QED BY <1>3, <1>4, <1>5, <1>6, <1>7, <1>8 DEF Next

(* The mapping of QbbSwitchFifo is the abstract state of Now.              *)
LEMMA MappedNow ==
  /\ Fifos(Now) = [v \in Vfids |-> [o \in Dev |-> VirtualQueue(v, o)]]
  /\ Lines(Now) = [o \in Dev |-> Line(o)]
BY DEF Fifos, Lines, VQ, OnLine, VirtualQueue, Line, Now

LEMMA MappedNext ==
  /\ Fifos(Now') = [v \in Vfids |-> [o \in Dev |-> VirtualQueue(v, o)]]'
  /\ Lines(Now') = [o \in Dev |-> Line(o)]'
BY DEF Fifos, Lines, VQ, OnLine, VirtualQueue, Line, Now

(* The switch implements a FIFO queue per virtual flow and output device:   *)
(* however entries of the flow table share physical queues and move between *)
(* them (GetCentralArrayIndex), whatever is paused (Receive) and whichever  *)
(* queue round robin serves (DequeueAndTransmit), the packets of a VFID     *)
(* leave in the order they came, none is lost, and one is on the wire.      *)
THEOREM SwitchImplementsFifo == Spec => VirtualFlowsAreFifo
<1>1. Init => Fifo!Init
  BY DifferentFrames DEF Init, DeviceInit, TableInit, Fifo!Init, VirtualQueue, Line
<1>2. IInv /\ [Next]_vars => [Fifo!Next]_Fifo!vars
  <2>. SUFFICES ASSUME IInv, [Next]_vars PROVE [Fifo!Next]_Fifo!vars
    OBVIOUS
  <2>1. CASE UNCHANGED vars
    BY <2>1 DEF vars, Fifo!vars, VirtualQueue, Line
  <2>2. CASE Next
    <3> DEFINE fifo == [v \in Vfids |-> [o \in Dev |-> VirtualQueue(v, o)]]
               line == [o \in Dev |-> Line(o)]
    <3>1. AbstractStep(Now, Now')
      BY <2>2, NextFifo
    <3>2. /\ Fifos(Now) = fifo /\ Fifos(Now') = fifo'
          /\ Lines(Now) = line /\ Lines(Now') = line'
      BY MappedNow, MappedNext
    <3>3. CASE fifo' = fifo /\ line' = line
      BY <3>3 DEF Fifo!vars
    <3>4. ASSUME NEW o \in Dev, line[o] # None, line' = [line EXCEPT ![o] = None], fifo' = fifo
          PROVE  Fifo!Next
      <4>1. Fifo!Finish(o)
        BY <3>4 DEF Fifo!Finish
      <4>. QED BY <4>1 DEF Fifo!Next
    <3>5. ASSUME NEW o \in Dev, NEW v \in Vfids, fifo[v][o] # <<>>,
                 fifo' = [fifo EXCEPT ![v][o] = Tail(@)],
                 line' = [line EXCEPT ![o] = Head(fifo[v][o]).flow]
          PROVE  Fifo!Next
      <4>1. Fifo!Send(v, o)
        BY <3>5 DEF Fifo!Send
      <4>. QED BY <4>1 DEF Fifo!Next
    <3>6. ASSUME NEW o \in Dev, NEW v \in Vfids, NEW p \in Offered,
                 fifo' = [fifo EXCEPT ![v][o] = Append(@, p)], line' = line
          PROVE  Fifo!Next
      <4>1. Fifo!Accept(v, o, p)
        BY <3>6 DEF Fifo!Accept
      <4>. QED BY <4>1 DEF Fifo!Next
    <3>7. ASSUME NEW o \in Dev, NEW v \in Vfids, NEW p \in Offered,
                 fifo[v][o] = <<>>, line[o] = None, line' = [line EXCEPT ![o] = p.flow], fifo' = fifo
          PROVE  Fifo!Next
      <4>1. Fifo!PassThrough(v, o, p)
        BY <3>7 DEF Fifo!PassThrough
      <4>. QED BY <4>1 DEF Fifo!Next
    <3> HIDE DEF fifo, line
    <3>. QED BY <3>1, <3>2, <3>3, <3>4, <3>5, <3>6, <3>7 DEF AbstractStep
  <2>. QED BY <2>1, <2>2
<1>. QED BY <1>1, <1>2, Inductive, PTL DEF Spec, VirtualFlowsAreFifo, Fifo!Spec
=============================================================================
