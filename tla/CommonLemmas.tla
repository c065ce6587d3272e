---------------------------- MODULE CommonLemmas ----------------------------
(***************************************************************************)
(* What the proofs about several components share: least elements and       *)
(* induction over the naturals, the queue selection of RoundRobin, and sums *)
(* over finite sets and along sequences, by which byte and packet counts   *)
(* are stated.                                                             *)
(*                                                                         *)
(* Induction is stated of sets and not of predicates, so that it can be    *)
(* cited without an operator as a parameter; it rests on the               *)
(* well-foundedness of the naturals.                                       *)
(***************************************************************************)
EXTENDS RoundRobin, FiniteSetTheorems, TLAPS

(* The natural numbers are well founded.                                   *)
LEMMA NatLess == IsWellFoundedOn({ss \in Nat \X Nat : ss[1] < ss[2]}, Nat)
BY NatLessThanWellFounded, Zenon DEF OpToRel

(* Min of a nonempty set of naturals is its least element. *)
LEMMA MinProperty ==
  ASSUME NEW S \in SUBSET Nat, S # {}
  PROVE  Min(S) \in S /\ \A y \in S : Min(S) <= y
<1> DEFINE R == {ss \in Nat \X Nat : ss[1] < ss[2]}
<1>1. PICK x \in S : \A y \in S : ~ (<<y, x>> \in R)
  BY NatLess, WFMin
<1>2. ASSUME NEW y \in S PROVE x <= y
  <2>1. x \in Nat /\ y \in Nat /\ <<y, x>> \notin R
    BY <1>1
  <2>2. ~ (y < x)
    BY <2>1
  <2>. QED BY <2>1, <2>2
<1>. QED BY <1>2 DEF Min

(* A set of naturals that holds 0 and every successor holds them all.       *)
LEMMA Induction ==
  ASSUME NEW S, 0 \in S, \A n \in Nat : n \in S => n + 1 \in S
  PROVE  Nat \subseteq S
<1> DEFINE Out == Nat \ S
<1>. SUFFICES ASSUME Out # {} PROVE FALSE
  OBVIOUS
<1>1. PICK m \in Out : \A y \in Out : m <= y
  <2>1. Out \in SUBSET Nat
    OBVIOUS
  <2>. HIDE DEF Out
  <2>. QED BY <2>1, MinProperty
<1>2. m \in Nat /\ m # 0 /\ m \notin S
  BY <1>1
<1>3. m - 1 \in Nat /\ m - 1 < m
  BY <1>2
<1>4. m - 1 \in S
  BY <1>1, <1>3
<1>5. (m - 1) + 1 = m
  BY <1>2
<1>. QED BY <1>2, <1>3, <1>4, <1>5

-----------------------------------------------------------------------------
(* RoundRobin: the word-by-word scan of the bitmap and the iteration of the *)
(* ordered set both find the queue round robin should serve, for any word   *)
(* size and any set of eligible queues.                                    *)

(* Words are ordered as the queues in them are.                            *)
LEMMA DivMonotonic ==
  ASSUME NEW x \in Nat, NEW y \in Nat, NEW w \in Nat, w > 0, x <= y
  PROVE  x \div w \in Nat /\ y \div w \in Nat /\ x \div w <= y \div w
BY SMT

(* The first queue of a word lies beyond the words before it.              *)
LEMMA DivSuccessor ==
  ASSUME NEW x \in Nat, NEW w \in Nat, w > 0
  PROVE  (x + 1) \div w <= (x \div w) + 1
BY SMT

(* The bits the first loop looks at are those above `last`. *)
LEMMA FirstScanIsAbove ==
  ASSUME NEW S \in SUBSET Nat, NEW last \in Nat, NEW W \in Nat, W > 0
  PROVE  FirstScan(S, last, W) = {q \in S : q > last}
<1>1. ASSUME NEW q \in S, q > last
      PROVE  q \in FirstScan(S, last, W)
  <2>1. q \div W >= (last + 1) \div W
    BY <1>1, DivMonotonic
  <2>. QED BY <1>1, <2>1 DEF FirstScan
<1>2. ASSUME NEW q \in FirstScan(S, last, W)
      PROVE  q \in S /\ q > last
  <2>1. q \in S /\ q \in Nat /\ q \div W >= (last + 1) \div W
    BY DEF FirstScan
  <2>2. CASE q \div W = last \div W
    BY <2>2 DEF FirstScan
  <2>3. CASE q \div W # last \div W
    <3>1. last \div W <= (last + 1) \div W
      BY DivMonotonic
    <3>2. q \div W \in Nat /\ last \div W \in Nat /\ (last + 1) \div W \in Nat
      BY <2>1, DivMonotonic
    <3>3. ~ (q \div W <= last \div W)
      BY <2>1, <2>3, <3>1, <3>2
    <3>4. ~ (q <= last)
      BY <2>1, <3>3, DivMonotonic
    <3>. QED BY <2>1, <3>4
  <2>. QED BY <2>2, <2>3
<1>. QED BY <1>1, <1>2

(* Nothing lies above `last`: the second loop sees every bit. *)
LEMMA SecondScanIsAll ==
  ASSUME NEW S \in SUBSET Nat, NEW last \in Nat, NEW W \in Nat, W > 0,
         \A q \in S : q <= last
  PROVE  SecondScan(S, last, W) = S
BY DivMonotonic DEF SecondScan

(* DoDequeueRR: the two word loops serve the next queue in cyclic order,   *)
(* whatever the word size and wherever the word boundaries fall.           *)
THEOREM WordScanCorrect ==
  ASSUME NEW S \in SUBSET Nat, NEW last \in Nat, NEW W \in Nat, W > 0
  PROVE  WordScan(S, last, W) = NextAfter(S, last)
<1>1. CASE {q \in S : q > last} # {}
  BY <1>1, FirstScanIsAbove DEF WordScan, NextAfter
<1>2. CASE {q \in S : q > last} = {}
  <2>1. ASSUME NEW q \in S PROVE q <= last
    <3>1. q \in Nat /\ ~ (q > last)
      BY <1>2
    <3>. QED BY <3>1
  <2>2. SecondScan(S, last, W) = S
    BY <2>1, SecondScanIsAll
  <2>3. FirstScan(S, last, W) = {}
    BY <1>2, FirstScanIsAbove
  <2>. QED BY <1>2, <2>2, <2>3 DEF WordScan, NextAfter
<1>. QED BY <1>1, <1>2

(* DoDequeueQCN: the iteration of the set from upper_bound and around      *)
(* serves the same queue.                                                  *)
THEOREM SetScanCorrect ==
  ASSUME NEW S \in SUBSET Nat, NEW last \in Nat
  PROVE  SetScan(S, last) = NextAfter(S, last)
<1>1. CASE {q \in S : q > last} # {}
  BY <1>1 DEF SetScan, NextAfter
<1>2. CASE {q \in S : q > last} = {}
  <2>1. ASSUME NEW q \in S PROVE q <= last
    <3>1. q \in Nat /\ ~ (q > last)
      BY <1>2
    <3>. QED BY <3>1
  <2>2. {q \in S : q <= last} = S
    BY <2>1
  <2>. QED BY <1>2, <2>2 DEF SetScan, NextAfter
<1>. QED BY <1>1, <1>2

(* The queue served is eligible. *)
LEMMA NextAfterMember ==
  ASSUME NEW S \in SUBSET Nat, S # {}, NEW last \in Nat
  PROVE  NextAfter(S, last) \in S
BY MinProperty DEF NextAfter

(* The scan returns a member of the set it scans.                          *)
LEMMA WordScanMember ==
  ASSUME NEW S \in SUBSET Nat, S # {}, NEW last \in Nat, NEW W \in Nat, W > 0
  PROVE  WordScan(S, last, W) \in S
BY NextAfterMember, WordScanCorrect

(* Serving another queue brings the pointer strictly nearer to every       *)
(* eligible queue: none is jumped over.                                    *)
THEOREM NextAfterApproaches ==
  ASSUME NEW n \in Nat, NEW S \in SUBSET (0 .. n - 1), NEW last \in 0 .. n - 1,
         NEW q \in S, NextAfter(S, last) # q
  PROVE  Distance(NextAfter(S, last), q, n) < Distance(last, q, n)
<1>1. PICK c : c = NextAfter(S, last)
  OBVIOUS
<1>2. c # q /\ S \in SUBSET Nat /\ S # {} /\ last \in Nat /\ q \in Nat
  BY <1>1
<1>3. CASE {r \in S : r > last} # {}
  <2>1. {r \in S : r > last} \in SUBSET Nat
    BY <1>2
  <2>2. c \in S /\ c > last /\ \A r \in {r \in S : r > last} : c <= r
    BY <1>1, <1>3, <2>1, MinProperty DEF NextAfter
  <2>3. CASE q > last
    <3>1. c <= q
      BY <2>2, <2>3
    <3>. QED BY <1>1, <1>2, <2>2, <2>3, <3>1 DEF Distance
  <2>4. CASE ~ (q > last)
    BY <1>1, <1>2, <2>2, <2>4 DEF Distance
  <2>. QED BY <2>3, <2>4
<1>4. CASE {r \in S : r > last} = {}
  <2>1. c \in S /\ \A r \in S : c <= r
    BY <1>1, <1>2, <1>4, MinProperty DEF NextAfter
  <2>2. ~ (q > last) /\ c <= q
    BY <1>4, <2>1
  <2>. QED BY <1>1, <1>2, <2>1, <2>2 DEF Distance
<1>. QED BY <1>3, <1>4

-----------------------------------------------------------------------------
(* SumFunctionOnSet is computed by a function on the subsets of S that      *)
(* takes their elements out one by one.                                    *)
Pick(s) == CHOOSE x \in s : TRUE
Adds(f, S, g) ==
  g = [s \in SUBSET S |-> IF s = {} THEN 0 ELSE f[Pick(s)] + g[s \ {Pick(s)}]]

LEMMA SumIsAdds ==
  ASSUME NEW f, NEW S
  PROVE  SumFunctionOnSet(f, S) = (CHOOSE g : Adds(f, S, g))[S]
BY Zenon DEF SumFunctionOnSet, FoldFunctionOnSet, MapThenFoldSet, Adds, Pick

LEMMA PickIn == \A s : s # {} => Pick(s) \in s
BY DEF Pick

LEMMA SmallerSet ==
  ASSUME NEW s, IsFiniteSet(s), s # {}
  PROVE  /\ Cardinality(s) \in Nat \ {0}
         /\ \A x \in s : IsFiniteSet(s \ {x}) /\ Cardinality(s \ {x}) = Cardinality(s) - 1
BY FS_RemoveElement, FS_CardinalityType, FS_EmptySet

(* Subsets of a given size, and the function built up to that size.         *)
UpTo(S, n) == {s \in SUBSET S : Cardinality(s) <= n}

LEMMA AddsExists ==
  ASSUME NEW f, NEW S, IsFiniteSet(S)
  PROVE  \E g : Adds(f, S, g)
<1> DEFINE Eq(g, n) == /\ DOMAIN g = UpTo(S, n)
                       /\ \A s \in UpTo(S, n) :
                            g[s] = IF s = {} THEN 0 ELSE f[Pick(s)] + g[s \ {Pick(s)}]
           Good == {n \in Nat : \E g : Eq(g, n)}
<1>1. ASSUME NEW s \in SUBSET S
      PROVE  /\ IsFiniteSet(s) /\ Cardinality(s) \in Nat /\ Cardinality(s) <= Cardinality(S)
             /\ Cardinality(s) = 0 <=> s = {}
  BY FS_Subset, FS_CardinalityType, FS_EmptySet
<1>2. 0 \in Good
  <2> DEFINE g == [s \in UpTo(S, 0) |-> 0]
  <2>1. \A s \in UpTo(S, 0) : s = {}
    BY <1>1 DEF UpTo
  <2>2. Eq(g, 0)
    BY <2>1
  <2>. HIDE DEF Eq
  <2>. QED BY <2>2
<1>3. ASSUME NEW n \in Nat, n \in Good
      PROVE  n + 1 \in Good
  <2>1. PICK g : Eq(g, n)
    BY <1>3
  <2> DEFINE h == [s \in UpTo(S, n + 1) |->
                     IF s \in UpTo(S, n) THEN g[s]
                     ELSE f[Pick(s)] + g[s \ {Pick(s)}]]
  <2>2. UpTo(S, n) \subseteq UpTo(S, n + 1)
    BY <1>1 DEF UpTo
  <2>3. ASSUME NEW s \in UpTo(S, n + 1), s # {}
        PROVE  s \ {Pick(s)} \in UpTo(S, n)
    <3>1. s \in SUBSET S /\ Cardinality(s) <= n + 1
      BY DEF UpTo
    <3>2. Cardinality(s \ {Pick(s)}) = Cardinality(s) - 1 /\ Cardinality(s) \in Nat
      BY <3>1, <1>1, <2>3, PickIn, SmallerSet
    <3>. QED BY <3>1, <3>2 DEF UpTo
  <2>4. {} \in UpTo(S, n)
    BY FS_EmptySet DEF UpTo
  <2>5. ASSUME NEW s \in UpTo(S, n + 1)
        PROVE  h[s] = IF s = {} THEN 0 ELSE f[Pick(s)] + h[s \ {Pick(s)}]
    <3>1. CASE s = {}
      BY <3>1, <2>1, <2>2, <2>4
    <3>2. CASE s # {} /\ s \in UpTo(S, n)
      <4>1. h[s] = g[s] /\ h[s \ {Pick(s)}] = g[s \ {Pick(s)}]
        BY <3>2, <2>2, <2>3
      <4>2. g[s] = f[Pick(s)] + g[s \ {Pick(s)}]
        BY <3>2, <2>1
      <4>. QED BY <3>2, <4>1, <4>2
    <3>3. CASE s # {} /\ s \notin UpTo(S, n)
      <4>1. h[s] = f[Pick(s)] + g[s \ {Pick(s)}]
        BY <3>3
      <4>2. h[s \ {Pick(s)}] = g[s \ {Pick(s)}]
        BY <3>3, <2>2, <2>3
      <4>. QED BY <3>3, <4>1, <4>2
    <3>. QED BY <3>1, <3>2, <3>3
  <2>6. Eq(h, n + 1)
    BY <2>5
  <2>. HIDE DEF Eq
  <2>. QED BY <2>6
<1>4. Cardinality(S) \in Good
  <2>. HIDE DEF Good
  <2>1. Nat \subseteq Good
    BY <1>2, <1>3, Induction
  <2>. QED BY <2>1, FS_CardinalityType
<1>5. PICK g : Eq(g, Cardinality(S))
  BY <1>4
<1>6. UpTo(S, Cardinality(S)) = SUBSET S
  BY <1>1 DEF UpTo
<1> DEFINE k == [s \in SUBSET S |-> g[s]]
<1>7. ASSUME NEW s \in SUBSET S
      PROVE  k[s] = IF s = {} THEN 0 ELSE f[Pick(s)] + k[s \ {Pick(s)}]
  <2>1. s \ {Pick(s)} \in SUBSET S
    OBVIOUS
  <2>2. k[s] = g[s] /\ k[s \ {Pick(s)}] = g[s \ {Pick(s)}]
    BY <2>1
  <2>3. g[s] = IF s = {} THEN 0 ELSE f[Pick(s)] + g[s \ {Pick(s)}]
    BY <1>5, <1>6
  <2>. QED BY <2>2, <2>3
<1>8. k = [s \in SUBSET S |-> IF s = {} THEN 0 ELSE f[Pick(s)] + k[s \ {Pick(s)}]]
  <2>. DEFINE z == [s \in SUBSET S |-> IF s = {} THEN 0 ELSE f[Pick(s)] + k[s \ {Pick(s)}]]
  <2>1. DOMAIN k = SUBSET S /\ DOMAIN z = SUBSET S
    OBVIOUS
  <2>2. \A s \in SUBSET S : z[s] = k[s]
    <3>. HIDE DEF k
    <3>. QED BY <1>7
  <2>. QED BY <2>1, <2>2
<1>. QED BY <1>8, Zenon DEF Adds

(* The function does not depend on the set it was built for ...             *)
LEMMA AddsAgree ==
  ASSUME NEW f, NEW g, NEW S, NEW h, NEW T, NEW k, IsFiniteSet(S), T \subseteq S,
         Adds(f, S, h), Adds(g, T, k), \A x \in T : f[x] = g[x]
  PROVE  h[T] = k[T]
<1> DEFINE Good == {n \in Nat : \A s \in SUBSET T : Cardinality(s) = n => h[s] = k[s]}
<1>1. ASSUME NEW s \in SUBSET T
      PROVE  /\ IsFiniteSet(s) /\ Cardinality(s) \in Nat
             /\ Cardinality(s) = 0 <=> s = {}
             /\ h[s] = IF s = {} THEN 0 ELSE f[Pick(s)] + h[s \ {Pick(s)}]
             /\ k[s] = IF s = {} THEN 0 ELSE g[Pick(s)] + k[s \ {Pick(s)}]
  <2>1. IsFiniteSet(s) /\ Cardinality(s) \in Nat /\ (Cardinality(s) = 0 <=> s = {})
    BY FS_Subset, FS_CardinalityType, FS_EmptySet
  <2>2. h[s] = IF s = {} THEN 0 ELSE f[Pick(s)] + h[s \ {Pick(s)}]
    BY DEF Adds
  <2>3. k[s] = IF s = {} THEN 0 ELSE g[Pick(s)] + k[s \ {Pick(s)}]
    BY DEF Adds
  <2>. QED BY <2>1, <2>2, <2>3
<1>2. 0 \in Good
  BY <1>1
<1>3. ASSUME NEW n \in Nat, n \in Good
      PROVE  n + 1 \in Good
  <2>. SUFFICES ASSUME NEW s \in SUBSET T, Cardinality(s) = n + 1
                PROVE  h[s] = k[s]
    OBVIOUS
  <2>1. s # {} /\ IsFiniteSet(s)
    <3>1. Cardinality(s) # 0
      OBVIOUS
    <3>. QED BY <3>1, <1>1
  <2>2. s \ {Pick(s)} \in SUBSET T /\ Pick(s) \in T
    BY <2>1, PickIn
  <2>3. Cardinality(s \ {Pick(s)}) = n
    BY <2>1, PickIn, SmallerSet
  <2>4. h[s \ {Pick(s)}] = k[s \ {Pick(s)}]
    BY <1>3, <2>2, <2>3
  <2>. QED BY <1>1, <2>1, <2>2, <2>4
<1>4. Cardinality(T) \in Good
  <2>1. Nat \subseteq Good
    <3>. HIDE DEF Good
    <3>. QED BY <1>2, <1>3, Induction
  <2>2. Cardinality(T) \in Nat
    BY <1>1
  <2>. QED BY <2>1, <2>2
<1>. QED BY <1>4

(* ... nor on the order in which it takes the elements.                     *)
LEMMA AddsAnyOrder ==
  ASSUME NEW f, NEW S, NEW g, IsFiniteSet(S), Adds(f, S, g), \A x \in S : f[x] \in Int
  PROVE  \A s \in SUBSET S : g[s] \in Int /\ \A x \in s : g[s] = f[x] + g[s \ {x}]
<1> DEFINE P(s) == g[s] \in Int /\ \A x \in s : g[s] = f[x] + g[s \ {x}]
           Good == {n \in Nat : \A s \in SUBSET S : Cardinality(s) <= n => P(s)}
<1>1. ASSUME NEW s \in SUBSET S
      PROVE  /\ IsFiniteSet(s) /\ Cardinality(s) \in Nat
             /\ Cardinality(s) = 0 <=> s = {}
             /\ g[s] = IF s = {} THEN 0 ELSE f[Pick(s)] + g[s \ {Pick(s)}]
  <2>1. IsFiniteSet(s) /\ Cardinality(s) \in Nat /\ (Cardinality(s) = 0 <=> s = {})
    BY FS_Subset, FS_CardinalityType, FS_EmptySet
  <2>2. g[s] = IF s = {} THEN 0 ELSE f[Pick(s)] + g[s \ {Pick(s)}]
    BY DEF Adds
  <2>. QED BY <2>1, <2>2
<1>2. P({})
  <2>1. {} \in SUBSET S
    OBVIOUS
  <2>2. g[{}] = 0
    BY <2>1, <1>1
  <2>. QED BY <2>2
<1>3. ASSUME NEW s \in SUBSET S, s # {}, \A t \in SUBSET s : t # s => P(t)
      PROVE  P(s)
  <2> DEFINE c == Pick(s)
  <2>1. c \in s /\ g[s] = f[c] + g[s \ {c}]
    BY <1>1, <1>3, PickIn
  <2>. HIDE DEF c
  <2>2. ASSUME NEW x \in s
        PROVE  /\ f[x] \in Int /\ g[s \ {x}] \in Int
               /\ \A y \in s \ {x} : g[s \ {x}] = f[y] + g[(s \ {x}) \ {y}]
    <3>1. s \ {x} \in SUBSET s /\ s \ {x} # s
      OBVIOUS
    <3>2. P(s \ {x})
      <4>. HIDE DEF P
      <4>. QED BY <3>1, <1>3
    <3>. QED BY <3>2
  <2>3. g[s] \in Int
    <3>1. f[c] \in Int /\ g[s \ {c}] \in Int
      BY <2>1, <2>2
    <3>. QED BY <3>1, <2>1
  <2>4. ASSUME NEW x \in s, x # c
        PROVE  g[s] = f[x] + g[s \ {x}]
    <3>1. g[s \ {c}] = f[x] + g[(s \ {c}) \ {x}]
      BY <2>1, <2>2, <2>4
    <3>2. g[s \ {x}] = f[c] + g[(s \ {x}) \ {c}]
      BY <2>1, <2>2, <2>4
    <3>3. (s \ {c}) \ {x} = (s \ {x}) \ {c}
      OBVIOUS
    <3>4. g[(s \ {c}) \ {x}] \in Int
      <4>1. (s \ {c}) \ {x} \in SUBSET s /\ (s \ {c}) \ {x} # s
        BY <2>1
      <4>2. P((s \ {c}) \ {x})
        <5>. HIDE DEF P
        <5>. QED BY <4>1, <1>3
      <4>. QED BY <4>2
    <3>5. f[x] \in Int /\ f[c] \in Int
      BY <2>1, <2>2
    <3>6. g[s \ {x}] = f[c] + g[(s \ {c}) \ {x}]
      BY <3>2, <3>3
    <3>7. \A i, j, k \in Int : i + (j + k) = j + (i + k)
      OBVIOUS
    <3>8. f[c] + (f[x] + g[(s \ {c}) \ {x}]) = f[x] + (f[c] + g[(s \ {c}) \ {x}])
      BY <3>4, <3>5, <3>7
    <3>. QED BY <3>1, <3>6, <3>8, <2>1
  <2>. QED BY <2>1, <2>3, <2>4
<1>. HIDE DEF P
<1>4. 0 \in Good
  <2>1. ASSUME NEW s \in SUBSET S, Cardinality(s) <= 0 PROVE s = {}
    <3>1. Cardinality(s) \in Nat
      BY <1>1
    <3>2. Cardinality(s) = 0
      BY <3>1, <2>1
    <3>. QED BY <3>2, <1>1
  <2>. QED BY <2>1, <1>2
<1>5. ASSUME NEW n \in Nat, n \in Good
      PROVE  n + 1 \in Good
  <2>1. ASSUME NEW s \in SUBSET S, Cardinality(s) <= n + 1, s # {}
        PROVE  P(s)
    <3>1. ASSUME NEW t \in SUBSET s, t # s PROVE P(t)
      <4>1. IsFiniteSet(s) /\ Cardinality(s) \in Nat /\ t \in SUBSET S /\ Cardinality(t) \in Nat
        BY <1>1
      <4>2. Cardinality(t) <= Cardinality(s) /\ Cardinality(t) # Cardinality(s)
        BY <4>1, <3>1, FS_Subset
      <4>3. Cardinality(t) <= n
        BY <4>1, <4>2, <2>1
      <4>. QED BY <4>1, <4>3, <1>5
    <3>. QED BY <2>1, <3>1, <1>3
  <2>. QED BY <2>1, <1>2
<1>6. Nat \subseteq Good
  <2>. HIDE DEF Good
  <2>. QED BY <1>4, <1>5, Induction
<1>7. ASSUME NEW s \in SUBSET S PROVE P(s)
  <2>1. Cardinality(s) \in Nat
    BY <1>1
  <2>2. Cardinality(s) \in Good /\ Cardinality(s) <= Cardinality(s)
    <3>. HIDE DEF Good
    <3>. QED BY <2>1, <1>6
  <2>. QED BY <2>2
<1>. QED BY <1>7 DEF P

-----------------------------------------------------------------------------
(* Sums of integers over finite sets.                                       *)
Summable(f, S) == IsFiniteSet(S) /\ \A x \in S : f[x] \in Int

LEMMA SumAdds ==
  ASSUME NEW f, NEW S, IsFiniteSet(S)
  PROVE  \E g : Adds(f, S, g) /\ SumFunctionOnSet(f, S) = g[S]
BY AddsExists, SumIsAdds

(* Only the values at the indices count.                                    *)
LEMMA SumAgrees ==
  ASSUME NEW f, NEW g, NEW S, IsFiniteSet(S), \A x \in S : f[x] = g[x]
  PROVE  SumFunctionOnSet(f, S) = SumFunctionOnSet(g, S)
<1>1. PICK h : Adds(f, S, h) /\ SumFunctionOnSet(f, S) = h[S]
  BY SumAdds
<1>2. PICK k : Adds(g, S, k) /\ SumFunctionOnSet(g, S) = k[S]
  BY SumAdds
<1>. QED BY <1>1, <1>2, AddsAgree

LEMMA SumEmpty == ASSUME NEW f PROVE SumFunctionOnSet(f, {}) = 0
<1>1. PICK h : Adds(f, {}, h) /\ SumFunctionOnSet(f, {}) = h[{}]
  BY SumAdds, FS_EmptySet
<1>2. {} \in SUBSET {}
  OBVIOUS
<1>. QED BY <1>1, <1>2 DEF Adds

(* A sum is an integer, and any element may be taken out of it.             *)
LEMMA SumTakeOut ==
  ASSUME NEW f, NEW S, Summable(f, S)
  PROVE  /\ SumFunctionOnSet(f, S) \in Int
         /\ \A x \in S : /\ SumFunctionOnSet(f, S \ {x}) \in Int
                         /\ SumFunctionOnSet(f, S) = f[x] + SumFunctionOnSet(f, S \ {x})
<1>1. PICK h : Adds(f, S, h) /\ SumFunctionOnSet(f, S) = h[S]
  BY SumAdds DEF Summable
<1>2. \A s \in SUBSET S : h[s] \in Int /\ \A x \in s : h[s] = f[x] + h[s \ {x}]
  BY <1>1, AddsAnyOrder DEF Summable
<1>3. SumFunctionOnSet(f, S) \in Int
  BY <1>1, <1>2
<1>4. ASSUME NEW x \in S
      PROVE  SumFunctionOnSet(f, S \ {x}) = h[S \ {x}]
  <2>1. IsFiniteSet(S) /\ IsFiniteSet(S \ {x})
    BY FS_Subset DEF Summable
  <2>2. PICK k : Adds(f, S \ {x}, k) /\ SumFunctionOnSet(f, S \ {x}) = k[S \ {x}]
    BY <2>1, SumAdds
  <2>3. S \ {x} \subseteq S
    OBVIOUS
  <2>. QED BY <1>1, <2>1, <2>2, <2>3, AddsAgree
<1>5. ASSUME NEW x \in S
      PROVE  /\ SumFunctionOnSet(f, S \ {x}) \in Int
             /\ SumFunctionOnSet(f, S) = f[x] + SumFunctionOnSet(f, S \ {x})
  <2>1. S \in SUBSET S /\ S \ {x} \in SUBSET S
    OBVIOUS
  <2>2. h[S \ {x}] \in Int /\ h[S] = f[x] + h[S \ {x}]
    BY <2>1, <1>2
  <2>. QED BY <2>2, <1>1, <1>4
<1>. QED BY <1>3, <1>5

(* A sum of naturals is one, and at least each of its terms.                *)
LEMMA SumOfNaturals ==
  ASSUME NEW f, NEW S, IsFiniteSet(S), \A x \in S : f[x] \in Nat
  PROVE  /\ SumFunctionOnSet(f, S) \in Nat
         /\ \A x \in S : f[x] <= SumFunctionOnSet(f, S)
<1> DEFINE Good == {n \in Nat : \A s \in SUBSET S :
                      Cardinality(s) = n => SumFunctionOnSet(f, s) \in Nat}
<1>1. ASSUME NEW s \in SUBSET S
      PROVE  /\ IsFiniteSet(s) /\ Cardinality(s) \in Nat /\ (Cardinality(s) = 0 <=> s = {})
             /\ Summable(f, s)
  <2>1. IsFiniteSet(s) /\ Cardinality(s) \in Nat /\ (Cardinality(s) = 0 <=> s = {})
    BY FS_Subset, FS_CardinalityType, FS_EmptySet
  <2>. QED BY <2>1 DEF Summable
<1>2. 0 \in Good
  BY <1>1, SumEmpty
<1>3. ASSUME NEW n \in Nat, n \in Good
      PROVE  n + 1 \in Good
  <2>1. ASSUME NEW s \in SUBSET S, Cardinality(s) = n + 1
        PROVE  SumFunctionOnSet(f, s) \in Nat
    <3>1. s # {}
      <4>1. Cardinality(s) # 0
        BY <2>1
      <4>. QED BY <4>1, <1>1
    <3>2. PICK x \in s : TRUE
      BY <3>1
    <3>3. s \ {x} \in SUBSET S /\ Cardinality(s \ {x}) = n
      BY <3>1, <1>1, <2>1, SmallerSet
    <3>4. SumFunctionOnSet(f, s \ {x}) \in Nat
      BY <1>3, <3>3
    <3>5. SumFunctionOnSet(f, s) = f[x] + SumFunctionOnSet(f, s \ {x})
      BY <1>1, SumTakeOut
    <3>. QED BY <3>4, <3>5
  <2>. QED BY <2>1
<1>4. Nat \subseteq Good
  <2>. HIDE DEF Good
  <2>. QED BY <1>2, <1>3, Induction
<1>5. ASSUME NEW s \in SUBSET S PROVE SumFunctionOnSet(f, s) \in Nat
  <2>1. Cardinality(s) \in Good
    <3>. HIDE DEF Good
    <3>. QED BY <1>1, <1>4
  <2>. QED BY <2>1
<1>6. ASSUME NEW x \in S PROVE f[x] <= SumFunctionOnSet(f, S)
  <2>1. SumFunctionOnSet(f, S) = f[x] + SumFunctionOnSet(f, S \ {x})
    BY <1>1, SumTakeOut
  <2>2. SumFunctionOnSet(f, S \ {x}) \in Nat /\ f[x] \in Nat
    BY <1>5
  <2>. QED BY <2>1, <2>2
<1>. QED BY <1>5, <1>6

(* One value changed.                                                       *)
LEMMA SumChanged ==
  ASSUME NEW f, NEW g, NEW S, Summable(f, S), Summable(g, S), NEW x \in S,
         \A y \in S \ {x} : g[y] = f[y]
  PROVE  SumFunctionOnSet(g, S) = SumFunctionOnSet(f, S) + (g[x] - f[x])
<1>1. IsFiniteSet(S \ {x})
  BY FS_Subset DEF Summable
<1>2. SumFunctionOnSet(g, S \ {x}) = SumFunctionOnSet(f, S \ {x})
  BY <1>1, SumAgrees
<1>3. /\ SumFunctionOnSet(f, S \ {x}) \in Int
      /\ SumFunctionOnSet(f, S) = f[x] + SumFunctionOnSet(f, S \ {x})
      /\ SumFunctionOnSet(g, S) = g[x] + SumFunctionOnSet(g, S \ {x})
  BY SumTakeOut
<1>4. f[x] \in Int /\ g[x] \in Int
  BY DEF Summable
<1>. QED BY <1>2, <1>3, <1>4

LEMMA SumOfZeros ==
  ASSUME NEW f, NEW S, IsFiniteSet(S), \A x \in S : f[x] = 0
  PROVE  SumFunctionOnSet(f, S) = 0
<1> DEFINE Good == {n \in Nat : \A s \in SUBSET S :
                      Cardinality(s) = n => SumFunctionOnSet(f, s) = 0}
<1>1. ASSUME NEW s \in SUBSET S
      PROVE  /\ IsFiniteSet(s) /\ Cardinality(s) \in Nat /\ (Cardinality(s) = 0 <=> s = {})
             /\ Summable(f, s)
  <2>1. IsFiniteSet(s) /\ Cardinality(s) \in Nat /\ (Cardinality(s) = 0 <=> s = {})
    BY FS_Subset, FS_CardinalityType, FS_EmptySet
  <2>. QED BY <2>1 DEF Summable
<1>2. 0 \in Good
  BY <1>1, SumEmpty
<1>3. ASSUME NEW n \in Nat, n \in Good
      PROVE  n + 1 \in Good
  <2>1. ASSUME NEW s \in SUBSET S, Cardinality(s) = n + 1
        PROVE  SumFunctionOnSet(f, s) = 0
    <3>1. s # {}
      <4>1. Cardinality(s) # 0
        BY <2>1
      <4>. QED BY <4>1, <1>1
    <3>2. PICK x \in s : TRUE
      BY <3>1
    <3>3. s \ {x} \in SUBSET S /\ Cardinality(s \ {x}) = n
      BY <3>1, <1>1, <2>1, SmallerSet
    <3>4. SumFunctionOnSet(f, s \ {x}) = 0
      BY <1>3, <3>3
    <3>5. SumFunctionOnSet(f, s) = f[x] + SumFunctionOnSet(f, s \ {x})
      BY <1>1, SumTakeOut
    <3>. QED BY <3>4, <3>5
  <2>. QED BY <2>1
<1>4. Nat \subseteq Good
  <2>. HIDE DEF Good
  <2>. QED BY <1>2, <1>3, Induction
<1>5. Cardinality(S) \in Good
  <2>. HIDE DEF Good
  <2>. QED BY <1>1, <1>4
<1>. QED BY <1>5

(* The sum of fewer, smaller terms, each counted at most m times, is at     *)
(* most m times the sum.                                                   *)
LEMMA SumAtMost ==
  ASSUME NEW f, NEW S, NEW g, NEW T, NEW m \in Nat, IsFiniteSet(T), S \subseteq T,
         \A x \in S : f[x] \in Nat /\ f[x] <= m * g[x], \A x \in T : g[x] \in Nat
  PROVE  SumFunctionOnSet(f, S) <= m * SumFunctionOnSet(g, T)
<1> DEFINE P(t) == \A s \in SUBSET t : s \subseteq S =>
                     SumFunctionOnSet(f, s) <= m * SumFunctionOnSet(g, t)
           Good == {n \in Nat : \A t \in SUBSET T : Cardinality(t) = n => P(t)}
<1>1. ASSUME NEW t \in SUBSET T
      PROVE  /\ IsFiniteSet(t) /\ Cardinality(t) \in Nat /\ (Cardinality(t) = 0 <=> t = {})
             /\ Summable(g, t) /\ SumFunctionOnSet(g, t) \in Nat
  <2>1. IsFiniteSet(t) /\ Cardinality(t) \in Nat /\ (Cardinality(t) = 0 <=> t = {})
    BY FS_Subset, FS_CardinalityType, FS_EmptySet
  <2>. QED BY <2>1, SumOfNaturals DEF Summable
<1>2. ASSUME NEW s \in SUBSET T, s \subseteq S
      PROVE  Summable(f, s) /\ SumFunctionOnSet(f, s) \in Nat
  <2>1. IsFiniteSet(s)
    BY <1>1
  <2>. QED BY <1>2, <2>1, SumOfNaturals DEF Summable
<1>3. P({})
  <2>1. ASSUME NEW s \in SUBSET {} PROVE SumFunctionOnSet(f, s) = 0
    <3>1. s = {}
      OBVIOUS
    <3>. QED BY <3>1, SumEmpty
  <2>2. SumFunctionOnSet(g, {}) = 0
    BY SumEmpty
  <2>. QED BY <2>1, <2>2
<1>4. ASSUME NEW t \in SUBSET T, NEW x \in t, P(t \ {x})
      PROVE  P(t)
  <2>. SUFFICES ASSUME NEW s \in SUBSET t, s \subseteq S
                PROVE  SumFunctionOnSet(f, s) <= m * SumFunctionOnSet(g, t)
    OBVIOUS
  <2>1. /\ SumFunctionOnSet(g, t) = g[x] + SumFunctionOnSet(g, t \ {x})
        /\ g[x] \in Nat /\ SumFunctionOnSet(g, t \ {x}) \in Nat
    <3>1. t \ {x} \in SUBSET T /\ g[x] \in Nat
      OBVIOUS
    <3>2. SumFunctionOnSet(g, t) = g[x] + SumFunctionOnSet(g, t \ {x})
      BY <1>1, SumTakeOut
    <3>. QED BY <3>1, <3>2, <1>1
  <2>2. /\ SumFunctionOnSet(f, s \ {x}) <= m * SumFunctionOnSet(g, t \ {x})
        /\ SumFunctionOnSet(f, s \ {x}) \in Nat
    <3>1. s \ {x} \in SUBSET (t \ {x}) /\ s \ {x} \subseteq S /\ s \ {x} \in SUBSET T
      OBVIOUS
    <3>. QED BY <3>1, <1>2, <1>4
  <2>3. \A u, v \in Nat : m * u \in Nat /\ m * v \in Nat /\ m * (u + v) = m * u + m * v
    OBVIOUS
  <2>4. /\ m * g[x] \in Nat /\ m * SumFunctionOnSet(g, t \ {x}) \in Nat
        /\ m * SumFunctionOnSet(g, t) = m * g[x] + m * SumFunctionOnSet(g, t \ {x})
    BY <2>1, <2>3
  <2>5. CASE x \in s
    <3>1. SumFunctionOnSet(f, s) = f[x] + SumFunctionOnSet(f, s \ {x})
      BY <2>5, <1>2, SumTakeOut
    <3>2. f[x] \in Nat /\ f[x] <= m * g[x]
      BY <2>5
    <3>3. \A a, b, c, d \in Nat : a <= c /\ b <= d => a + b <= c + d
      OBVIOUS
    <3>4. f[x] + SumFunctionOnSet(f, s \ {x}) <= m * g[x] + m * SumFunctionOnSet(g, t \ {x})
      BY <2>2, <2>4, <3>2, <3>3
    <3>. QED BY <2>4, <3>1, <3>4
  <2>6. CASE x \notin s
    <3>1. s \ {x} = s
      BY <2>6
    <3>2. \A a, b, c \in Nat : a <= b => a <= c + b
      OBVIOUS
    <3>. QED BY <2>2, <2>4, <3>1, <3>2
  <2>. QED BY <2>5, <2>6
<1>. HIDE DEF P
<1>5. 0 \in Good
  BY <1>1, <1>3
<1>6. ASSUME NEW n \in Nat, n \in Good
      PROVE  n + 1 \in Good
  <2>1. ASSUME NEW t \in SUBSET T, Cardinality(t) = n + 1
        PROVE  P(t)
    <3>1. t # {}
      <4>1. Cardinality(t) # 0
        BY <2>1
      <4>. QED BY <4>1, <1>1
    <3>2. PICK x \in t : TRUE
      BY <3>1
    <3>3. t \ {x} \in SUBSET T /\ Cardinality(t \ {x}) = n
      BY <3>1, <1>1, <2>1, SmallerSet
    <3>. QED BY <3>2, <3>3, <1>4, <1>6
  <2>. QED BY <2>1
<1>7. Nat \subseteq Good
  <2>. HIDE DEF Good
  <2>. QED BY <1>5, <1>6, Induction
<1>8. P(T)
  <2>1. Cardinality(T) \in Good
    <3>. HIDE DEF Good
    <3>. QED BY <1>1, <1>7
  <2>. QED BY <2>1
<1>. QED BY <1>8 DEF P

-----------------------------------------------------------------------------
(* Sums along a sequence: one value more at the end ...                     *)
LEMMA SumAppended ==
  ASSUME NEW n \in Nat, NEW f, NEW g, \A j \in 1 .. n : g[j] = f[j] /\ f[j] \in Int,
         g[n + 1] \in Int
  PROVE  /\ SumFunctionOnSet(f, 1 .. n) \in Int
         /\ SumFunctionOnSet(g, 1 .. n + 1) = SumFunctionOnSet(f, 1 .. n) + g[n + 1]
<1>1. IsFiniteSet(1 .. n) /\ IsFiniteSet(1 .. n + 1)
  BY FS_Interval
<1>2. Summable(f, 1 .. n) /\ Summable(g, 1 .. n + 1)
  BY <1>1 DEF Summable
<1>3. n + 1 \in 1 .. n + 1 /\ (1 .. n + 1) \ {n + 1} = 1 .. n
  OBVIOUS
<1>4. SumFunctionOnSet(g, 1 .. n + 1) = g[n + 1] + SumFunctionOnSet(g, 1 .. n)
  BY <1>2, <1>3, SumTakeOut
<1>5. SumFunctionOnSet(g, 1 .. n) = SumFunctionOnSet(f, 1 .. n)
  BY <1>1, SumAgrees
<1>6. SumFunctionOnSet(f, 1 .. n) \in Int
  BY <1>2, SumTakeOut
<1>. QED BY <1>4, <1>5, <1>6

(* ... and one less at the front.                                           *)
LEMMA SumShifted ==
  ASSUME NEW n \in Nat, NEW f, NEW g, \A j \in 1 .. n : g[j] = f[j + 1],
         \A j \in 1 .. n + 1 : f[j] \in Int
  PROVE  /\ SumFunctionOnSet(g, 1 .. n) \in Int
         /\ SumFunctionOnSet(f, 1 .. n + 1) = f[1] + SumFunctionOnSet(g, 1 .. n)
<1> DEFINE P(m) == /\ SumFunctionOnSet(g, 1 .. m) \in Int
                   /\ SumFunctionOnSet(f, 1 .. m + 1) = f[1] + SumFunctionOnSet(g, 1 .. m)
           Good == {m \in Nat : m <= n => P(m)}
<1>1. P(0)
  <2>1. 1 .. 0 = {} /\ 1 .. 0 + 1 = {1}
    OBVIOUS
  <2>2. Summable(f, {1}) /\ 1 \in {1} /\ {1} \ {1} = {}
    <3>1. f[1] \in Int
      OBVIOUS
    <3>. QED BY <3>1, FS_Singleton DEF Summable
  <2>3. SumFunctionOnSet(f, {1}) = f[1] + SumFunctionOnSet(f, {})
    BY <2>2, SumTakeOut
  <2>. QED BY <2>1, <2>3, SumEmpty
<1>2. ASSUME NEW m \in Nat, m \in Good
      PROVE  m + 1 \in Good
  <2>. SUFFICES ASSUME m + 1 <= n PROVE P(m + 1)
    OBVIOUS
  <2>1. P(m)
    BY <1>2
  <2>2. SumFunctionOnSet(g, 1 .. m + 1) = SumFunctionOnSet(g, 1 .. m) + g[m + 1]
    <3>1. \A j \in 1 .. m + 1 : j \in 1 .. n /\ g[j] = f[j + 1] /\ f[j + 1] \in Int
      OBVIOUS
    <3>2. g[m + 1] \in Int /\ \A j \in 1 .. m : g[j] = g[j] /\ g[j] \in Int
      BY <3>1
    <3>. QED BY <3>2, SumAppended
  <2>3. SumFunctionOnSet(f, 1 .. (m + 1) + 1) = SumFunctionOnSet(f, 1 .. m + 1) + f[(m + 1) + 1]
    <3>1. f[(m + 1) + 1] \in Int /\ \A j \in 1 .. m + 1 : f[j] = f[j] /\ f[j] \in Int
      OBVIOUS
    <3>. QED BY <3>1, SumAppended
  <2>4. g[m + 1] = f[(m + 1) + 1] /\ f[(m + 1) + 1] \in Int /\ f[1] \in Int
    OBVIOUS
  <2>. QED BY <2>1, <2>2, <2>3, <2>4
<1>3. 0 \in Good
  BY <1>1
<1>. HIDE DEF P
<1>4. Nat \subseteq Good
  <2>. HIDE DEF Good
  <2>. QED BY <1>2, <1>3, Induction
<1>5. P(n)
  BY <1>4
<1>. QED BY <1>5 DEF P

LEMMA SumOfOnes ==
  ASSUME NEW n \in Nat, NEW f, \A j \in 1 .. n : f[j] = 1
  PROVE  SumFunctionOnSet(f, 1 .. n) = n
<1> DEFINE Good == {m \in Nat : m <= n => SumFunctionOnSet(f, 1 .. m) = m}
<1>1. 0 \in Good
  <2>1. 1 .. 0 = {}
    OBVIOUS
  <2>. QED BY <2>1, SumEmpty
<1>2. ASSUME NEW m \in Nat, m \in Good
      PROVE  m + 1 \in Good
  <2>. SUFFICES ASSUME m + 1 <= n PROVE SumFunctionOnSet(f, 1 .. m + 1) = m + 1
    OBVIOUS
  <2>1. f[m + 1] = 1 /\ \A j \in 1 .. m : f[j] = f[j] /\ f[j] \in Int
    OBVIOUS
  <2>2. SumFunctionOnSet(f, 1 .. m + 1) = SumFunctionOnSet(f, 1 .. m) + f[m + 1]
    BY <2>1, SumAppended
  <2>3. SumFunctionOnSet(f, 1 .. m) = m
    BY <1>2
  <2>. QED BY <2>1, <2>2, <2>3
<1>3. Nat \subseteq Good
  <2>. HIDE DEF Good
  <2>. QED BY <1>1, <1>2, Induction
<1>4. n \in Good
  <2>. HIDE DEF Good
  <2>. QED BY <1>3
<1>. QED BY <1>4
=============================================================================
