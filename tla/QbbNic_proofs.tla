---------------------------- MODULE QbbNic_proofs ----------------------------
(* Theorems about QbbNic.  The invariant rests on one observation: a queue  *)
(* of the active set always holds the newest packet of the flow that owns   *)
(* it, and that packet has never been on the link.  Two more invariants are  *)
(* built on top of it: NoneLost, for what is in transit while nothing has    *)
(* been lost, and Covered, for what can be sent again when something has.    *)
EXTENDS QbbNic, CommonLemmas, FiniteSetTheorems, SequenceTheorems, TLAPS

-----------------------------------------------------------------------------
(* The inductive invariant *)

Of(f, t) == t # Idle /\ t.flow = f

PortTyped(q, act, c) ==
  q \in [Queues -> Seq(Packet)] /\ act \in SUBSET Queues /\ c \in [Queues -> Nat]

FlowsTyped(s, o, b, w, g) ==
  /\ s \in [Flow -> Nat] /\ \A f \in Flow : s[f] =< Packets[f]
  /\ o \in [Flow -> Queues \cup {None}]
  /\ \A f, h \in Flow : f # h /\ o[f] # None => o[f] # o[h]
  /\ b \in [Queues -> Seq(Nat)]
  /\ w \in [Flow -> Seq(Nat)]
  /\ g \in [Flow -> Nat]

PortTypedNow ==
  PortTyped(queue, active, cur) /\ rrlast \in Queues \cup {0} /\ tx \in Packet \cup {Idle}

FlowsTypedNow == FlowsTyped(sent, owner, buf, wire, got)

Allocation == QueuesConserved /\ owner \in [Flow -> Queues \cup {None}] /\ free \in Seq(Queues)

OthersTyped ==
  /\ conf \in Configs
  /\ acked \in [Queues -> Nat] /\ lastseq \in [Queues -> Nat] /\ ended \in [Queues -> BOOLEAN]
  /\ paused \in SUBSET Queues
  /\ key \in [Flow -> Keys \cup {None}]
  /\ entry \in [Keys -> [expected : Nat, milestone : Nat, lastNack : Int]]
  /\ answers \in [Flow -> Seq(Answer)]
  /\ lost \in 0 .. MaxLoss

(* Flow f has an active queue, q, with buffer b, and n packets sent; t is   *)
(* the packet being transmitted, w the flow's packets under way, g received.*)
Fresh(f, n, q, b, t, w, g) ==
  /\ q # <<>> /\ b # <<>>
  /\ \A j \in 1 .. Len(q) : q[j].flow = f
  /\ \A j \in 1 .. Len(q) - 1 : q[j].seq < n - 1
  /\ q[Len(q)].seq = n - 1
  /\ Of(f, t) => t.seq < n - 1
  /\ \A j \in 1 .. Len(w) : w[j] < n - 1
  /\ g < n

(* The last packet of a flow is the last one to travel.                     *)
LastTravelsLast(f, t, w, g) ==
  /\ \A j \in 1 .. Len(w) : w[j] = Packets[f] - 1 => j = Len(w) /\ ~ Of(f, t)
  /\ g = Packets[f] => w = <<>> /\ ~ Of(f, t)

(* e to g stand for EnableWindow, sent, owner, queue, active, buf, cur, tx,  *)
(* wire and got: a step may serve the port in the middle of its changes.    *)
Sound(e, s, o, q, act, b, c, t, w, g) ==
  /\ \A i \in act : \E f \in Flow : o[f] = i
  /\ \A i \in Queues : \A j \in 1 .. Len(q[i]) : q[i][j].seq < s[q[i][j].flow]
  /\ t # Idle => t.seq < s[t.flow]
  /\ \A f \in Flow : \A j \in 1 .. Len(w[f]) : w[f][j] < s[f]
  /\ \A f \in Flow : o[f] # None /\ o[f] \in act =>
       Fresh(f, s[f], q[o[f]], b[o[f]], t, w[f], g[f])
  /\ \A f \in Flow : LastTravelsLast(f, t, w[f], g[f])
  /\ e => \A i \in Queues : q[i] # <<>> => c[i] = Head(q[i]).seq

FlowsLive == \A f \in Flow :
  /\ owner[f] = None => sent[f] = 0 \/ sent[f] = Packets[f]
  /\ owner[f] # None => sent[f] >= 1
  /\ owner[f] # None /\ ended[owner[f]] =>
       sent[f] = Packets[f] /\ lastseq[owner[f]] = Packets[f]

Ascending(b) == \A j, k \in 1 .. Len(b) : j < k => b[j] < b[k]

(* The buffer of a queue with n packets sent by its owner.                  *)
BufferUpTo(b, n) == Ascending(b) /\ (b # <<>> => b[Len(b)] = n - 1)

Buffers ==
  /\ \A i \in Queues : (\A f \in Flow : owner[f] # i) => buf[i] = <<>>
  /\ \A f \in Flow : owner[f] # None => BufferUpTo(buf[owner[f]], sent[f])

GoodAnswer(f, a) ==
  /\ a.kind = "nack" => a.seq + 1 < sent[f]
  /\ a.kind = "ack" => got[f] = Packets[f] \/ (a.seq =< got[f] /\ a.seq < Packets[f])

Receiving == \A f \in Flow :
  /\ got[f] =< sent[f]
  /\ key[f] # None => entry[key[f]].expected =< got[f]
  /\ got[f] = Packets[f] => key[f] = None
  /\ \A j \in 1 .. Len(answers[f]) : GoodAnswer(f, answers[f][j])

PortSound == Sound(conf.enable, sent, owner, queue, active, buf, cur, tx, wire, got)

IInv ==
  /\ PortTypedNow /\ FlowsTypedNow /\ Allocation /\ OthersTyped
  /\ FlowsLive /\ Buffers /\ PortSound /\ Receiving

-----------------------------------------------------------------------------
(* Transmission *)

(* The device takes the head of queue i.                                    *)
Serve(q, act, c, i) ==
  /\ queue' = [q EXCEPT ![i] = Tail(@)]
  /\ active' = (IF Tail(q[i]) = <<>> THEN act \ {i} ELSE act)
  /\ rrlast' = i
  /\ cur' = FollowHead(c, queue', i)
  /\ tx' = Head(q[i])

(* DequeueQCN serves an admitted, unpaused queue of the active set, or the  *)
(* device goes idle.                                                        *)
LEMMA TransmitCases ==
  ASSUME NEW q, NEW act, NEW c, NEW a, NEW p,
         PortTyped(q, act, c), rrlast \in Queues \cup {0}, Transmit(q, act, c, a, p)
  PROVE  \/ queue' = q /\ active' = act /\ cur' = c /\ tx' = Idle /\ rrlast' = rrlast
         \/ \E i \in act \ p : Admits(i, c, a) /\ Serve(q, act, c, i)
<1> DEFINE ready == {i \in act \ p : Admits(i, c, a)}
           i == SetScan(ready, rrlast)
           rest == [q EXCEPT ![i] = Tail(@)]
<1>1. CASE ready = {}
  BY <1>1 DEF Transmit
<1>2. CASE ready # {}
  <2>a. ready \in SUBSET Queues
    BY DEF PortTyped
  <2>b. Queues \subseteq Nat
    BY NicAssumption
  <2>1. ready \in SUBSET Nat /\ rrlast \in Nat /\ ready \in SUBSET Queues
    <3>1. rrlast \in Nat
      BY <2>b, SMT
    <3>2. \A S : S \in SUBSET Queues => S \in SUBSET Nat
      BY <2>b
    <3>. QED BY <2>a, <3>1, <3>2, Zenon
  <2>2. i \in ready
    BY <1>2, <2>1, SetScanCorrect, NextAfterMember
  <2>3. /\ queue' = rest /\ active' = Deactivated(act, rest, i) /\ rrlast' = i
        /\ cur' = FollowHead(c, rest, i) /\ tx' = Head(q[i])
    BY <1>2 DEF Transmit
  <2>4. rest[i] = Tail(q[i])
    BY <2>1, <2>2 DEF PortTyped
  <2>5. Serve(q, act, c, i)
    BY <2>3, <2>4 DEF Serve, Deactivated
  <2>6. i \in act \ p /\ Admits(i, c, a)
    BY <2>2
  <2>. QED BY <2>5, <2>6
<1>. QED BY <1>1, <1>2

LEMMA FollowHeadTyped ==
  ASSUME NEW q \in [Queues -> Seq(Packet)], NEW c \in [Queues -> Nat], NEW i \in Queues
  PROVE  /\ FollowHead(c, q, i) \in [Queues -> Nat]
         /\ \A j \in Queues : j # i => FollowHead(c, q, i)[j] = c[j]
         /\ conf.enable /\ q[i] # <<>> => FollowHead(c, q, i)[i] = Head(q[i]).seq
<1>1. q[i] # <<>> => Head(q[i]) \in Packet
  BY HeadTailProperties
<1>2. q[i] # <<>> => Head(q[i]).seq \in Nat
  BY <1>1 DEF Packet
<1>. QED BY <1>2 DEF FollowHead

(* What serving queue i leaves behind, when every active queue holds a      *)
(* packet.                                                                  *)
LEMMA ServeTyped ==
  ASSUME NEW q, NEW act, NEW c, NEW i \in act,
         PortTyped(q, act, c), q[i] # <<>>, Serve(q, act, c, i)
  PROVE  PortTyped(queue', active', cur') /\ rrlast' \in Queues /\ tx' \in Packet
<1>1. i \in Queues /\ q[i] \in Seq(Packet)
  BY DEF PortTyped
<1>2. Head(q[i]) \in Packet /\ Tail(q[i]) \in Seq(Packet)
  BY <1>1, HeadTailProperties
<1>3. queue' \in [Queues -> Seq(Packet)]
  BY <1>1, <1>2 DEF PortTyped, Serve
<1>4. cur' \in [Queues -> Nat]
  BY <1>1, <1>3, FollowHeadTyped DEF PortTyped, Serve
<1>. QED BY <1>1, <1>2, <1>3, <1>4 DEF PortTyped, Serve

LEMMA ServeSound ==
  ASSUME NEW s, NEW o, NEW q, NEW act, NEW b, NEW c, NEW w, NEW g, NEW i \in act,
         FlowsTyped(s, o, b, w, g), PortTyped(q, act, c),
         Sound(conf.enable, s, o, q, act, b, c, Idle, w, g), Serve(q, act, c, i)
  PROVE  q[i] # <<>> /\ Sound(conf.enable, s, o, queue', active', b, cur', tx', w, g)
<1>1. i \in Queues /\ q[i] \in Seq(Packet)
  BY DEF PortTyped
<1>2. PICK f \in Flow : o[f] = i
  BY DEF Sound
<1>3. o[f] # None /\ Fresh(f, s[f], q[i], b[i], Idle, w[f], g[f])
  BY <1>1, <1>2, NicAssumption DEF Sound
<1>4. q[i] # <<>>
  BY <1>3 DEF Fresh
<1>5. /\ Head(q[i]) = q[i][1] /\ Head(q[i]) \in Packet /\ Tail(q[i]) \in Seq(Packet)
      /\ Len(Tail(q[i])) = Len(q[i]) - 1 /\ Len(q[i]) \in Nat \ {0}
      /\ \A j \in 1 .. Len(Tail(q[i])) : Tail(q[i])[j] = q[i][j + 1]
  BY <1>1, <1>4, HeadTailProperties, EmptySeq
<1>6. PortTyped(queue', active', cur') /\ tx' \in Packet
  BY <1>4, ServeTyped
<1>7. /\ queue'[i] = Tail(q[i]) /\ \A j \in Queues : j # i => queue'[j] = q[j]
      /\ tx' = q[i][1] /\ active' \subseteq act
  BY <1>1, <1>5 DEF Serve, PortTyped
<1>8. tx' # Idle /\ tx'.flow = f /\ tx'.seq \in Nat /\ s[f] \in Nat /\ Packets[f] \in Nat
      /\ s[f] =< Packets[f] /\ w[f] \in Seq(Nat) /\ Len(w[f]) \in Nat
      /\ \A j \in 1 .. Len(w[f]) : w[f][j] \in Nat
  <2>1. tx' # Idle /\ tx'.seq \in Nat
    BY <1>6, NicSentinels DEF Packet
  <2>2. tx'.flow = f
    BY <1>3, <1>5, <1>7 DEF Fresh
  <2>3. s[f] \in Nat /\ Packets[f] \in Nat /\ s[f] =< Packets[f] /\ w[f] \in Seq(Nat)
    BY NicAssumption DEF FlowsTyped
  <2>4. Len(w[f]) \in Nat /\ \A j \in 1 .. Len(w[f]) : w[f][j] \in Nat
    BY <2>3, LenProperties, ElementOfSeq
  <2>. QED BY <2>1, <2>2, <2>3, <2>4
<1>9. \A j \in active' : \E h \in Flow : o[h] = j
  BY <1>7 DEF Sound
<1>10. \A k \in Queues : \A j \in 1 .. Len(queue'[k]) :
         queue'[k][j].seq < s[queue'[k][j].flow]
  <2> SUFFICES ASSUME NEW k \in Queues, NEW j \in 1 .. Len(queue'[k])
               PROVE  queue'[k][j].seq < s[queue'[k][j].flow]
    OBVIOUS
  <2>1. CASE k # i
    BY <2>1, <1>7 DEF Sound
  <2>2. CASE k = i
    <3>1. queue'[k][j] = q[i][j + 1] /\ j + 1 \in 1 .. Len(q[i])
      BY <2>2, <1>5, <1>7
    <3>. QED BY <3>1, <1>1 DEF Sound
  <2>. QED BY <2>1, <2>2
<1>11. tx'.seq < s[f] /\ (Tail(q[i]) # <<>> => tx'.seq < s[f] - 1)
  <2>1. Tail(q[i]) # <<>> => 1 \in 1 .. Len(q[i]) - 1
    BY <1>5, EmptySeq
  <2>2. 1 \in 1 .. Len(q[i])
    BY <1>5
  <2>. QED BY <2>1, <2>2, <1>1, <1>3, <1>7, <1>8 DEF Sound, Fresh
<1>12. ASSUME NEW h \in Flow, o[h] # None, o[h] \in active'
       PROVE  Fresh(h, s[h], queue'[o[h]], b[o[h]], tx', w[h], g[h])
  <2>1. o[h] \in act /\ o[h] \in Queues
    BY <1>12, <1>6, <1>7 DEF PortTyped
  <2>2. Fresh(h, s[h], q[o[h]], b[o[h]], Idle, w[h], g[h])
    BY <1>12, <2>1 DEF Sound
  <2>3. CASE h # f
    <3>1. o[h] # i
      BY <1>2, <1>12, <2>3 DEF FlowsTyped
    <3>. QED BY <3>1, <2>1, <2>2, <2>3, <1>7, <1>8 DEF Fresh, Of
  <2>4. CASE h = f
    <3>1. Tail(q[i]) # <<>> /\ queue'[o[h]] = Tail(q[i])
      BY <1>2, <1>12, <2>4, <1>7 DEF Serve
    <3>2. Len(Tail(q[i])) \in Nat \ {0}
      BY <3>1, <1>5, EmptySeq
    <3>3. \A j \in 1 .. Len(Tail(q[i])) : Tail(q[i])[j].flow = f
      BY <1>3, <1>5 DEF Fresh
    <3>4. \A j \in 1 .. Len(Tail(q[i])) - 1 : Tail(q[i])[j].seq < s[f] - 1
      <4> SUFFICES ASSUME NEW j \in 1 .. Len(Tail(q[i])) - 1
                   PROVE  Tail(q[i])[j].seq < s[f] - 1
        OBVIOUS
      <4>1. j + 1 \in 1 .. Len(q[i]) - 1 /\ j \in 1 .. Len(Tail(q[i]))
        BY <1>5, <3>2
      <4>. QED BY <4>1, <1>3, <1>5 DEF Fresh
    <3>5. Tail(q[i])[Len(Tail(q[i]))].seq = s[f] - 1
      <4>a. Len(Tail(q[i])) \in 1 .. Len(Tail(q[i])) /\ Len(Tail(q[i])) + 1 = Len(q[i])
        <5>1. \A m, n \in Nat : m = n - 1 /\ m # 0 => m \in 1 .. m /\ m + 1 = n
          OBVIOUS
        <5>. QED BY <5>1, <1>5, <3>2
      <4>1. Tail(q[i])[Len(Tail(q[i]))] = q[i][Len(q[i])]
        BY <4>a, <1>5
      <4>. QED BY <4>1, <1>3 DEF Fresh
    <3>. QED BY <3>1, <3>3, <3>4, <3>5, <1>2, <1>3, <1>11, <2>4 DEF Fresh
  <2>. QED BY <2>3, <2>4
<1>13. ASSUME NEW h \in Flow
       PROVE  LastTravelsLast(h, tx', w[h], g[h])
  <2>1. LastTravelsLast(h, Idle, w[h], g[h])
    BY DEF Sound
  <2>2. CASE h # f
    BY <2>1, <2>2, <1>8 DEF LastTravelsLast, Of
  <2>3. CASE h = f
    <3>1. \A j \in 1 .. Len(w[f]) : w[f][j] # Packets[f] - 1
      BY <1>3, <1>8 DEF Fresh
    <3>2. g[f] # Packets[f]
      BY <1>3, <1>8 DEF Fresh, FlowsTyped
    <3>. QED BY <2>3, <3>1, <3>2 DEF LastTravelsLast
  <2>. QED BY <2>2, <2>3
<1>14. conf.enable => \A k \in Queues : queue'[k] # <<>> => cur'[k] = Head(queue'[k]).seq
  <2>1. cur' = FollowHead(c, queue', i) /\ queue' \in [Queues -> Seq(Packet)]
        /\ c \in [Queues -> Nat]
    BY <1>6 DEF Serve, PortTyped
  <2>2. /\ \A k \in Queues : k # i => cur'[k] = c[k]
        /\ conf.enable /\ queue'[i] # <<>> => cur'[i] = Head(queue'[i]).seq
    BY <2>1, <1>1, FollowHeadTyped
  <2>. QED BY <2>2, <1>7 DEF Sound
<1>15. tx' # Idle => tx'.seq < s[tx'.flow]
  BY <1>8, <1>11
<1>16. \A h \in Flow : \A j \in 1 .. Len(w[h]) : w[h][j] < s[h]
  BY DEF Sound
<1>. QED BY <1>4, <1>9, <1>10, <1>12, <1>13, <1>14, <1>15, <1>16 DEF Sound

LEMMA TransmitSound ==
  ASSUME NEW s, NEW o, NEW q, NEW act, NEW b, NEW c, NEW w, NEW g, NEW a, NEW p,
         FlowsTyped(s, o, b, w, g), PortTyped(q, act, c), rrlast \in Queues \cup {0},
         Sound(conf.enable, s, o, q, act, b, c, Idle, w, g), Transmit(q, act, c, a, p)
  PROVE  PortTypedNow' /\ Sound(conf.enable, s, o, queue', active', b, cur', tx', w, g)
<1>1. CASE queue' = q /\ active' = act /\ cur' = c /\ tx' = Idle /\ rrlast' = rrlast
  BY <1>1 DEF PortTypedNow
<1>2. CASE \E i \in act \ p : Admits(i, c, a) /\ Serve(q, act, c, i)
  <2>1. PICK i \in act : Serve(q, act, c, i)
    BY <1>2
  <2>2. q[i] # <<>> /\ Sound(conf.enable, s, o, queue', active', b, cur', tx', w, g)
    BY <2>1, ServeSound
  <2>3. PortTyped(queue', active', cur') /\ rrlast' \in Queues /\ tx' \in Packet
    BY <2>1, <2>2, ServeTyped
  <2>. QED BY <2>2, <2>3 DEF PortTypedNow
<1>. QED BY <1>1, <1>2, TransmitCases

LEMMA DequeueAndTransmitSound ==
  ASSUME NEW s, NEW o, NEW q, NEW act, NEW b, NEW c, NEW w, NEW g, NEW a, NEW p,
         FlowsTyped(s, o, b, w, g), PortTyped(q, act, c), rrlast \in Queues \cup {0},
         tx \in Packet \cup {Idle},
         Sound(conf.enable, s, o, q, act, b, c, tx, w, g), DequeueAndTransmit(q, act, c, a, p)
  PROVE  PortTypedNow' /\ Sound(conf.enable, s, o, queue', active', b, cur', tx', w, g)
<1>1. CASE tx = Idle /\ Transmit(q, act, c, a, p)
  BY <1>1, TransmitSound
<1>2. CASE /\ tx # Idle
           /\ queue' = q /\ active' = act /\ cur' = c
           /\ UNCHANGED <<rrlast, tx>>
  BY <1>2 DEF PortTypedNow
<1>. QED BY <1>1, <1>2 DEF DequeueAndTransmit

(* A packet is admitted by the number curr_seq shows, which is its own.     *)
LEMMA TransmitWindow ==
  ASSUME NEW s, NEW o, NEW q, NEW act, NEW b, NEW c, NEW w, NEW g, NEW a, NEW p,
         FlowsTyped(s, o, b, w, g), PortTyped(q, act, c), rrlast \in Queues \cup {0},
         Sound(conf.enable, s, o, q, act, b, c, Idle, w, g), Transmit(q, act, c, a, p),
         tx' # Idle, conf.enable
  PROVE  rrlast' \in Queues /\ tx'.seq < conf.window + a[rrlast']
<1>1. PICK i \in act : Admits(i, c, a) /\ Serve(q, act, c, i)
  BY TransmitCases
<1>2. q[i] # <<>> /\ i \in Queues
  BY <1>1, ServeSound DEF PortTyped
<1>3. c[i] = Head(q[i]).seq
  BY <1>2 DEF Sound
<1>. QED BY <1>1, <1>2, <1>3 DEF Admits, Serve

-----------------------------------------------------------------------------
(* The sending buffer *)

(* Trimming keeps a tail of the buffer, and keeps something unless all of   *)
(* it lies below s.                                                         *)
LEMMA TrimIsTail ==
  ASSUME NEW b \in Seq(Nat), NEW n \in Nat, BufferUpTo(b, n), NEW s \in Nat
  PROVE  /\ Trim(b, s) \in Seq(Nat) /\ BufferUpTo(Trim(b, s), n)
         /\ b # <<>> /\ s < n => Trim(b, s) # <<>>
<1> DEFINE kept == {j \in 1 .. Len(b) : b[j] >= s}
           m == Min(kept)
<1>1. Len(b) \in Nat /\ \A j \in 1 .. Len(b) : b[j] \in Nat
  BY LenProperties, ElementOfSeq
<1>2. CASE kept = {}
  <2>1. Trim(b, s) = <<>>
    BY <1>2 DEF Trim
  <2>2. <<>> \in Seq(Nat) /\ Len(<<>>) = 0 /\ (b # <<>> => Len(b) \in Nat \ {0})
    BY EmptySeq
  <2>3. b # <<>> => ~ (s < n)
    <3> SUFFICES ASSUME b # <<>> PROVE ~ (s < n)
      OBVIOUS
    <3>1. Len(b) \in 1 .. Len(b)
      BY <2>2
    <3>2. ~ (b[Len(b)] >= s)
      BY <3>1, <1>2
    <3>3. b[Len(b)] = n - 1 /\ b[Len(b)] \in Nat
      BY <3>1, <1>1 DEF BufferUpTo
    <3>. QED BY <3>2, <3>3
  <2>. QED BY <2>1, <2>2, <2>3 DEF BufferUpTo, Ascending
<1>3. CASE kept # {}
  <2>1. kept \in SUBSET Nat
    BY <1>1
  <2>2. m \in kept
    BY <1>3, <2>1, MinProperty
  <2>3. m \in 1 .. Len(b) /\ m \in Nat
    BY <2>2, <2>1
  <2>4. Trim(b, s) = SubSeq(b, m, Len(b))
    BY <1>3 DEF Trim
  <2>5. /\ Trim(b, s) \in Seq(Nat) /\ Len(Trim(b, s)) = Len(b) - m + 1
        /\ \A j \in 1 .. Len(b) - m + 1 : Trim(b, s)[j] = b[m + j - 1]
    <3>1. \A j \in m .. Len(b) : b[j] \in Nat
      BY <1>1, <2>3
    <3>2. m =< Len(b) /\ m \in Int /\ Len(b) \in Int
      BY <2>3, <1>1
    <3> HIDE DEF m
    <3>. QED BY <3>1, <3>2, <2>4, SubSeqProperties
  <2>6. Ascending(Trim(b, s))
    <3> SUFFICES ASSUME NEW j \in 1 .. Len(Trim(b, s)), NEW k \in 1 .. Len(Trim(b, s)), j < k
                 PROVE  Trim(b, s)[j] < Trim(b, s)[k]
      BY DEF Ascending
    <3> HIDE DEF m
    <3>1. /\ j \in 1 .. Len(b) - m + 1 /\ k \in 1 .. Len(b) - m + 1
          /\ m + j - 1 \in 1 .. Len(b) /\ m + k - 1 \in 1 .. Len(b) /\ m + j - 1 < m + k - 1
      BY <2>3, <2>5, <1>1
    <3>. QED BY <3>1, <2>5 DEF BufferUpTo, Ascending
  <2>7. Trim(b, s) # <<>>
    BY <2>3, <2>5, <1>1, EmptySeq
  <2>8. Trim(b, s)[Len(Trim(b, s))] = n - 1
    <3> HIDE DEF m
    <3>1. Len(b) - m + 1 \in 1 .. Len(b) - m + 1 /\ m + (Len(b) - m + 1) - 1 = Len(b)
      BY <2>3, <1>1
    <3>2. b # <<>>
      BY <2>3, <1>1, EmptySeq
    <3>. QED BY <3>1, <3>2, <2>5 DEF BufferUpTo
  <2>. QED BY <2>5, <2>6, <2>7, <2>8 DEF BufferUpTo
<1>. QED BY <1>2, <1>3

LEMMA Appended ==
  ASSUME NEW q \in Seq(Nat), NEW e \in Nat
  PROVE  /\ Append(q, e) \in Seq(Nat) /\ Append(q, e) # <<>>
         /\ Len(Append(q, e)) = Len(q) + 1
         /\ \A j \in 1 .. Len(q) : Append(q, e)[j] = q[j]
         /\ Append(q, e)[Len(q) + 1] = e
BY AppendProperties

(* The buffer after a packet has been sent.                                 *)
LEMMA KeptAndAppended ==
  ASSUME NEW b \in Seq(Nat), NEW n \in Nat, BufferUpTo(b, n)
  PROVE  /\ Append(Kept(b), n) \in Seq(Nat) /\ Append(Kept(b), n) # <<>>
         /\ BufferUpTo(Append(Kept(b), n), n + 1)
<1>1. Kept(b) \in Seq(Nat) /\ BufferUpTo(Kept(b), n)
  <2>1. CASE Len(b) # BufCap
    BY <2>1 DEF Kept
  <2>2. CASE Len(b) = BufCap
    <3>1. b # <<>> /\ Len(b) \in Nat \ {0}
      BY <2>2, NicAssumption, EmptySeq
    <3>2. /\ Kept(b) = Tail(b) /\ Tail(b) \in Seq(Nat) /\ Len(Tail(b)) = Len(b) - 1
          /\ \A j \in 1 .. Len(Tail(b)) : Tail(b)[j] = b[j + 1]
      BY <2>2, <3>1, HeadTailProperties DEF Kept
    <3>3. Ascending(Tail(b))
      <4> SUFFICES ASSUME NEW j \in 1 .. Len(Tail(b)), NEW k \in 1 .. Len(Tail(b)), j < k
                   PROVE  Tail(b)[j] < Tail(b)[k]
        BY DEF Ascending
      <4>1. j + 1 \in 1 .. Len(b) /\ k + 1 \in 1 .. Len(b) /\ j + 1 < k + 1
        BY <3>1, <3>2
      <4>. QED BY <4>1, <3>2 DEF BufferUpTo, Ascending
    <3>4. Tail(b) # <<>> => Tail(b)[Len(Tail(b))] = n - 1
      <4> SUFFICES ASSUME Tail(b) # <<>> PROVE Tail(b)[Len(Tail(b))] = n - 1
        OBVIOUS
      <4>1. Len(Tail(b)) \in Nat \ {0}
        BY <3>2, EmptySeq
      <4>2. \A x, y \in Nat : x = y - 1 /\ x # 0 => x \in 1 .. x /\ x + 1 = y
        OBVIOUS
      <4>3. Len(Tail(b)) \in 1 .. Len(Tail(b)) /\ Len(Tail(b)) + 1 = Len(b)
        BY <4>1, <4>2, <3>1, <3>2
      <4>. QED BY <4>3, <3>1, <3>2 DEF BufferUpTo
    <3>. QED BY <3>2, <3>3, <3>4 DEF BufferUpTo
  <2>. QED BY <2>1, <2>2
<1> DEFINE k == Kept(b)
           c == Append(k, n)
<1>2. /\ c \in Seq(Nat) /\ c # <<>> /\ Len(c) = Len(k) + 1 /\ Len(k) \in Nat
      /\ \A j \in 1 .. Len(k) : c[j] = k[j] /\ k[j] \in Nat
      /\ c[Len(k) + 1] = n
  <2>1. k \in Seq(Nat) /\ Len(k) \in Nat /\ \A j \in 1 .. Len(k) : k[j] \in Nat
    BY <1>1, LenProperties, ElementOfSeq
  <2>2. /\ c \in Seq(Nat) /\ c # <<>> /\ Len(c) = Len(k) + 1
        /\ \A j \in 1 .. Len(k) : c[j] = k[j]
        /\ c[Len(k) + 1] = n
    BY <2>1, Appended, Zenon
  <2>. QED BY <2>1, <2>2
<1> HIDE DEF k, c
<1>3. \A j \in 1 .. Len(k) : k[j] < n
  <2> SUFFICES ASSUME NEW j \in 1 .. Len(k) PROVE k[j] < n
    OBVIOUS
  <2>1. k # <<>> /\ Len(k) \in 1 .. Len(k)
    BY <1>2, EmptySeq
  <2>2. k[Len(k)] = n - 1 /\ (j < Len(k) => k[j] < k[Len(k)])
    BY <1>1, <2>1 DEF BufferUpTo, Ascending, k
  <2>. QED BY <2>1, <2>2, <1>2
<1>4. Ascending(c)
  <2> SUFFICES ASSUME NEW i \in 1 .. Len(c), NEW j \in 1 .. Len(c), i < j
               PROVE  c[i] < c[j]
    BY DEF Ascending
  <2>0. i \in 1 .. Len(k) + 1 /\ j \in 1 .. Len(k) + 1 /\ Len(k) \in Nat
    BY <1>2
  <2>1. CASE j = Len(k) + 1
    <3>1. i \in 1 .. Len(k)
      BY <2>0, <2>1
    <3>. QED BY <3>1, <2>1, <1>2, <1>3
  <2>2. CASE j # Len(k) + 1
    <3>1. i \in 1 .. Len(k) /\ j \in 1 .. Len(k)
      BY <2>0, <2>2
    <3>2. k[i] < k[j]
      BY <3>1, <1>1 DEF BufferUpTo, Ascending, k
    <3>. QED BY <3>1, <3>2, <1>2
  <2>. QED BY <2>1, <2>2
<1>. QED BY <1>2, <1>4 DEF BufferUpTo, c, k

-----------------------------------------------------------------------------
(* Queues and receiver entries are handed out and taken back *)

LEMMA OwnedFinite ==
  ASSUME Allocation
  PROVE  Owned \in SUBSET Queues /\ IsFiniteSet(Owned)
<1>1. Owned \in SUBSET Queues
  BY DEF Allocation, Owned
<1>. QED BY <1>1, FS_Subset, NicAssumption

LEMMA QueueTaken ==
  ASSUME Allocation, NEW f \in Flow, owner[f] = None, free # <<>>,
         free' = Tail(free), owner' = [owner EXCEPT ![f] = Head(free)], key' = key
  PROVE  Allocation' /\ Head(free) \in Queues /\ \A h \in Flow : owner[h] # Head(free)
<1> DEFINE i == Head(free)
<1>1. /\ i \in Queues /\ i = free[1] /\ free' \in Seq(Queues) /\ Len(free') = Len(free) - 1
      /\ \A j \in 1 .. Len(free') : free'[j] = free[j + 1]
      /\ Len(free) \in Nat \ {0} /\ DOMAIN free = 1 .. Len(free) /\ DOMAIN free' = 1 .. Len(free')
  BY HeadTailProperties, EmptySeq, LenProperties DEF Allocation
<1>2. 1 \in DOMAIN free /\ i # None
  BY <1>1, NicAssumption
<1> HIDE DEF i
<1>3. i \notin Owned /\ \A h \in Flow : owner[h] # i
  BY <1>1, <1>2 DEF Allocation, QueuesConserved, Owned
<1>4. owner' \in [Flow -> Queues \cup {None}] /\ owner' = [owner EXCEPT ![f] = i]
  BY <1>1 DEF Allocation, i
<1>5. Owned' = Owned \cup {i}
  BY <1>2, <1>4 DEF Owned, Allocation
<1>6. \A h, k \in Flow : h # k /\ owner'[h] # None => owner'[h] # owner'[k]
  BY <1>2, <1>3, <1>4 DEF Allocation, QueuesConserved
<1>7. ASSUME NEW j \in DOMAIN free'
      PROVE  /\ free'[j] = free[j + 1] /\ j + 1 \in DOMAIN free /\ j + 1 # 1
             /\ free'[j] # i /\ free'[j] \notin Owned
  <2>1. free'[j] = free[j + 1] /\ j + 1 \in DOMAIN free /\ j + 1 # 1
    BY <1>1
  <2>. QED BY <2>1, <1>1, <1>2 DEF Allocation, QueuesConserved
<1>8. \A j, k \in DOMAIN free' : free'[j] = free'[k] => j = k
  <2> SUFFICES ASSUME NEW j \in DOMAIN free', NEW k \in DOMAIN free', free'[j] = free'[k]
               PROVE  j = k
    OBVIOUS
  <2>1. j + 1 = k + 1
    BY <1>7 DEF Allocation, QueuesConserved
  <2>. QED BY <2>1, <1>1
<1>9. \A j \in DOMAIN free' : free'[j] \notin Owned'
  BY <1>5, <1>7
<1>10. Len(free') + Cardinality(Owned') = Cardinality(Queues)
  <2>1. Cardinality(Owned') = Cardinality(Owned) + 1 /\ Cardinality(Owned) \in Nat
    BY <1>3, <1>5, OwnedFinite, FS_AddElement, FS_CardinalityType
  <2>2. Len(free) + Cardinality(Owned) = Cardinality(Queues)
    BY DEF Allocation, QueuesConserved
  <2>. QED BY <2>1, <2>2, <1>1
<1>11. QueuesConserved'
  BY <1>6, <1>8, <1>9, <1>10 DEF QueuesConserved, Allocation
<1>. QED BY <1>1, <1>3, <1>4, <1>11 DEF Allocation, i

LEMMA QueueReleased ==
  ASSUME Allocation, NEW f \in Flow, owner[f] # None,
         free' = Append(free, owner[f]), owner' = [owner EXCEPT ![f] = None], key' = key
  PROVE  Allocation'
<1>1. PICK i \in Queues : i = owner[f]
  BY DEF Allocation
<1>2. /\ free' \in Seq(Queues) /\ Len(free') = Len(free) + 1 /\ Len(free) \in Nat
      /\ \A j \in 1 .. Len(free) : free'[j] = free[j]
      /\ free'[Len(free) + 1] = i
      /\ DOMAIN free = 1 .. Len(free) /\ DOMAIN free' = 1 .. Len(free')
  BY <1>1, AppendProperties, LenProperties DEF Allocation
<1>3. owner' \in [Flow -> Queues \cup {None}]
  BY DEF Allocation
<1>4. i \in Owned /\ Owned' = Owned \ {i}
  BY <1>1 DEF Owned, Allocation, QueuesConserved
<1>5. \A h, k \in Flow : h # k /\ owner'[h] # None => owner'[h] # owner'[k]
  BY DEF Allocation, QueuesConserved
<1>6. \A j \in DOMAIN free : free[j] # i
  BY <1>4 DEF Allocation, QueuesConserved
<1>7. \A j \in DOMAIN free' : j = Len(free) + 1 \/ (j \in DOMAIN free /\ free'[j] = free[j])
  BY <1>2
<1>8. \A j, k \in DOMAIN free' : free'[j] = free'[k] => j = k
  BY <1>2, <1>6, <1>7 DEF Allocation, QueuesConserved
<1>9. \A j \in DOMAIN free' : free'[j] \notin Owned'
  BY <1>2, <1>4, <1>7 DEF Allocation, QueuesConserved
<1>10. Len(free') + Cardinality(Owned') = Cardinality(Queues)
  <2>1. Cardinality(Owned') = Cardinality(Owned) - 1 /\ Cardinality(Owned) \in Nat
    BY <1>4, OwnedFinite, FS_RemoveElement, FS_CardinalityType
  <2>2. Len(free) + Cardinality(Owned) = Cardinality(Queues)
    BY DEF Allocation, QueuesConserved
  <2>. QED BY <2>1, <2>2, <1>2
<1>11. QueuesConserved'
  BY <1>5, <1>8, <1>9, <1>10 DEF QueuesConserved, Allocation
<1>. QED BY <1>2, <1>3, <1>11 DEF Allocation

(* There is a receiver entry left for a flow that has none.                 *)
LEMMA NewKeyIsFree ==
  ASSUME key \in [Flow -> Keys \cup {None}], NEW f \in Flow, key[f] = None
  PROVE  NewKey \in Keys /\ \A h \in Flow : key[h] # NewKey
<1> DEFINE taken == {key[h] : h \in Flow}
<1>1. Keys \ taken # {}
  <2> SUFFICES ASSUME \A k \in Keys : \E h \in Flow : key[h] = k
               PROVE  FALSE
    OBVIOUS
  <2> DEFINE holder == [k \in Keys |-> CHOOSE h \in Flow : key[h] = k]
  <2>1. \A k \in Keys : holder[k] \in Flow /\ key[holder[k]] = k
    OBVIOUS
  <2>2. \A k \in Keys : holder[k] # f
    BY <2>1, NicAssumption
  <2>3. holder \in Injection(Keys, Flow \ {f})
    <3>1. holder \in [Keys -> Flow \ {f}]
      BY <2>1, <2>2
    <3>2. \A j, k \in Keys : holder[j] = holder[k] => j = k
      BY <2>1
    <3> HIDE DEF holder
    <3>. QED BY <3>1, <3>2 DEF Injection, IsInjective
  <2>4. /\ IsFiniteSet(Flow \ {f}) /\ Cardinality(Flow \ {f}) = Cardinality(Flow) - 1
        /\ Cardinality(Flow) \in Nat /\ Cardinality(Keys) \in Nat
    BY NicAssumption, FS_RemoveElement, FS_CardinalityType
  <2>5. Cardinality(Keys) =< Cardinality(Flow \ {f})
    BY <2>3, <2>4, FS_Injection
  <2>. QED BY <2>4, <2>5, NicAssumption
<1>2. Keys \ taken \in SUBSET Nat
  BY NicAssumption
<1>3. NewKey \in Keys \ taken
  BY <1>1, <1>2, MinProperty DEF NewKey
<1>. QED BY <1>3

-----------------------------------------------------------------------------
(* Every action keeps the invariant.  First, those of the port alone.       *)

LEMMA PortOnly ==
  ASSUME IInv, UNCHANGED <<conf, flows, receiver, network>>,
         paused' \in SUBSET Queues,
         PortTypedNow', PortSound'
  PROVE  IInv'
<1>1. FlowsTypedNow' /\ Allocation'
  BY DEF IInv, FlowsTypedNow, Allocation, QueuesConserved, Owned, flows, receiver, network
<1>2. OthersTyped'
  BY DEF IInv, OthersTyped, flows, receiver, network
<1>3. FlowsLive' /\ Buffers'
  BY DEF IInv, FlowsLive, Buffers, flows
<1>4. Receiving'
  BY DEF IInv, Receiving, GoodAnswer, flows, receiver, network
<1>. QED BY <1>1, <1>2, <1>3, <1>4 DEF IInv

LEMMA PollKeeps ==
  ASSUME IInv, Poll
  PROVE  IInv'
<1>1. /\ tx = Idle /\ Transmit(queue, active, cur, acked, paused)
      /\ UNCHANGED <<conf, sent, owner, buf, wire, got, paused>>
      /\ UNCHANGED <<conf, flows, receiver, network>>
  BY DEF Poll, flows, receiver, network
<1>2. /\ FlowsTyped(sent, owner, buf, wire, got) /\ PortTyped(queue, active, cur)
      /\ rrlast \in Queues \cup {0}
      /\ Sound(conf.enable, sent, owner, queue, active, buf, cur, Idle, wire, got)
  BY <1>1 DEF IInv, FlowsTypedNow, PortTypedNow, PortSound
<1>3. /\ PortTypedNow'
      /\ Sound(conf.enable, sent, owner, queue', active', buf, cur', tx', wire, got)
  BY <1>1, <1>2, TransmitSound
<1>4. PortSound'
  BY <1>1, <1>3 DEF PortSound
<1>5. paused' \in SUBSET Queues
  BY <1>1 DEF IInv, OthersTyped
<1>. QED BY <1>1, <1>3, <1>4, <1>5, PortOnly

LEMMA ReceivePfcKeeps ==
  ASSUME IInv, NEW bits \in PauseSets, ReceivePfc(bits)
  PROVE  IInv'
<1>1. PICK p \in SUBSET Queues :
        /\ paused' = p
        /\ DequeueAndTransmit(queue, active, cur, acked, p)
        /\ UNCHANGED <<conf, sent, owner, buf, wire, got>>
        /\ UNCHANGED <<conf, flows, receiver, network>>
  BY DEF ReceivePfc, flows, receiver, network
<1>2. /\ FlowsTyped(sent, owner, buf, wire, got) /\ PortTyped(queue, active, cur)
      /\ rrlast \in Queues \cup {0} /\ tx \in Packet \cup {Idle}
      /\ Sound(conf.enable, sent, owner, queue, active, buf, cur, tx, wire, got)
  BY DEF IInv, FlowsTypedNow, PortTypedNow, PortSound
<1>3. /\ PortTypedNow'
      /\ Sound(conf.enable, sent, owner, queue', active', buf, cur', tx', wire, got)
  BY <1>1, <1>2, DequeueAndTransmitSound
<1>4. PortSound'
  BY <1>1, <1>3 DEF PortSound
<1>5. paused' \in SUBSET Queues
  BY <1>1, NicSentinels
<1>. QED BY <1>1, <1>3, <1>4, <1>5, PortOnly

(* The end of a transmission: the packet moves from the port to the link.   *)
LEMMA SoundOnWire ==
  ASSUME NEW e, NEW s, NEW o, NEW q, NEW act, NEW b, NEW c, NEW t \in Packet, NEW w, NEW g,
         FlowsTyped(s, o, b, w, g), Sound(e, s, o, q, act, b, c, t, w, g)
  PROVE  LET x == [w EXCEPT ![t.flow] = Append(@, t.seq)]
         IN  /\ FlowsTyped(s, o, b, x, g)
             /\ Sound(e, s, o, q, act, b, c, Idle, x, g)
<1> DEFINE x == [w EXCEPT ![t.flow] = Append(@, t.seq)]
           f == t.flow
<1>1. t.flow \in Flow /\ t.seq \in Nat /\ t # Idle /\ w \in [Flow -> Seq(Nat)] /\ s \in [Flow -> Nat]
  BY NicSentinels DEF Packet, FlowsTyped
<1>2. /\ x[f] \in Seq(Nat) /\ Len(x[f]) = Len(w[f]) + 1 /\ Len(w[f]) \in Nat
      /\ \A j \in 1 .. Len(w[f]) : x[f][j] = w[f][j]
      /\ x[f][Len(w[f]) + 1] = t.seq
      /\ \A h \in Flow : h # f => x[h] = w[h]
  BY <1>1, Appended, LenProperties
<1>3. x \in [Flow -> Seq(Nat)]
  BY <1>1, <1>2
<1>4. t.seq < s[f] /\ Of(f, t) /\ \A h \in Flow : h # f => ~ Of(h, t)
  BY <1>1 DEF Sound, Of
<1> HIDE DEF x
<1>5. \A j \in 1 .. Len(x[f]) :
        j = Len(w[f]) + 1 \/ (j \in 1 .. Len(w[f]) /\ x[f][j] = w[f][j])
  BY <1>2
<1>6. \A h \in Flow : \A j \in 1 .. Len(x[h]) : x[h][j] < s[h]
  <2> SUFFICES ASSUME NEW h \in Flow, NEW j \in 1 .. Len(x[h]) PROVE x[h][j] < s[h]
    OBVIOUS
  <2>1. CASE h # f
    BY <2>1, <1>2 DEF Sound
  <2>2. CASE h = f
    BY <2>2, <1>1, <1>2, <1>4, <1>5 DEF Sound
  <2>. QED BY <2>1, <2>2
<1>7. ASSUME NEW h \in Flow, o[h] # None, o[h] \in act
      PROVE  Fresh(h, s[h], q[o[h]], b[o[h]], Idle, x[h], g[h])
  <2>1. Fresh(h, s[h], q[o[h]], b[o[h]], t, w[h], g[h])
    BY <1>7 DEF Sound
  <2>2. CASE h # f
    BY <2>1, <2>2, <1>2 DEF Fresh, Of
  <2>3. CASE h = f
    BY <2>1, <2>3, <1>2, <1>4, <1>5 DEF Fresh, Of
  <2>. QED BY <2>2, <2>3
<1>8. ASSUME NEW h \in Flow
      PROVE  LastTravelsLast(h, Idle, x[h], g[h])
  <2>1. LastTravelsLast(h, t, w[h], g[h])
    BY DEF Sound
  <2>2. CASE h # f
    BY <2>1, <2>2, <1>2 DEF LastTravelsLast, Of
  <2>3. CASE h = f
    BY <2>1, <2>3, <1>2, <1>4, <1>5 DEF LastTravelsLast, Of
  <2>. QED BY <2>2, <2>3
<1>9. FlowsTyped(s, o, b, x, g)
  BY <1>3 DEF FlowsTyped
<1>10. Sound(e, s, o, q, act, b, c, Idle, x, g)
  BY <1>6, <1>7, <1>8 DEF Sound
<1>. QED BY <1>9, <1>10 DEF x

LEMMA TransmitCompleteKeeps ==
  ASSUME IInv, TransmitComplete
  PROVE  IInv'
<1>1. /\ tx # Idle /\ wire' = [wire EXCEPT ![tx.flow] = Append(@, tx.seq)]
      /\ Transmit(queue, active, cur, acked, paused)
      /\ UNCHANGED <<conf, flows, paused, receiver, answers, lost>>
  BY DEF TransmitComplete
<1>2. /\ FlowsTyped(sent, owner, buf, wire, got) /\ PortTyped(queue, active, cur)
      /\ rrlast \in Queues \cup {0} /\ tx \in Packet
      /\ Sound(conf.enable, sent, owner, queue, active, buf, cur, tx, wire, got)
  BY <1>1 DEF IInv, FlowsTypedNow, PortTypedNow, PortSound
<1>3. /\ FlowsTyped(sent, owner, buf, wire', got)
      /\ Sound(conf.enable, sent, owner, queue, active, buf, cur, Idle, wire', got)
  BY <1>1, <1>2, SoundOnWire
<1>4. /\ PortTypedNow'
      /\ Sound(conf.enable, sent, owner, queue', active', buf, cur', tx', wire', got)
  BY <1>1, <1>2, <1>3, TransmitSound
<1>5. PortSound' /\ FlowsTypedNow'
  BY <1>1, <1>3, <1>4 DEF PortSound, FlowsTypedNow, flows, receiver
<1>6. Allocation'
  BY <1>1 DEF IInv, Allocation, QueuesConserved, Owned, flows, receiver
<1>7. OthersTyped'
  BY <1>1 DEF IInv, OthersTyped, flows, receiver
<1>8. FlowsLive' /\ Buffers'
  BY <1>1 DEF IInv, FlowsLive, Buffers, flows
<1>9. Receiving'
  BY <1>1 DEF IInv, Receiving, GoodAnswer, flows, receiver
<1>. QED BY <1>4, <1>5, <1>6, <1>7, <1>8, <1>9 DEF IInv

-----------------------------------------------------------------------------
(* The client *)

(* Flow f hands its next packet to queue i, its own or a fresh one; q, act  *)
(* and c are the port before the device looks at it.                        *)
HandsOver(f, i, q, act, c) ==
  /\ FlowsTyped(sent, owner, buf, wire, got) /\ PortTyped(queue, active, cur)
  /\ tx \in Packet \cup {Idle}
  /\ Sound(conf.enable, sent, owner, queue, active, buf, cur, tx, wire, got)
  /\ sent[f] < Packets[f] /\ BufferUpTo(buf[i], sent[f])
  /\ \A h \in Flow : got[h] =< sent[h]
  /\ owner[f] = i \/ (owner[f] = None /\ i \notin active /\ \A h \in Flow : owner[h] # i)
  /\ sent' = [sent EXCEPT ![f] = @ + 1]
  /\ owner' = [owner EXCEPT ![f] = i]
  /\ q = [queue EXCEPT ![i] = Append(@, [flow |-> f, seq |-> sent[f]])]
  /\ buf' = [buf EXCEPT ![i] = Append(Kept(@), sent[f])]
  /\ act = (IF Len(q[i]) = 1 THEN active \cup {i} ELSE active)
  /\ c \in [Queues -> Nat]
  /\ \A j \in Queues : j # i => c[j] = cur[j]
  /\ conf.enable => c[i] = Head(q[i]).seq

LEMMA AppendedPacket ==
  ASSUME NEW q \in Seq(Packet), NEW e \in Packet
  PROVE  /\ Append(q, e) \in Seq(Packet) /\ Append(q, e) # <<>>
         /\ Len(Append(q, e)) = Len(q) + 1 /\ Len(q) \in Nat
         /\ \A j \in 1 .. Len(q) : Append(q, e)[j] = q[j]
         /\ Append(q, e)[Len(q) + 1] = e
BY AppendProperties, LenProperties

LEMMA SoundAfterSend ==
  ASSUME NEW f \in Flow, NEW i \in Queues, NEW q1, NEW act1, NEW c1,
         HandsOver(f, i, q1, act1, c1)
  PROVE  /\ FlowsTyped(sent', owner', buf', wire, got) /\ PortTyped(q1, act1, c1)
         /\ Sound(conf.enable, sent', owner', q1, act1, buf', c1, tx, wire, got)
         /\ BufferUpTo(buf'[i], sent'[f])
<1> USE DEF HandsOver
<1> DEFINE pkt == [flow |-> f, seq |-> sent[f]]
<1>1. /\ sent \in [Flow -> Nat] /\ sent[f] \in Nat /\ got \in [Flow -> Nat] /\ buf[i] \in Seq(Nat)
      /\ pkt \in Packet /\ queue[i] \in Seq(Packet) /\ active \in SUBSET Queues
      /\ Packets \in [Flow -> Nat] /\ i # None
  BY NicAssumption DEF FlowsTyped, PortTyped, Packet
<1>2. /\ sent' \in [Flow -> Nat] /\ sent'[f] = sent[f] + 1 /\ \A h \in Flow : h # f => sent'[h] = sent[h]
      /\ \A h \in Flow : sent'[h] =< Packets[h]
  BY <1>1 DEF FlowsTyped
<1>3. /\ owner' \in [Flow -> Queues \cup {None}] /\ owner'[f] = i
      /\ \A h \in Flow : h # f => owner'[h] = owner[h] /\ owner[h] # i
      /\ \A h, k \in Flow : h # k /\ owner'[h] # None => owner'[h] # owner'[k]
  <2>1. owner \in [Flow -> Queues \cup {None}]
        /\ \A h, k \in Flow : h # k /\ owner[h] # None => owner[h] # owner[k]
    BY DEF FlowsTyped
  <2>2. owner' \in [Flow -> Queues \cup {None}] /\ owner'[f] = i /\ \A h \in Flow : h # f => owner'[h] = owner[h]
    BY <2>1
  <2>3. \A h \in Flow : h # f => owner[h] # i
    BY <2>1, <1>1
  <2>. QED BY <2>1, <2>2, <2>3
<1>4. /\ buf'[i] \in Seq(Nat) /\ buf'[i] # <<>> /\ BufferUpTo(buf'[i], sent'[f])
      /\ buf' \in [Queues -> Seq(Nat)] /\ \A j \in Queues : j # i => buf'[j] = buf[j]
  <2>1. /\ Append(Kept(buf[i]), sent[f]) \in Seq(Nat) /\ Append(Kept(buf[i]), sent[f]) # <<>>
        /\ BufferUpTo(Append(Kept(buf[i]), sent[f]), sent[f] + 1)
    BY <1>1, KeptAndAppended
  <2>2. buf'[i] = Append(Kept(buf[i]), sent[f]) /\ \A j \in Queues : j # i => buf'[j] = buf[j]
    BY DEF FlowsTyped
  <2>3. buf' \in [Queues -> Seq(Nat)]
    BY <2>1 DEF FlowsTyped
  <2>. QED BY <2>1, <2>2, <2>3, <1>2
<1>5. FlowsTyped(sent', owner', buf', wire, got)
  BY <1>2, <1>3, <1>4 DEF FlowsTyped
<1>6. /\ q1[i] \in Seq(Packet) /\ q1[i] # <<>> /\ Len(q1[i]) = Len(queue[i]) + 1 /\ Len(queue[i]) \in Nat
      /\ \A j \in 1 .. Len(queue[i]) : q1[i][j] = queue[i][j]
      /\ q1[i][Len(queue[i]) + 1] = pkt
      /\ q1 \in [Queues -> Seq(Packet)] /\ \A j \in Queues : j # i => q1[j] = queue[j]
  <2> HIDE DEF pkt
  <2>1. /\ Append(queue[i], pkt) \in Seq(Packet) /\ Append(queue[i], pkt) # <<>>
        /\ Len(Append(queue[i], pkt)) = Len(queue[i]) + 1 /\ Len(queue[i]) \in Nat
        /\ \A j \in 1 .. Len(queue[i]) : Append(queue[i], pkt)[j] = queue[i][j]
        /\ Append(queue[i], pkt)[Len(queue[i]) + 1] = pkt
    BY <1>1, AppendedPacket, Zenon
  <2>2. q1 = [queue EXCEPT ![i] = Append(@, pkt)]
    BY DEF pkt
  <2>3. q1[i] = Append(queue[i], pkt) /\ \A j \in Queues : j # i => q1[j] = queue[j]
    BY <2>2 DEF PortTyped
  <2>4. q1 \in [Queues -> Seq(Packet)]
    BY <2>1, <2>2 DEF PortTyped
  <2>. QED BY <2>1, <2>3, <2>4
<1>7. \A j \in 1 .. Len(q1[i]) :
        \/ j = Len(queue[i]) + 1 /\ q1[i][j] = pkt
        \/ j \in 1 .. Len(queue[i]) /\ q1[i][j] = queue[i][j]
  BY <1>6
<1>8. PortTyped(q1, act1, c1) /\ act1 \subseteq active \cup {i}
  BY <1>1, <1>6 DEF PortTyped
<1>9. \A h \in Flow : sent[h] =< sent'[h] /\ sent[h] \in Nat /\ sent'[h] \in Nat
  BY <1>1, <1>2
<1>10. \A j \in act1 : \E h \in Flow : owner'[h] = j
  <2> SUFFICES ASSUME NEW j \in act1 PROVE \E h \in Flow : owner'[h] = j
    OBVIOUS
  <2>1. CASE j = i
    BY <2>1, <1>3
  <2>2. CASE j # i
    <3>1. j \in active /\ j # None
      BY <2>2, <1>1, <1>8, NicAssumption
    <3>2. PICK h \in Flow : owner[h] = j
      BY <3>1 DEF Sound
    <3>3. h # f
      BY <2>2, <3>1, <3>2
    <3>. QED BY <3>2, <3>3, <1>3
  <2>. QED BY <2>1, <2>2
<1>11. ASSUME NEW k \in Queues, NEW j \in 1 .. Len(q1[k])
       PROVE  q1[k][j].seq < sent'[q1[k][j].flow]
  <2>1. CASE q1[k][j] = pkt
    BY <2>1, <1>1, <1>2
  <2>2. CASE j \in 1 .. Len(queue[k]) /\ q1[k][j] = queue[k][j]
    <3>1. queue[k][j] \in Packet
      BY <2>2, ElementOfSeq DEF PortTyped
    <3>2. queue[k][j].seq \in Nat /\ queue[k][j].flow \in Flow
      BY <3>1 DEF Packet
    <3>3. queue[k][j].seq < sent[queue[k][j].flow]
      BY <2>2 DEF Sound
    <3>. QED BY <2>2, <3>2, <3>3, <1>9
  <2>. QED BY <2>1, <2>2, <1>6, <1>7
<1>12. tx # Idle => tx.seq < sent'[tx.flow]
  <2> SUFFICES ASSUME tx # Idle PROVE tx.seq < sent'[tx.flow]
    OBVIOUS
  <2>1. tx.flow \in Flow /\ tx.seq \in Nat
    BY DEF Packet
  <2>2. tx.seq < sent[tx.flow]
    BY DEF Sound
  <2>. QED BY <2>1, <2>2, <1>9
<1>13. \A h \in Flow : \A j \in 1 .. Len(wire[h]) : wire[h][j] < sent[h] /\ wire[h][j] \in Nat
  BY ElementOfSeq DEF Sound, FlowsTyped
<1>14. ASSUME NEW h \in Flow, owner'[h] # None, owner'[h] \in act1
       PROVE  Fresh(h, sent'[h], q1[owner'[h]], buf'[owner'[h]], tx, wire[h], got[h])
  <2>1. CASE h # f
    <3>1. owner'[h] = owner[h] /\ owner[h] # i /\ owner[h] \in active /\ owner[h] \in Queues
      BY <2>1, <1>3, <1>8, <1>14, <1>1
    <3>2. Fresh(h, sent[h], queue[owner[h]], buf[owner[h]], tx, wire[h], got[h])
      BY <3>1, <1>14 DEF Sound
    <3>3. sent'[h] = sent[h] /\ q1[owner'[h]] = queue[owner[h]] /\ buf'[owner'[h]] = buf[owner[h]]
      BY <2>1, <3>1, <1>2, <1>4, <1>6
    <3>. QED BY <3>2, <3>3
  <2>2. CASE h = f
    <3>1. /\ q1[i][Len(q1[i])].seq = sent'[f] - 1
          /\ got[f] < sent'[f]
          /\ \A j \in 1 .. Len(wire[f]) : wire[f][j] < sent'[f] - 1
      <4>1. sent'[f] - 1 = sent[f] /\ got[f] =< sent[f] /\ got[f] \in Nat
        BY <1>1, <1>2
      <4>2. q1[i][Len(q1[i])].seq = sent[f]
        BY <1>6
      <4>3. got[f] < sent'[f]
        BY <4>1, <1>1, <1>2
      <4>4. \A j \in 1 .. Len(wire[f]) : wire[f][j] < sent'[f] - 1
        BY <4>1, <1>13
      <4>. QED BY <4>1, <4>2, <4>3, <4>4
    <3>2. Of(f, tx) => tx.seq < sent'[f] - 1
      BY <1>1, <1>2 DEF Sound, Of
    <3>3. CASE Len(q1[i]) = 1
      <4>1. Len(queue[i]) = 0
        BY <3>3, <1>6
      <4>2. \A j \in 1 .. Len(q1[i]) : q1[i][j].flow = f
        BY <4>1, <1>7
      <4>3. \A j \in 1 .. Len(q1[i]) - 1 : q1[i][j].seq < sent'[f] - 1
        <5>1. \A n, j : n = 1 => j \notin 1 .. n - 1
          OBVIOUS
        <5>. QED BY <5>1, <3>3
      <4>. QED BY <4>2, <4>3, <3>1, <3>2, <1>3, <1>4, <1>6, <2>2 DEF Fresh
    <3>4. CASE Len(q1[i]) # 1
      <4>1. i \in active /\ owner[f] = i
        BY <3>4, <1>3, <1>14, <2>2
      <4>2. Fresh(f, sent[f], queue[i], buf[i], tx, wire[f], got[f])
        BY <4>1, <1>1 DEF Sound
      <4>3. \A j \in 1 .. Len(queue[i]) : queue[i][j].flow = f /\ queue[i][j].seq < sent[f]
        BY <4>2 DEF Fresh, Sound
      <4>4. \A j \in 1 .. Len(q1[i]) : q1[i][j].flow = f
        BY <4>3, <1>7
      <4>5. \A j \in 1 .. Len(q1[i]) - 1 : q1[i][j].seq < sent'[f] - 1
        <5> SUFFICES ASSUME NEW j \in 1 .. Len(q1[i]) - 1 PROVE q1[i][j].seq < sent'[f] - 1
          OBVIOUS
        <5>1. j \in 1 .. Len(queue[i]) /\ sent'[f] - 1 = sent[f]
          BY <1>1, <1>2, <1>6
        <5>. QED BY <5>1, <4>3, <1>6
      <4>. QED BY <4>4, <4>5, <3>1, <3>2, <1>3, <1>4, <1>6, <2>2 DEF Fresh
    <3>. QED BY <3>3, <3>4
  <2>. QED BY <2>1, <2>2
<1>15. ASSUME NEW h \in Flow
       PROVE  LastTravelsLast(h, tx, wire[h], got[h])
  BY DEF Sound
<1>16. conf.enable => \A j \in Queues : q1[j] # <<>> => c1[j] = Head(q1[j]).seq
  BY <1>6 DEF Sound
<1>17. Sound(conf.enable, sent', owner', q1, act1, buf', c1, tx, wire, got)
  <2>1. \A h \in Flow : \A j \in 1 .. Len(wire[h]) : wire[h][j] < sent'[h]
    BY <1>9, <1>13
  <2>. QED BY <2>1, <1>10, <1>11, <1>12, <1>14, <1>15, <1>16 DEF Sound
<1>. QED BY <1>4, <1>5, <1>8, <1>17

(* What a Send does, up to the moment the device looks at its port.         *)
SendParts(f, i, a, e, q, act, c) ==
  /\ owner' = [owner EXCEPT ![f] = i]
  /\ \/ owner[f] = i /\ e = ended
     \/ owner[f] = None /\ i \notin active /\ e[i] = FALSE /\ \A h \in Flow : owner[h] # i
  /\ \A j \in Queues : j # i => e[j] = ended[j]
  /\ \A j \in Queues : a[j] =< acked[j]
  /\ q = [queue EXCEPT ![i] = Append(@, [flow |-> f, seq |-> sent[f]])]
  /\ buf' = [buf EXCEPT ![i] = Append(Kept(@), sent[f])]
  /\ acked' = a
  /\ ended' = (IF sent[f] + 1 = Packets[f] THEN [e EXCEPT ![i] = TRUE] ELSE e)
  /\ lastseq' = (IF sent[f] + 1 = Packets[f] THEN [lastseq EXCEPT ![i] = Packets[f]] ELSE lastseq)
  /\ sent' = [sent EXCEPT ![f] = @ + 1]
  /\ DequeueAndTransmit(q, act, c, a, paused)
  /\ FlowsTyped(sent', owner', buf', wire, got) /\ PortTyped(q, act, c)
  /\ Sound(conf.enable, sent', owner', q, act, buf', c, tx, wire, got)
  /\ BufferUpTo(buf'[i], sent'[f])
  /\ Allocation'

Sending(f, i, a, e) == \E q, act, c : SendParts(f, i, a, e, q, act, c)

LEMMA ClientSendParts ==
  ASSUME IInv, NEW f \in Flow, ClientSend(f)
  PROVE  \E i \in Queues, a \in [Queues -> Nat], e \in [Queues -> BOOLEAN] : Sending(f, i, a, e)
<1>1. /\ sent[f] < Packets[f]
      /\ UNCHANGED <<conf, paused, key, entry, got, wire, answers, lost>>
      /\ FirstSend(f) \/ FurtherSend(f)
  BY DEF ClientSend, receiver, network
<1>2. /\ FlowsTyped(sent, owner, buf, wire, got) /\ PortTyped(queue, active, cur)
      /\ rrlast \in Queues \cup {0} /\ tx \in Packet \cup {Idle}
      /\ Sound(conf.enable, sent, owner, queue, active, buf, cur, tx, wire, got)
      /\ Allocation /\ OthersTyped
      /\ sent \in [Flow -> Nat] /\ owner \in [Flow -> Queues \cup {None}]
      /\ buf \in [Queues -> Seq(Nat)] /\ Packets \in [Flow -> Nat]
      /\ cur \in [Queues -> Nat] /\ acked \in [Queues -> Nat] /\ ended \in [Queues -> BOOLEAN]
  BY NicAssumption DEF IInv, FlowsTypedNow, PortTypedNow, PortSound, FlowsTyped, PortTyped, OthersTyped
<1>3. PICK i \in Queues, c \in [Queues -> Nat], a \in [Queues -> Nat], e \in [Queues -> BOOLEAN] :
        /\ SendOn(i, f, c, a, e)
        /\ owner' = [owner EXCEPT ![f] = i]
        /\ owner[f] = i \/ (owner[f] = None /\ e[i] = FALSE /\ \A h \in Flow : owner[h] # i)
        /\ \A j \in Queues : j # i => c[j] = cur[j] /\ e[j] = ended[j]
        /\ owner[f] = i => e = ended
        /\ \A j \in Queues : a[j] =< acked[j]
        /\ Allocation'
  <2>1. CASE FirstSend(f)
    <3> DEFINE i == Head(free)
    <3>1. /\ owner[f] = None /\ free # <<>> /\ free' = Tail(free)
          /\ owner' = [owner EXCEPT ![f] = i] /\ key' = key
          /\ SendOn(i, f, [cur EXCEPT ![i] = 0], [acked EXCEPT ![i] = 0], [ended EXCEPT ![i] = FALSE])
      BY <2>1, <1>1 DEF FirstSend
    <3>2. Allocation' /\ i \in Queues /\ \A h \in Flow : owner[h] # i
      BY <1>2, <3>1, QueueTaken
    <3> HIDE DEF i
    <3>3. /\ [cur EXCEPT ![i] = 0] \in [Queues -> Nat] /\ [acked EXCEPT ![i] = 0] \in [Queues -> Nat]
          /\ [ended EXCEPT ![i] = FALSE] \in [Queues -> BOOLEAN]
          /\ [ended EXCEPT ![i] = FALSE][i] = FALSE
          /\ \A j \in Queues : j # i => /\ [cur EXCEPT ![i] = 0][j] = cur[j]
                                        /\ [ended EXCEPT ![i] = FALSE][j] = ended[j]
      BY <1>2, <3>2
    <3>4. \A j \in Queues : [acked EXCEPT ![i] = 0][j] =< acked[j]
      BY <1>2, <3>2
    <3> DEFINE c == [cur EXCEPT ![i] = 0]
               a == [acked EXCEPT ![i] = 0]
               e == [ended EXCEPT ![i] = FALSE]
    <3>5. /\ c \in [Queues -> Nat] /\ a \in [Queues -> Nat] /\ e \in [Queues -> BOOLEAN]
          /\ SendOn(i, f, c, a, e) /\ e[i] = FALSE
          /\ \A j \in Queues : j # i => c[j] = cur[j] /\ e[j] = ended[j]
          /\ \A j \in Queues : a[j] =< acked[j]
      BY <3>1, <3>3, <3>4
    <3>6. owner[f] # i
      BY <3>2
    <3> HIDE DEF c, a, e
    <3>. QED BY <3>1, <3>2, <3>5, <3>6, Zenon
  <2>2. CASE FurtherSend(f)
    <3>1. /\ owner[f] # None /\ owner[f] \in Queues
          /\ SendOn(owner[f], f, cur, acked, ended) /\ owner' = owner /\ free' = free
      BY <2>2, <1>2 DEF FurtherSend
    <3>2. owner' = [owner EXCEPT ![f] = owner[f]]
      BY <1>2, <3>1
    <3>3. Allocation'
      BY <1>1, <1>2, <3>1 DEF Allocation, QueuesConserved, Owned
    <3>4. \A j \in Queues : acked[j] =< acked[j]
      BY <1>2
    <3>. QED BY <1>2, <3>1, <3>2, <3>3, <3>4
  <2>. QED BY <1>1, <2>1, <2>2
<1> DEFINE q == [queue EXCEPT ![i] = Append(@, [flow |-> f, seq |-> sent[f]])]
           act == IF Len(q[i]) = 1 THEN active \cup {i} ELSE active
           c1 == FollowHead(c, q, i)
           last == sent[f] + 1 = Packets[f]
<1>4. /\ buf' = [buf EXCEPT ![i] = Append(Kept(@), sent[f])]
      /\ acked' = a
      /\ ended' = (IF last THEN [e EXCEPT ![i] = TRUE] ELSE e)
      /\ lastseq' = (IF last THEN [lastseq EXCEPT ![i] = Packets[f]] ELSE lastseq)
      /\ sent' = [sent EXCEPT ![f] = @ + 1]
      /\ DequeueAndTransmit(q, act, c1, a, paused)
  BY <1>3 DEF SendOn, Activated
<1>5. i # None
  BY NicAssumption
<1>6. owner[f] = i \/ (owner[f] = None /\ i \notin active /\ \A h \in Flow : owner[h] # i)
  BY <1>2, <1>3 DEF Sound
<1>7. BufferUpTo(buf[i], sent[f]) /\ \A h \in Flow : got[h] =< sent[h]
  <2>1. buf[i] = <<>> => BufferUpTo(buf[i], sent[f])
    BY EmptySeq DEF BufferUpTo, Ascending
  <2>. QED BY <2>1, <1>5, <1>6 DEF IInv, Buffers, Receiving
<1>8. q \in [Queues -> Seq(Packet)] /\ q[i] # <<>>
  <2> DEFINE pkt == [flow |-> f, seq |-> sent[f]]
  <2>1. pkt \in Packet
    BY <1>2 DEF Packet
  <2>2. queue \in [Queues -> Seq(Packet)]
    BY <1>2 DEF PortTyped
  <2>3. q = [queue EXCEPT ![i] = Append(@, pkt)] /\ queue[i] \in Seq(Packet)
    BY <2>2
  <2> HIDE DEF pkt, q
  <2>4. Append(queue[i], pkt) \in Seq(Packet) /\ Append(queue[i], pkt) # <<>>
    BY <2>1, <2>3, AppendedPacket, Zenon
  <2>. QED BY <2>2, <2>3, <2>4
<1>9. /\ c1 \in [Queues -> Nat] /\ \A j \in Queues : j # i => c1[j] = cur[j]
      /\ conf.enable => c1[i] = Head(q[i]).seq
  <2>1. /\ c1 \in [Queues -> Nat] /\ \A j \in Queues : j # i => c1[j] = c[j]
        /\ conf.enable /\ q[i] # <<>> => c1[i] = Head(q[i]).seq
    <3> HIDE DEF q
    <3>. QED BY <1>8, FollowHeadTyped
  <2>. QED BY <2>1, <1>3, <1>8
<1>10. /\ FlowsTyped(sent', owner', buf', wire, got) /\ PortTyped(q, act, c1)
       /\ Sound(conf.enable, sent', owner', q, act, buf', c1, tx, wire, got)
       /\ BufferUpTo(buf'[i], sent'[f])
  <2>1. /\ q = [queue EXCEPT ![i] = Append(@, [flow |-> f, seq |-> sent[f]])]
        /\ act = IF Len(q[i]) = 1 THEN active \cup {i} ELSE active
    OBVIOUS
  <2>2. owner' = [owner EXCEPT ![f] = i]
    BY <1>3
  <2> HIDE DEF q, act, c1
  <2>3. HandsOver(f, i, q, act, c1)
    BY <2>1, <2>2, <1>1, <1>2, <1>4, <1>6, <1>7, <1>9 DEF HandsOver
  <2>. QED BY <2>3, SoundAfterSend
<1>11. q = [queue EXCEPT ![i] = Append(@, [flow |-> f, seq |-> sent[f]])]
  OBVIOUS
<1> HIDE DEF q, act, c1
<1>12. SendParts(f, i, a, e, q, act, c1)
  BY <1>3, <1>4, <1>6, <1>10, <1>11 DEF SendParts
<1>. QED BY <1>12 DEF Sending

LEMMA ClientSendKeeps ==
  ASSUME IInv, NEW f \in Flow, ClientSend(f)
  PROVE  IInv'
<1> DEFINE last == sent[f] + 1 = Packets[f]
<1>1. /\ sent[f] < Packets[f]
      /\ UNCHANGED <<conf, paused, key, entry, got, wire, answers, lost>>
      /\ FirstSend(f) \/ FurtherSend(f)
  BY DEF ClientSend, receiver, network
<1>2. /\ FlowsTyped(sent, owner, buf, wire, got) /\ PortTyped(queue, active, cur)
      /\ rrlast \in Queues \cup {0} /\ tx \in Packet \cup {Idle}
      /\ Sound(conf.enable, sent, owner, queue, active, buf, cur, tx, wire, got)
      /\ Allocation /\ OthersTyped
      /\ sent \in [Flow -> Nat] /\ owner \in [Flow -> Queues \cup {None}]
      /\ buf \in [Queues -> Seq(Nat)] /\ Packets \in [Flow -> Nat]
      /\ cur \in [Queues -> Nat] /\ acked \in [Queues -> Nat] /\ ended \in [Queues -> BOOLEAN]
  BY NicAssumption DEF IInv, FlowsTypedNow, PortTypedNow, PortSound, FlowsTyped, PortTyped, OthersTyped
<1>3a. PICK i \in Queues, a \in [Queues -> Nat], e \in [Queues -> BOOLEAN] : Sending(f, i, a, e)
  BY ClientSendParts
<1>3. PICK q, act, c : SendParts(f, i, a, e, q, act, c)
  BY <1>3a DEF Sending
<1>4. /\ buf' = [buf EXCEPT ![i] = Append(Kept(@), sent[f])]
      /\ acked' = a
      /\ ended' = (IF last THEN [e EXCEPT ![i] = TRUE] ELSE e)
      /\ lastseq' = (IF last THEN [lastseq EXCEPT ![i] = Packets[f]] ELSE lastseq)
      /\ sent' = [sent EXCEPT ![f] = @ + 1]
      /\ DequeueAndTransmit(q, act, c, a, paused)
  BY <1>3 DEF SendParts
<1>5. i # None
  BY NicAssumption
<1>6. /\ \/ owner[f] = i /\ e = ended
         \/ owner[f] = None /\ i \notin active /\ e[i] = FALSE /\ \A h \in Flow : owner[h] # i
      /\ owner' = [owner EXCEPT ![f] = i]
      /\ \A j \in Queues : j # i => e[j] = ended[j]
      /\ Allocation'
  BY <1>3 DEF SendParts
<1>7. /\ FlowsTyped(sent', owner', buf', wire, got) /\ PortTyped(q, act, c)
       /\ Sound(conf.enable, sent', owner', q, act, buf', c, tx, wire, got)
       /\ BufferUpTo(buf'[i], sent'[f])
  BY <1>3 DEF SendParts
<1>8. /\ PortTypedNow'
       /\ Sound(conf.enable, sent', owner', queue', active', buf', cur', tx', wire, got)
  BY <1>2, <1>4, <1>7, DequeueAndTransmitSound
<1>9. PortSound' /\ FlowsTypedNow'
  BY <1>1, <1>7, <1>8 DEF PortSound, FlowsTypedNow
<1>10. OthersTyped'
  <2>1. lastseq' \in [Queues -> Nat] /\ ended' \in [Queues -> BOOLEAN]
    BY <1>2, <1>4 DEF OthersTyped
  <2>. QED BY <2>1, <1>1, <1>2, <1>4 DEF OthersTyped
<1>11. /\ sent'[f] = sent[f] + 1 /\ \A h \in Flow : h # f => sent'[h] = sent[h]
       /\ owner'[f] = i /\ \A h \in Flow : h # f => owner'[h] = owner[h] /\ owner[h] # i
       /\ sent[f] \in Nat
  <2>1. \A h \in Flow : h # f => owner[h] # i
    BY <1>2, <1>5, <1>6 DEF FlowsTyped
  <2>. QED BY <2>1, <1>2, <1>6, <1>4
<1>12. FlowsLive'
  <2> SUFFICES ASSUME NEW h \in Flow
               PROVE  /\ owner'[h] = None => sent'[h] = 0 \/ sent'[h] = Packets[h]
                      /\ owner'[h] # None => sent'[h] >= 1
                      /\ owner'[h] # None /\ ended'[owner'[h]] =>
                           sent'[h] = Packets[h] /\ lastseq'[owner'[h]] = Packets[h]
    BY DEF FlowsLive
  <2>1. CASE h # f
    <3>1. owner[h] # None => owner[h] \in Queues
      BY <1>2
    <3>2. owner[h] # None => ended'[owner[h]] = ended[owner[h]] /\ lastseq'[owner[h]] = lastseq[owner[h]]
      <4> SUFFICES ASSUME owner[h] # None
                   PROVE  /\ ended'[owner[h]] = ended[owner[h]]
                          /\ lastseq'[owner[h]] = lastseq[owner[h]]
        OBVIOUS
      <4>1. owner[h] \in Queues /\ owner[h] # i /\ e[owner[h]] = ended[owner[h]]
        BY <2>1, <3>1, <1>6, <1>11
      <4>2. lastseq \in [Queues -> Nat]
        BY <1>2 DEF OthersTyped
      <4>3. ended' = e \/ ended' = [e EXCEPT ![i] = TRUE]
        BY <1>4
      <4>4. lastseq' = lastseq \/ lastseq' = [lastseq EXCEPT ![i] = Packets[f]]
        BY <1>4
      <4>. QED BY <4>1, <4>2, <4>3, <4>4
    <3>. QED BY <2>1, <3>2, <1>11 DEF IInv, FlowsLive
  <2>2. CASE h = f
    <3>1. CASE last
      <4>1. lastseq' = [lastseq EXCEPT ![i] = Packets[f]] /\ lastseq \in [Queues -> Nat]
        BY <3>1, <1>2, <1>4 DEF OthersTyped
      <4>2. lastseq'[i] = Packets[f]
        BY <4>1
      <4>. QED BY <2>2, <3>1, <4>2, <1>5, <1>11
    <3>2. CASE ~ last
      <4>1. ended' = e
        BY <3>2, <1>4
      <4>2. e[i] = FALSE
        BY <1>1, <1>6, <1>5, <1>11 DEF IInv, FlowsLive
      <4>. QED BY <2>2, <4>1, <4>2, <1>5, <1>11
    <3>. QED BY <3>1, <3>2
  <2>. QED BY <2>1, <2>2
<1>13. Buffers'
  <2>1. \A j \in Queues : j # i => buf'[j] = buf[j]
    BY <1>2, <1>4
  <2>2. ASSUME NEW j \in Queues, \A h \in Flow : owner'[h] # j
        PROVE  buf'[j] = <<>>
    <3>1. j # i /\ \A h \in Flow : owner[h] # j
      BY <2>2, <1>6, <1>5, <1>6, <1>11, NicAssumption
    <3>. QED BY <2>1, <3>1 DEF IInv, Buffers
  <2>3. ASSUME NEW h \in Flow, owner'[h] # None
        PROVE  BufferUpTo(buf'[owner'[h]], sent'[h])
    <3>1. CASE h = f
      BY <3>1, <1>7, <1>11
    <3>2. CASE h # f
      <4>1. owner'[h] = owner[h] /\ owner[h] \in Queues /\ owner[h] # i /\ sent'[h] = sent[h]
        BY <2>3, <3>2, <1>2, <1>11
      <4>. QED BY <4>1, <2>1, <2>3 DEF IInv, Buffers
    <3>. QED BY <3>1, <3>2
  <2>. QED BY <2>2, <2>3 DEF Buffers
<1>14. Receiving'
  <2> SUFFICES ASSUME NEW h \in Flow
               PROVE  /\ got[h] =< sent'[h]
                      /\ key[h] # None => entry[key[h]].expected =< got[h]
                      /\ got[h] = Packets[h] => key[h] = None
                      /\ \A j \in 1 .. Len(answers[h]) : GoodAnswer(h, answers[h][j])'
    BY <1>1 DEF Receiving
  <2>1. sent[h] \in Nat /\ got[h] \in Nat /\ (sent'[h] = sent[h] \/ sent'[h] = sent[h] + 1)
    BY <1>2, <1>11 DEF FlowsTyped
  <2>2. ASSUME NEW j \in 1 .. Len(answers[h])
        PROVE  GoodAnswer(h, answers[h][j])'
    <3>1. answers[h][j] \in Answer
      BY <1>2, ElementOfSeq DEF OthersTyped
    <3>2. answers[h][j].seq \in Nat
      BY <3>1 DEF Answer
    <3>3. GoodAnswer(h, answers[h][j])
      BY DEF IInv, Receiving
    <3>. QED BY <2>1, <3>2, <3>3, <1>1 DEF GoodAnswer
  <2>. QED BY <2>1, <2>2 DEF IInv, Receiving
<1>. QED BY <1>6, <1>8, <1>9, <1>10, <1>12, <1>13, <1>14 DEF IInv

-----------------------------------------------------------------------------
(* The network *)

LEMMA TailOf ==
  ASSUME NEW S, NEW q \in Seq(S), q # <<>>
  PROVE  /\ Head(q) = q[1] /\ q[1] \in S /\ 1 \in 1 .. Len(q) /\ Len(q) \in Nat \ {0}
         /\ Tail(q) \in Seq(S) /\ Len(Tail(q)) = Len(q) - 1
         /\ \A j \in 1 .. Len(Tail(q)) : j + 1 \in 1 .. Len(q) /\ Tail(q)[j] = q[j + 1]
<1>1. Len(q) \in Nat \ {0}
  BY EmptySeq
<1>2. 1 \in 1 .. Len(q)
  BY <1>1
<1>3. q[1] \in S
  BY <1>2, ElementOfSeq
<1>4. /\ Tail(q) \in Seq(S) /\ Len(Tail(q)) = Len(q) - 1
      /\ \A j \in 1 .. Len(Tail(q)) : Tail(q)[j] = q[j + 1]
  BY HeadTailProperties
<1>5. \A j \in 1 .. Len(Tail(q)) : j + 1 \in 1 .. Len(q)
  BY <1>1, <1>4
<1>. QED BY <1>1, <1>2, <1>3, <1>4, <1>5

(* A packet of f leaves the link, received or lost.                         *)
LEMMA SoundAfterTake ==
  ASSUME IInv, NEW f \in Flow, wire[f] # <<>>,
         wire' = [wire EXCEPT ![f] = Tail(@)],
         got' = got \/ got' = [got EXCEPT ![f] = wire[f][1] + 1]
  PROVE  /\ got[f] # Packets[f]
         /\ FlowsTyped(sent, owner, buf, wire', got')
         /\ Sound(conf.enable, sent, owner, queue, active, buf, cur, tx, wire', got')
<1>1. /\ FlowsTyped(sent, owner, buf, wire, got)
      /\ Sound(conf.enable, sent, owner, queue, active, buf, cur, tx, wire, got)
  BY DEF IInv, FlowsTypedNow, PortSound
<1>2. /\ wire \in [Flow -> Seq(Nat)] /\ got \in [Flow -> Nat] /\ sent \in [Flow -> Nat]
      /\ Packets \in [Flow -> Nat]
  BY <1>1, NicAssumption DEF FlowsTyped
<1>3. /\ wire'[f] = Tail(wire[f]) /\ wire'[f] \in Seq(Nat) /\ Len(wire'[f]) = Len(wire[f]) - 1
      /\ \A j \in 1 .. Len(wire'[f]) : j + 1 \in 1 .. Len(wire[f]) /\ wire'[f][j] = wire[f][j + 1]
      /\ 1 \in 1 .. Len(wire[f]) /\ Len(wire[f]) \in Nat \ {0} /\ wire[f][1] \in Nat
      /\ \A h \in Flow : h # f => wire'[h] = wire[h]
  <2>1. wire'[f] = Tail(wire[f]) /\ wire[f] \in Seq(Nat)
        /\ \A h \in Flow : h # f => wire'[h] = wire[h]
    BY <1>2
  <2>2. /\ wire[f][1] \in Nat /\ 1 \in 1 .. Len(wire[f]) /\ Len(wire[f]) \in Nat \ {0}
        /\ Tail(wire[f]) \in Seq(Nat) /\ Len(Tail(wire[f])) = Len(wire[f]) - 1
        /\ \A j \in 1 .. Len(Tail(wire[f])) :
             j + 1 \in 1 .. Len(wire[f]) /\ Tail(wire[f])[j] = wire[f][j + 1]
    <3>1. PICK q \in Seq(Nat) : q = wire[f] /\ q # <<>>
      BY <2>1
    <3>2. /\ q[1] \in Nat /\ 1 \in 1 .. Len(q) /\ Len(q) \in Nat \ {0}
          /\ Tail(q) \in Seq(Nat) /\ Len(Tail(q)) = Len(q) - 1
          /\ \A j \in 1 .. Len(Tail(q)) : j + 1 \in 1 .. Len(q) /\ Tail(q)[j] = q[j + 1]
      BY <3>1, TailOf
    <3>. QED BY <3>1, <3>2, Zenon
  <2>. QED BY <2>1, <2>2, Zenon
<1>4. wire' \in [Flow -> Seq(Nat)]
  BY <1>2, <1>3
<1>5. got' \in [Flow -> Nat]
  <2>1. wire[f][1] + 1 \in Nat
    BY <1>3
  <2>. QED BY <2>1, <1>2
<1>6. /\ \A h \in Flow : h # f => got'[h] = got[h]
      /\ got'[f] = got[f] \/ got'[f] = wire[f][1] + 1
  BY <1>2
<1>7. \A j \in 1 .. Len(wire'[f]) : j + 1 \in 1 .. Len(wire[f]) /\ wire'[f][j] = wire[f][j + 1]
  BY <1>3
<1>8. 1 \in 1 .. Len(wire[f])
  BY <1>3
<1>9. LastTravelsLast(f, tx, wire[f], got[f])
  BY <1>1 DEF Sound
<1>10. got[f] # Packets[f]
  BY <1>9 DEF LastTravelsLast
<1>11. ASSUME NEW h \in Flow
       PROVE  LastTravelsLast(h, tx, wire'[h], got'[h])
  <2>1. CASE h # f
    BY <2>1, <1>1, <1>3, <1>6 DEF Sound
  <2>2. CASE h = f
    <3>1. ASSUME NEW j \in 1 .. Len(wire'[f]), wire'[f][j] = Packets[f] - 1
          PROVE  j = Len(wire'[f]) /\ ~ Of(f, tx)
      <4>1. j + 1 = Len(wire[f]) /\ ~ Of(f, tx)
        BY <3>1, <1>7, <1>9 DEF LastTravelsLast
      <4>. QED BY <4>1, <1>3
    <3>2. ASSUME got'[f] = Packets[f]
          PROVE  wire'[f] = <<>> /\ ~ Of(f, tx)
      <4>1. wire[f][1] = Packets[f] - 1
        BY <3>2, <1>2, <1>3, <1>6, <1>10
      <4>2. 1 = Len(wire[f]) /\ ~ Of(f, tx)
        BY <4>1, <1>8, <1>9 DEF LastTravelsLast
      <4>3. Len(wire'[f]) = 0
        BY <4>2, <1>3
      <4>. QED BY <4>2, <4>3, <1>3, EmptySeq
    <3>. QED BY <2>2, <3>1, <3>2 DEF LastTravelsLast
  <2>. QED BY <2>1, <2>2
<1>12. ASSUME NEW h \in Flow, owner[h] # None, owner[h] \in active
       PROVE  Fresh(h, sent[h], queue[owner[h]], buf[owner[h]], tx, wire'[h], got'[h])
  <2>1. Fresh(h, sent[h], queue[owner[h]], buf[owner[h]], tx, wire[h], got[h])
    BY <1>1, <1>12 DEF Sound
  <2>2. CASE h # f
    BY <2>1, <2>2, <1>3, <1>6
  <2>3. CASE h = f
    <3>1. \A j \in 1 .. Len(wire'[f]) : wire'[f][j] < sent[f] - 1
      BY <2>1, <2>3, <1>7 DEF Fresh
    <3>2. wire[f][1] < sent[f] - 1
      BY <2>1, <2>3, <1>8 DEF Fresh
    <3>3. got'[f] < sent[f]
      BY <2>1, <2>3, <3>2, <1>2, <1>3, <1>6 DEF Fresh
    <3>. QED BY <2>1, <2>3, <3>1, <3>3 DEF Fresh
  <2>. QED BY <2>2, <2>3
<1>13. \A h \in Flow : \A j \in 1 .. Len(wire'[h]) : wire'[h][j] < sent[h]
  <2> SUFFICES ASSUME NEW h \in Flow, NEW j \in 1 .. Len(wire'[h]) PROVE wire'[h][j] < sent[h]
    OBVIOUS
  <2>1. CASE h # f
    BY <2>1, <1>1, <1>3 DEF Sound
  <2>2. CASE h = f
    BY <2>2, <1>1, <1>7 DEF Sound
  <2>. QED BY <2>1, <2>2
<1>14. FlowsTyped(sent, owner, buf, wire', got')
  BY <1>1, <1>4, <1>5 DEF FlowsTyped
<1>15. Sound(conf.enable, sent, owner, queue, active, buf, cur, tx, wire', got')
  BY <1>1, <1>11, <1>12, <1>13 DEF Sound
<1>. QED BY <1>10, <1>14, <1>15

LEMMA LoseDataKeeps ==
  ASSUME IInv, NEW f \in Flow, LoseData(f)
  PROVE  IInv'
<1>1. /\ wire[f] # <<>> /\ lost < MaxLoss /\ lost' = lost + 1
      /\ wire' = [wire EXCEPT ![f] = Tail(@)]
      /\ UNCHANGED <<conf, port, flows, paused, receiver, answers>>
  BY DEF LoseData
<1>2. got' = got
  BY <1>1 DEF receiver
<1>3. /\ FlowsTyped(sent, owner, buf, wire', got')
      /\ Sound(conf.enable, sent, owner, queue, active, buf, cur, tx, wire', got')
  BY <1>1, <1>2, SoundAfterTake
<1>4. FlowsTypedNow' /\ PortSound'
  BY <1>1, <1>3 DEF FlowsTypedNow, PortSound, port, flows
<1>5. PortTypedNow' /\ Allocation'
  BY <1>1 DEF IInv, PortTypedNow, Allocation, QueuesConserved, Owned, port, flows, receiver
<1>6. OthersTyped'
  <2>1. lost' \in 0 .. MaxLoss
    BY <1>1, NicAssumption DEF IInv, OthersTyped
  <2>. QED BY <2>1, <1>1 DEF IInv, OthersTyped, flows, receiver
<1>7. FlowsLive' /\ Buffers' /\ Receiving'
  BY <1>1 DEF IInv, FlowsLive, Buffers, Receiving, GoodAnswer, flows, receiver
<1>. QED BY <1>4, <1>5, <1>6, <1>7 DEF IInv

(* An ACK or NACK of f leaves the network: the others are as good as before.*)
LEMMA AnswerTaken ==
  ASSUME IInv, NEW f \in Flow, answers[f] # <<>>,
         answers' = [answers EXCEPT ![f] = Tail(@)], sent' = sent, got' = got
  PROVE  /\ answers' \in [Flow -> Seq(Answer)]
         /\ Head(answers[f]) \in Answer /\ GoodAnswer(f, Head(answers[f]))
         /\ \A h \in Flow : \A j \in 1 .. Len(answers'[h]) :
              /\ answers'[h][j].kind = "nack" => answers'[h][j].seq + 1 < sent[h]
              /\ answers'[h][j].kind = "ack" =>
                   got[h] = Packets[h] \/ (answers'[h][j].seq =< got[h] /\ answers'[h][j].seq < Packets[h])
<1>1. answers \in [Flow -> Seq(Answer)]
  BY DEF IInv, OthersTyped
<1>2. /\ answers'[f] = Tail(answers[f]) /\ Tail(answers[f]) \in Seq(Answer)
      /\ Head(answers[f]) \in Answer /\ Head(answers[f]) = answers[f][1]
      /\ Len(answers[f]) \in Nat \ {0} /\ Len(Tail(answers[f])) = Len(answers[f]) - 1
      /\ \A j \in 1 .. Len(Tail(answers[f])) :
           j + 1 \in 1 .. Len(answers[f]) /\ Tail(answers[f])[j] = answers[f][j + 1]
      /\ 1 \in 1 .. Len(answers[f])
      /\ \A h \in Flow : h # f => answers'[h] = answers[h]
  <2>1. answers[f] \in Seq(Answer) /\ answers'[f] = Tail(answers[f])
        /\ \A h \in Flow : h # f => answers'[h] = answers[h]
    BY <1>1
  <2>2. /\ Tail(answers[f]) \in Seq(Answer) /\ Len(Tail(answers[f])) = Len(answers[f]) - 1
        /\ Head(answers[f]) = answers[f][1] /\ answers[f][1] \in Answer
        /\ 1 \in 1 .. Len(answers[f]) /\ Len(answers[f]) \in Nat \ {0}
        /\ \A j \in 1 .. Len(Tail(answers[f])) :
             j + 1 \in 1 .. Len(answers[f]) /\ Tail(answers[f])[j] = answers[f][j + 1]
    BY ONLY <2>1, answers[f] # <<>>, TailOf
  <2>3. Head(answers[f]) \in Answer
    BY ONLY <2>2
  <2>. QED BY ONLY <2>1, <2>2, <2>3, Zenon
<1>3. answers' \in [Flow -> Seq(Answer)]
  BY <1>1, <1>2
<1>4. \A h \in Flow : \A j \in 1 .. Len(answers[h]) : GoodAnswer(h, answers[h][j])
  BY DEF IInv, Receiving
<1>5. GoodAnswer(f, Head(answers[f]))
  BY <1>2, <1>4
<1>6. ASSUME NEW h \in Flow, NEW j \in 1 .. Len(answers'[h])
      PROVE  GoodAnswer(h, answers'[h][j])
  <2>1. CASE h # f
    BY <2>1, <1>2, <1>4
  <2>2. CASE h = f
    <3>1. j + 1 \in 1 .. Len(answers[f]) /\ answers'[h][j] = answers[f][j + 1]
      BY <2>2, <1>2
    <3>. QED BY <2>2, <3>1, <1>4
  <2>. QED BY <2>1, <2>2
<1>. QED BY <1>2, <1>3, <1>5, <1>6 DEF GoodAnswer

(* What an answer that leaves the network does not touch.                   *)
LEMMA AnswerTakenOnly ==
  ASSUME IInv, NEW f \in Flow, answers[f] # <<>>,
         answers' = [answers EXCEPT ![f] = Tail(@)], lost' \in 0 .. MaxLoss,
         UNCHANGED <<conf, port, flows, paused, receiver, wire>>
  PROVE  IInv'
<1>1. sent' = sent /\ got' = got
  BY DEF flows, receiver
<1>2. /\ answers' \in [Flow -> Seq(Answer)]
      /\ \A h \in Flow : \A j \in 1 .. Len(answers'[h]) :
           /\ answers'[h][j].kind = "nack" => answers'[h][j].seq + 1 < sent[h]
           /\ answers'[h][j].kind = "ack" =>
                got[h] = Packets[h] \/ (answers'[h][j].seq =< got[h] /\ answers'[h][j].seq < Packets[h])
  BY <1>1, AnswerTaken
<1>3. FlowsTypedNow' /\ PortSound'
  BY DEF IInv, FlowsTypedNow, PortSound, port, flows, receiver
<1>4. PortTypedNow' /\ Allocation'
  BY DEF IInv, PortTypedNow, Allocation, QueuesConserved, Owned, port, flows, receiver
<1>5. OthersTyped'
  BY <1>2 DEF IInv, OthersTyped, flows, receiver
<1>6. FlowsLive' /\ Buffers'
  BY DEF IInv, FlowsLive, Buffers, flows
<1>7. Receiving'
  BY <1>1, <1>2 DEF IInv, Receiving, GoodAnswer, receiver
<1>. QED BY <1>3, <1>4, <1>5, <1>6, <1>7 DEF IInv

LEMMA LoseAnswerKeeps ==
  ASSUME IInv, NEW f \in Flow, LoseAnswer(f)
  PROVE  IInv'
<1>1. lost' \in 0 .. MaxLoss
  BY NicAssumption DEF LoseAnswer, IInv, OthersTyped
<1>. QED BY <1>1, AnswerTakenOnly DEF LoseAnswer

-----------------------------------------------------------------------------
(* NACKs and ACKs at the sender *)

LEMMA ChunkStartBelow ==
  ASSUME NEW x \in Nat, NEW c \in Nat \ {0}
  PROVE  (x \div c) * c \in Nat /\ (x \div c) * c =< x
<1>1. x \div c \in Nat /\ x % c \in Nat /\ x = c * (x \div c) + (x % c)
  BY SMT
<1>. QED BY <1>1, SMT

LEMMA GoBackBelow ==
  ASSUME conf \in Config, NEW x \in Nat
  PROVE  GoBack(x) \in Nat /\ GoBack(x) =< x
<1>1. conf.chunk \in Nat \ {0}
  BY DEF Config
<1>2. ChunkStart(x) \in Nat /\ ChunkStart(x) =< x
  BY <1>1, ChunkStartBelow DEF ChunkStart
<1>. QED BY <1>2 DEF GoBack

(* RecoverQueue: what the queue held is replaced by what is still buffered. *)
LEMMA SoundAfterRecover ==
  ASSUME IInv, NEW f \in Flow, NEW i \in Queues, owner[f] = i, NEW x \in Nat, x < sent[f],
         Recover(f, i, Trim(buf[i], x)), conf' = conf, sent' = sent, wire' = wire, got' = got
  PROVE  PortTypedNow' /\ FlowsTypedNow' /\ PortSound' /\ Buffers'
<1> DEFINE b == Trim(buf[i], x)
           q == [queue EXCEPT ![i] = [j \in 1 .. Len(b) |-> [flow |-> f, seq |-> b[j]]]]
<1>1. /\ FlowsTyped(sent, owner, buf, wire, got) /\ PortTyped(queue, active, cur)
      /\ Sound(conf.enable, sent, owner, queue, active, buf, cur, tx, wire, got)
      /\ owner \in [Flow -> Queues \cup {None}] /\ buf \in [Queues -> Seq(Nat)]
      /\ queue \in [Queues -> Seq(Packet)] /\ cur \in [Queues -> Nat] /\ sent \in [Flow -> Nat]
      /\ rrlast \in Queues \cup {0} /\ tx \in Packet \cup {Idle}
  BY DEF IInv, FlowsTypedNow, PortTypedNow, PortSound, FlowsTyped, PortTyped
<1>2. /\ buf' = [buf EXCEPT ![i] = b] /\ queue' = q /\ cur' = FollowHead(cur, q, i)
      /\ UNCHANGED <<active, rrlast, tx, owner>>
  BY DEF Recover
<1>3. i # None /\ BufferUpTo(buf[i], sent[f]) /\ buf[i] \in Seq(Nat) /\ sent[f] \in Nat
  BY <1>1, NicAssumption DEF IInv, Buffers
<1>4. b \in Seq(Nat) /\ BufferUpTo(b, sent[f]) /\ (buf[i] # <<>> => b # <<>>)
  BY <1>3, TrimIsTail
<1> HIDE DEF b
<1>5. Len(b) \in Nat /\ \A j \in 1 .. Len(b) : b[j] \in Nat
  BY <1>4, LenProperties, ElementOfSeq
<1>6. \A j \in 1 .. Len(b) : b[j] =< sent[f] - 1 /\ (j # Len(b) => b[j] < sent[f] - 1)
  <2> SUFFICES ASSUME NEW j \in 1 .. Len(b)
               PROVE  b[j] =< sent[f] - 1 /\ (j # Len(b) => b[j] < sent[f] - 1)
    OBVIOUS
  <2>1. b # <<>> /\ Len(b) \in 1 .. Len(b)
    BY <1>4, <1>5, EmptySeq
  <2>2. b[Len(b)] = sent[f] - 1 /\ (j # Len(b) => b[j] < b[Len(b)])
    BY <1>4, <1>5, <2>1 DEF BufferUpTo, Ascending
  <2>. QED BY <2>2, <1>3, <1>5
<1> DEFINE r == [j \in 1 .. Len(b) |-> [flow |-> f, seq |-> b[j]]]
<1>7. r \in Seq(Packet) /\ Len(r) = Len(b)
  <2>1. \A j \in 1 .. Len(b) : [flow |-> f, seq |-> b[j]] \in Packet
    BY <1>5 DEF Packet
  <2>. QED BY <1>5, <2>1
<1>8. \A j \in 1 .. Len(r) : r[j].flow = f /\ r[j].seq = b[j] /\ j \in 1 .. Len(b)
  BY <1>7
<1>9. q = [queue EXCEPT ![i] = r]
  OBVIOUS
<1> HIDE DEF r, q
<1>10. q[i] = r /\ q \in [Queues -> Seq(Packet)] /\ \A j \in Queues : j # i => q[j] = queue[j]
  BY <1>1, <1>7, <1>9
<1>11. /\ cur' \in [Queues -> Nat] /\ \A j \in Queues : j # i => cur'[j] = cur[j]
       /\ conf.enable /\ q[i] # <<>> => cur'[i] = Head(q[i]).seq
  <2>1. /\ FollowHead(cur, q, i) \in [Queues -> Nat]
        /\ \A j \in Queues : j # i => FollowHead(cur, q, i)[j] = cur[j]
        /\ conf.enable /\ q[i] # <<>> => FollowHead(cur, q, i)[i] = Head(q[i]).seq
    <3>1. q \in [Queues -> Seq(Packet)] /\ cur \in [Queues -> Nat] /\ i \in Queues
      BY <1>1, <1>10
    <3>. QED BY ONLY <3>1, FollowHeadTyped
  <2>. QED BY <2>1, <1>2
<1>12. PortTypedNow'
  BY <1>1, <1>2, <1>10, <1>11 DEF PortTypedNow, PortTyped
<1>13. /\ buf' \in [Queues -> Seq(Nat)] /\ buf'[i] = b
       /\ \A j \in Queues : j # i => buf'[j] = buf[j]
  BY <1>1, <1>2, <1>4
<1>14. FlowsTypedNow'
  BY <1>1, <1>2, <1>13 DEF FlowsTypedNow, FlowsTyped
<1>15. \A h \in Flow : h # f => owner[h] # i
  BY <1>1, <1>3 DEF FlowsTyped
<1>16. Buffers'
  <2>1. ASSUME NEW j \in Queues, \A h \in Flow : owner[h] # j
        PROVE  buf'[j] = <<>>
    BY <2>1, <1>13 DEF IInv, Buffers
  <2>2. ASSUME NEW h \in Flow, owner[h] # None
        PROVE  BufferUpTo(buf'[owner[h]], sent[h])
    <3>1. CASE h = f
      BY <3>1, <1>4, <1>13
    <3>2. CASE h # f
      BY <3>2, <2>2, <1>1, <1>13, <1>15 DEF IInv, Buffers
    <3>. QED BY <3>1, <3>2
  <2>. QED BY <2>1, <2>2, <1>2 DEF Buffers
<1>17. ASSUME NEW k \in Queues, NEW j \in 1 .. Len(q[k])
       PROVE  q[k][j].seq < sent[q[k][j].flow]
  <2>1. CASE k = i
    <3>1. q[k][j].flow = f /\ q[k][j].seq = b[j] /\ j \in 1 .. Len(b)
      BY <2>1, <1>8, <1>10
    <3>2. b[j] =< sent[f] - 1 /\ b[j] \in Nat
      BY <3>1, <1>5, <1>6
    <3>. QED BY <3>1, <3>2, <1>3
  <2>2. CASE k # i
    BY <2>2, <1>1, <1>10 DEF Sound
  <2>. QED BY <2>1, <2>2
<1>18. ASSUME NEW h \in Flow, owner[h] # None, owner[h] \in active
       PROVE  Fresh(h, sent[h], q[owner[h]], buf'[owner[h]], tx, wire[h], got[h])
  <2>1. Fresh(h, sent[h], queue[owner[h]], buf[owner[h]], tx, wire[h], got[h]) /\ owner[h] \in Queues
    BY <1>1, <1>18 DEF Sound
  <2>2. CASE h # f
    BY <2>1, <2>2, <1>10, <1>13, <1>15
  <2>3. CASE h = f
    <3>1. b # <<>>
      BY <2>1, <2>3, <1>4 DEF Fresh
    <3>2. Len(b) \in 1 .. Len(b) /\ b[Len(b)] = sent[f] - 1 /\ Len(b) # 0
      BY <3>1, <1>4, <1>5, EmptySeq DEF BufferUpTo
    <3>3. r[Len(r)].seq = sent[f] - 1 /\ r # <<>>
      BY <3>2, <1>7, <1>8, EmptySeq
    <3>4. \A j \in 1 .. Len(r) - 1 : r[j].seq < sent[f] - 1
      <4> SUFFICES ASSUME NEW j \in 1 .. Len(r) - 1 PROVE r[j].seq < sent[f] - 1
        OBVIOUS
      <4>1. j \in 1 .. Len(r) /\ j \in 1 .. Len(b) /\ j # Len(b)
        BY <1>5, <1>7
      <4>. QED BY <4>1, <1>6, <1>8
    <3>. QED BY <2>1, <2>3, <3>1, <3>3, <3>4, <1>8, <1>10, <1>13 DEF Fresh
  <2>. QED BY <2>2, <2>3
<1>19. conf.enable => \A k \in Queues : q[k] # <<>> => cur'[k] = Head(q[k]).seq
  BY <1>1, <1>10, <1>11 DEF Sound
<1>20. Sound(conf.enable, sent, owner, q, active, buf', cur', tx, wire, got)
  BY <1>1, <1>17, <1>18, <1>19 DEF Sound
<1>21. PortSound'
  BY <1>2, <1>20 DEF PortSound
<1>. QED BY <1>12, <1>14, <1>16, <1>21

LEMMA ReceiveNackKeeps ==
  ASSUME IInv, NEW f \in Flow, ReceiveNack(f)
  PROVE  IInv'
<1>1. /\ answers[f] # <<>> /\ Head(answers[f]).kind = "nack"
      /\ answers' = [answers EXCEPT ![f] = Tail(@)]
      /\ UNCHANGED <<conf, paused, key, entry, got, wire, lost, sent>>
  BY DEF ReceiveNack, Answered, receiver
<1>2. /\ answers' \in [Flow -> Seq(Answer)]
      /\ Head(answers[f]) \in Answer /\ GoodAnswer(f, Head(answers[f]))
      /\ \A h \in Flow : \A j \in 1 .. Len(answers'[h]) :
           /\ answers'[h][j].kind = "nack" => answers'[h][j].seq + 1 < sent[h]
           /\ answers'[h][j].kind = "ack" =>
                got[h] = Packets[h] \/ (answers'[h][j].seq =< got[h] /\ answers'[h][j].seq < Packets[h])
  BY <1>1, AnswerTaken
<1>3. CASE owner[f] = None
  <2>1. UNCHANGED <<port, flows>>
    BY <1>3 DEF ReceiveNack
  <2>2. lost' \in 0 .. MaxLoss
    BY <1>1 DEF IInv, OthersTyped
  <2>. QED BY <1>1, <2>1, <2>2, AnswerTakenOnly DEF receiver
<1>4. CASE owner[f] # None
  <2> DEFINE x == GoBack(Head(answers[f]).seq)
  <2>1. PICK i \in Queues : owner[f] = i
    BY <1>4 DEF IInv, Allocation
  <2>2. Recover(f, i, Trim(buf[i], x))
    BY <1>4, <2>1 DEF ReceiveNack
  <2>3. x \in Nat /\ x < sent[f]
    <3>1. conf \in Config
      BY NicAssumption DEF IInv, OthersTyped
    <3>2. Head(answers[f]).seq \in Nat /\ Head(answers[f]).seq + 1 < sent[f]
      BY <1>1, <1>2 DEF Answer, GoodAnswer
    <3>3. sent[f] \in Nat
      BY DEF IInv, FlowsTypedNow, FlowsTyped
    <3>. QED BY <3>1, <3>2, <3>3, GoBackBelow
  <2> HIDE DEF x
  <2>4. PortTypedNow' /\ FlowsTypedNow' /\ PortSound' /\ Buffers'
    BY <1>1, <2>1, <2>2, <2>3, SoundAfterRecover
  <2>5. UNCHANGED <<owner, free, acked, lastseq, ended>>
    BY <2>2 DEF Recover
  <2>6. Allocation'
    BY <1>1, <2>5 DEF IInv, Allocation, QueuesConserved, Owned
  <2>7. OthersTyped'
    BY <1>1, <1>2, <2>5 DEF IInv, OthersTyped
  <2>8. FlowsLive'
    BY <1>1, <2>5 DEF IInv, FlowsLive
  <2>9. Receiving'
    BY <1>1, <1>2 DEF IInv, Receiving, GoodAnswer
  <2>. QED BY <2>4, <2>6, <2>7, <2>8, <2>9 DEF IInv
<1>. QED BY <1>3, <1>4

(* Nothing of a finished flow is in an active queue.                        *)
LEMMA FinishedIsInactive ==
  ASSUME IInv, NEW f \in Flow, owner[f] # None, owner[f] \in active
  PROVE  got[f] < sent[f] /\ got[f] # Packets[f] /\ buf[owner[f]] # <<>>
<1>1. Fresh(f, sent[f], queue[owner[f]], buf[owner[f]], tx, wire[f], got[f])
  BY DEF IInv, PortSound, Sound
<1>2. /\ sent[f] \in Nat /\ got[f] \in Nat /\ sent[f] =< Packets[f] /\ Packets[f] \in Nat
  BY NicAssumption DEF IInv, FlowsTypedNow, FlowsTyped
<1>. QED BY <1>1, <1>2 DEF Fresh

(* The buffer is trimmed to x, or the queue is given back for good.         *)
LEMMA SoundAfterTrim ==
  ASSUME IInv, NEW f \in Flow, NEW i \in Queues, owner[f] = i, NEW x \in Nat,
         i \in active => x < sent[f],
         buf' = [buf EXCEPT ![i] = Trim(@, x)],
         UNCHANGED <<conf, port, sent, owner, wire, got>>
  PROVE  FlowsTypedNow' /\ PortSound' /\ Buffers'
<1>1. /\ owner \in [Flow -> Queues \cup {None}] /\ buf \in [Queues -> Seq(Nat)]
      /\ \A h, k \in Flow : h # k /\ owner[h] # None => owner[h] # owner[k]
      /\ sent \in [Flow -> Nat] /\ i # None
      /\ Sound(conf.enable, sent, owner, queue, active, buf, cur, tx, wire, got)
  BY NicAssumption DEF IInv, FlowsTypedNow, FlowsTyped, PortSound
<1>2. buf[i] \in Seq(Nat) /\ BufferUpTo(buf[i], sent[f]) /\ sent[f] \in Nat
  BY <1>1 DEF IInv, Buffers
<1>3. /\ Trim(buf[i], x) \in Seq(Nat) /\ BufferUpTo(Trim(buf[i], x), sent[f])
      /\ buf[i] # <<>> /\ x < sent[f] => Trim(buf[i], x) # <<>>
  BY <1>2, TrimIsTail
<1>4. /\ buf'[i] = Trim(buf[i], x) /\ buf' \in [Queues -> Seq(Nat)]
      /\ \A j \in Queues : j # i => buf'[j] = buf[j]
  BY <1>1, <1>3
<1>5. \A h \in Flow : h # f => owner[h] # i
  BY <1>1
<1>6. FlowsTypedNow'
  BY <1>4 DEF IInv, FlowsTypedNow, FlowsTyped
<1>7. Buffers'
  <2>1. ASSUME NEW j \in Queues, \A h \in Flow : owner[h] # j
        PROVE  buf'[j] = <<>>
    BY <2>1, <1>4 DEF IInv, Buffers
  <2>2. ASSUME NEW h \in Flow, owner[h] # None
        PROVE  BufferUpTo(buf'[owner[h]], sent[h])
    <3>1. CASE h = f
      BY <3>1, <1>3, <1>4
    <3>2. CASE h # f
      BY <3>2, <2>2, <1>1, <1>4, <1>5 DEF IInv, Buffers
    <3>. QED BY <3>1, <3>2
  <2>. QED BY <2>1, <2>2 DEF Buffers
<1>8. ASSUME NEW h \in Flow, owner[h] # None, owner[h] \in active
      PROVE  Fresh(h, sent[h], queue[owner[h]], buf'[owner[h]], tx, wire[h], got[h])
  <2>1. Fresh(h, sent[h], queue[owner[h]], buf[owner[h]], tx, wire[h], got[h]) /\ owner[h] \in Queues
    BY <1>1, <1>8 DEF Sound
  <2>2. CASE h # f
    BY <2>1, <2>2, <1>4, <1>5
  <2>3. CASE h = f
    <3>1. buf[i] # <<>> /\ x < sent[f]
      BY <2>1, <2>3, <1>8 DEF Fresh
    <3>. QED BY <2>1, <2>3, <3>1, <1>3, <1>4 DEF Fresh
  <2>. QED BY <2>2, <2>3
<1>9. Sound(conf.enable, sent, owner, queue, active, buf', cur, tx, wire, got)
  BY <1>1, <1>8 DEF Sound
<1>10. PortSound'
  BY <1>9 DEF PortSound, port
<1>. QED BY <1>6, <1>7, <1>10

LEMMA SoundAfterRelease ==
  ASSUME IInv, NEW f \in Flow, NEW i \in Queues, owner[f] = i, i \notin active,
         Release(f, i), UNCHANGED <<conf, port, sent, wire, got>>
  PROVE  FlowsTypedNow' /\ PortSound' /\ Buffers'
<1>1. /\ owner \in [Flow -> Queues \cup {None}] /\ buf \in [Queues -> Seq(Nat)]
      /\ \A h, k \in Flow : h # k /\ owner[h] # None => owner[h] # owner[k]
      /\ i # None /\ active \in SUBSET Queues
      /\ Sound(conf.enable, sent, owner, queue, active, buf, cur, tx, wire, got)
  BY NicAssumption DEF IInv, FlowsTypedNow, FlowsTyped, PortSound, PortTypedNow, PortTyped
<1>2. owner' = [owner EXCEPT ![f] = None] /\ buf' = [buf EXCEPT ![i] = <<>>]
  BY DEF Release
<1>3. /\ owner'[f] = None /\ owner' \in [Flow -> Queues \cup {None}]
      /\ \A h \in Flow : h # f => owner'[h] = owner[h] /\ owner[h] # i
  BY <1>1, <1>2
<1>4. /\ buf'[i] = <<>> /\ buf' \in [Queues -> Seq(Nat)]
      /\ \A j \in Queues : j # i => buf'[j] = buf[j]
  <2>1. <<>> \in Seq(Nat)
    BY EmptySeq
  <2>. QED BY <2>1, <1>1, <1>2
<1>5. FlowsTypedNow'
  BY <1>1, <1>3, <1>4 DEF IInv, FlowsTypedNow, FlowsTyped
<1>6. Buffers'
  <2>1. ASSUME NEW j \in Queues, \A h \in Flow : owner'[h] # j
        PROVE  buf'[j] = <<>>
    <3>1. CASE j = i
      BY <3>1, <1>4
    <3>2. CASE j # i
      <4>1. \A h \in Flow : owner[h] # j
        BY <2>1, <3>2, <1>3
      <4>. QED BY <3>2, <4>1, <1>4 DEF IInv, Buffers
    <3>. QED BY <3>1, <3>2
  <2>2. ASSUME NEW h \in Flow, owner'[h] # None
        PROVE  BufferUpTo(buf'[owner'[h]], sent[h])
    <3>1. h # f /\ owner'[h] = owner[h] /\ owner[h] # i /\ owner[h] \in Queues
      BY <2>2, <1>1, <1>3
    <3>. QED BY <2>2, <3>1, <1>4 DEF IInv, Buffers
  <2>. QED BY <2>1, <2>2 DEF Buffers
<1>7. \A j \in active : \E h \in Flow : owner'[h] = j
  <2> SUFFICES ASSUME NEW j \in active PROVE \E h \in Flow : owner'[h] = j
    OBVIOUS
  <2>1. PICK h \in Flow : owner[h] = j
    BY <1>1 DEF Sound
  <2>2. h # f
    BY <2>1
  <2>. QED BY <2>1, <2>2, <1>3
<1>8. ASSUME NEW h \in Flow, owner'[h] # None, owner'[h] \in active
      PROVE  Fresh(h, sent[h], queue[owner'[h]], buf'[owner'[h]], tx, wire[h], got[h])
  <2>1. owner'[h] = owner[h] /\ owner[h] # i /\ owner[h] \in Queues
    BY <1>1, <1>3, <1>8
  <2>. QED BY <2>1, <1>1, <1>4, <1>8 DEF Sound
<1>9. Sound(conf.enable, sent, owner', queue, active, buf', cur, tx, wire, got)
  BY <1>1, <1>7, <1>8 DEF Sound
<1>10. PortSound'
  BY <1>9 DEF PortSound, port
<1>. QED BY <1>5, <1>6, <1>10

(* An ACK releases a queue only when the receiver has the whole flow.       *)
LEMMA ReleasedIsReceived ==
  ASSUME IInv, NEW f \in Flow, owner[f] # None, NEW s \in Nat,
         got[f] = Packets[f] \/ (s =< got[f] /\ s < Packets[f]),
         s >= lastseq[owner[f]], ended[owner[f]]
  PROVE  got[f] = Packets[f] /\ sent[f] = Packets[f] /\ owner[f] \notin active
<1>1. sent[f] = Packets[f] /\ lastseq[owner[f]] = Packets[f]
  BY DEF IInv, FlowsLive
<1>2. Packets[f] \in Nat
  BY NicAssumption
<1>3. got[f] = Packets[f]
  BY <1>1, <1>2
<1>. QED BY <1>1, <1>3, FinishedIsInactive

LEMMA ReceiveAckKeeps ==
  ASSUME IInv, NEW f \in Flow, ReceiveAck(f)
  PROVE  IInv'
<1>1. /\ answers[f] # <<>> /\ Head(answers[f]).kind = "ack"
      /\ answers' = [answers EXCEPT ![f] = Tail(@)]
      /\ UNCHANGED <<conf, paused, key, entry, got, wire, lost, sent>>
  BY DEF ReceiveAck, Answered, receiver
<1>2. /\ answers' \in [Flow -> Seq(Answer)]
      /\ Head(answers[f]) \in Answer /\ GoodAnswer(f, Head(answers[f]))
      /\ \A h \in Flow : \A j \in 1 .. Len(answers'[h]) :
           /\ answers'[h][j].kind = "nack" => answers'[h][j].seq + 1 < sent[h]
           /\ answers'[h][j].kind = "ack" =>
                got[h] = Packets[h] \/ (answers'[h][j].seq =< got[h] /\ answers'[h][j].seq < Packets[h])
  BY <1>1, AnswerTaken
<1>3. CASE owner[f] = None
  <2>1. UNCHANGED <<port, flows>>
    BY <1>3 DEF ReceiveAck
  <2>2. lost' \in 0 .. MaxLoss
    BY <1>1 DEF IInv, OthersTyped
  <2>. QED BY <1>1, <2>1, <2>2, AnswerTakenOnly DEF receiver
<1>4. CASE owner[f] # None
  <2> DEFINE s == Head(answers[f]).seq
  <2>1. PICK i \in Queues : owner[f] = i
    BY <1>4 DEF IInv, Allocation
  <2>2. Acknowledge(f, i, s)
    BY <1>4, <2>1 DEF ReceiveAck
  <2>3. s \in Nat /\ (got[f] = Packets[f] \/ (s =< got[f] /\ s < Packets[f]))
    BY <1>1, <1>2 DEF Answer, GoodAnswer
  <2> HIDE DEF s
  <2>4. acked' = [acked EXCEPT ![i] = s] /\ UNCHANGED <<port, lastseq, ended>>
    BY <2>2 DEF Acknowledge
  <2>5. OthersTyped'
    BY <1>1, <1>2, <2>3, <2>4 DEF IInv, OthersTyped
  <2>6. Receiving'
    BY <1>1, <1>2 DEF IInv, Receiving, GoodAnswer
  <2>7. PortTypedNow'
    BY <2>4 DEF IInv, PortTypedNow, port
  <2>8. CASE UNCHANGED <<owner, buf, free>>
    <3>1. FlowsTypedNow' /\ PortSound'
      BY <1>1, <2>4, <2>8 DEF IInv, FlowsTypedNow, PortSound, port
    <3>2. Allocation'
      BY <1>1, <2>8 DEF IInv, Allocation, QueuesConserved, Owned
    <3>3. FlowsLive' /\ Buffers'
      BY <1>1, <2>4, <2>8 DEF IInv, FlowsLive, Buffers
    <3>. QED BY <2>5, <2>6, <2>7, <3>1, <3>2, <3>3 DEF IInv
  <2>9. CASE s >= lastseq[i] /\ ended[i] /\ Release(f, i)
    <3>1. got[f] = Packets[f] /\ sent[f] = Packets[f] /\ i \notin active
      BY <1>4, <2>1, <2>3, <2>9, ReleasedIsReceived
    <3>2. FlowsTypedNow' /\ PortSound' /\ Buffers'
      BY <1>1, <2>1, <2>4, <2>9, <3>1, SoundAfterRelease
    <3>3. owner' = [owner EXCEPT ![f] = None] /\ free' = Append(free, owner[f])
      BY <2>1, <2>9 DEF Release
    <3>4. Allocation'
      BY <1>1, <1>4, <3>3, QueueReleased DEF IInv
    <3>5. owner \in [Flow -> Queues \cup {None}]
      BY DEF IInv, Allocation
    <3>6. FlowsLive'
      BY <1>1, <2>4, <3>1, <3>3, <3>5 DEF IInv, FlowsLive
    <3>. QED BY <2>5, <2>6, <2>7, <3>2, <3>4, <3>6 DEF IInv
  <2>10. CASE buf' = [buf EXCEPT ![i] = Trim(@, GoBack(s))] /\ UNCHANGED <<owner, free>>
    <3>1. conf \in Config
      BY NicAssumption DEF IInv, OthersTyped
    <3>2. GoBack(s) \in Nat /\ GoBack(s) =< s
      BY <2>3, <3>1, GoBackBelow
    <3>3. i \in active => GoBack(s) < sent[f]
      <4>1. sent[f] \in Nat /\ got[f] \in Nat
        BY DEF IInv, FlowsTypedNow, FlowsTyped
      <4>2. i \in active => s =< got[f] /\ got[f] < sent[f]
        BY <1>4, <2>1, <2>3, FinishedIsInactive
      <4>. QED BY <2>3, <3>2, <4>1, <4>2
    <3>4. FlowsTypedNow' /\ PortSound' /\ Buffers'
      BY <1>1, <2>1, <2>4, <2>10, <3>2, <3>3, SoundAfterTrim
    <3>5. Allocation'
      BY <1>1, <2>10 DEF IInv, Allocation, QueuesConserved, Owned
    <3>6. FlowsLive'
      BY <1>1, <2>4, <2>10 DEF IInv, FlowsLive
    <3>. QED BY <2>5, <2>6, <2>7, <3>4, <3>5, <3>6 DEF IInv
  <2>. QED BY <2>2, <2>8, <2>9, <2>10 DEF Acknowledge
<1>. QED BY <1>3, <1>4

-----------------------------------------------------------------------------
(* The receiver *)

Entry == [expected : Nat, milestone : Nat, lastNack : Int]

LEMMA EntryExpecting ==
  ASSUME NEW d \in Entry, NEW x \in Nat
  PROVE  [d EXCEPT !.expected = x] \in Entry /\ [d EXCEPT !.expected = x].expected = x
BY DEF Entry

LEMMA EntryPastMilestone ==
  ASSUME NEW d \in Entry, NEW m \in Nat
  PROVE  /\ [d EXCEPT !.milestone = @ + m] \in Entry
         /\ [d EXCEPT !.milestone = @ + m].expected = d.expected
BY DEF Entry

LEMMA EntryNacked ==
  ASSUME NEW d \in Entry, NEW n \in Int, NEW x \in Nat
  PROVE  /\ [d EXCEPT !.lastNack = n, !.expected = x] \in Entry
         /\ [d EXCEPT !.lastNack = n, !.expected = x].expected = x
<1>1. [d EXCEPT !.lastNack = n, !.expected = x] \in Entry
  BY DEF Entry
<1>2. [d EXCEPT !.lastNack = n, !.expected = x].expected = x
  BY DEF Entry
<1>. QED BY <1>1, <1>2

LEMMA EntryOfTyped ==
  ASSUME IInv, NEW f \in Flow
  PROVE  /\ conf \in Config /\ EntryOf(f) \in Entry /\ EntryOf(f).expected =< got[f]
         /\ KeyOf(f) \in Keys /\ KeyOf(f) # None
         /\ \A h \in Flow : h # f => key[h] # KeyOf(f)
         /\ got[f] \in Nat /\ got[f] =< sent[f] /\ sent[f] \in Nat /\ sent[f] =< Packets[f]
         /\ Packets[f] \in Nat \ {0}
<1>1. conf \in Config /\ key \in [Flow -> Keys \cup {None}] /\ entry \in [Keys -> Entry]
  BY NicAssumption DEF IInv, OthersTyped, Entry
<1>2. /\ got[f] \in Nat /\ got[f] =< sent[f] /\ sent[f] \in Nat /\ sent[f] =< Packets[f]
      /\ Packets[f] \in Nat \ {0}
  BY NicAssumption DEF IInv, FlowsTypedNow, FlowsTyped, Receiving
<1>3. CASE key[f] = None
  <2>1. KeyOf(f) \in Keys /\ \A h \in Flow : key[h] # KeyOf(f)
    BY <1>1, <1>3, NewKeyIsFree DEF KeyOf
  <2>2. conf.ack \in Nat
    BY <1>1 DEF Config
  <2>3. EntryOf(f) \in Entry /\ EntryOf(f).expected = 0
    BY <1>3, <2>2 DEF EntryOf, FreshEntry, Entry
  <2>. QED BY <1>1, <1>2, <2>1, <2>3, NicAssumption
<1>4. CASE key[f] # None
  <2>1. KeyOf(f) = key[f] /\ key[f] \in Keys /\ EntryOf(f) = entry[key[f]]
    BY <1>1, <1>4 DEF KeyOf, EntryOf
  <2>2. \A h \in Flow : h # f => key[h] # key[f]
    BY <1>4 DEF IInv, Allocation, QueuesConserved
  <2>3. entry[key[f]].expected =< got[f]
    BY <1>4 DEF IInv, Receiving
  <2>. QED BY <1>1, <1>2, <1>4, <2>1, <2>2, <2>3
<1>. QED BY <1>3, <1>4

(* What ReceiverCheckSeq may do with f's entry and answers, whichever       *)
(* branch it takes.                                                         *)
Checked(f, e) ==
  /\ e \in Entry
  /\ e.expected =< got'[f] \/ key'[f] = None
  /\ key' = [key EXCEPT ![f] = KeyOf(f)] \/ key' = [key EXCEPT ![f] = None]
  /\ got'[f] = Packets[f] => key'[f] = None
  /\ entry' = [entry EXCEPT ![KeyOf(f)] = e]

AnsweredWell(f) ==
  \/ answers' = answers
  \/ \E a \in Answer : /\ answers' = [answers EXCEPT ![f] = Append(@, a)]
                       /\ a.kind = "nack" => a.seq + 1 < sent[f]
                       /\ a.kind = "ack" =>
                            got'[f] = Packets[f] \/ (a.seq =< got'[f] /\ a.seq < Packets[f])

LEMMA ReceiveDataCases ==
  ASSUME IInv, NEW f \in Flow, ReceiveData(f), got[f] # Packets[f]
  PROVE  /\ got' \in [Flow -> Nat]
         /\ got' = got \/ got' = [got EXCEPT ![f] = wire[f][1] + 1]
         /\ got[f] =< got'[f] /\ got'[f] =< sent[f]
         /\ AnsweredWell(f)
         /\ \E e : Checked(f, e)
<1> DEFINE s == Head(wire[f])
           x == EntryOf(f).expected
<1>1. /\ conf \in Config /\ EntryOf(f) \in Entry /\ x =< got[f] /\ x \in Nat
      /\ got[f] \in Nat /\ got[f] =< sent[f] /\ sent[f] \in Nat /\ sent[f] =< Packets[f]
      /\ Packets[f] \in Nat \ {0} /\ got \in [Flow -> Nat]
      /\ key \in [Flow -> Keys \cup {None}] /\ KeyOf(f) \in Keys
  BY EntryOfTyped DEF IInv, FlowsTypedNow, FlowsTyped, OthersTyped, Entry
<1>2. s = wire[f][1] /\ s \in Nat /\ s < sent[f]
  <2>1. wire[f] \in Seq(Nat) /\ wire[f] # <<>> /\ \A j \in 1 .. Len(wire[f]) : wire[f][j] < sent[f]
    BY DEF IInv, FlowsTypedNow, FlowsTyped, PortSound, Sound, ReceiveData
  <2>2. PICK q \in Seq(Nat) : q = wire[f] /\ q # <<>>
    BY <2>1
  <2>3. Head(q) = q[1] /\ q[1] \in Nat /\ 1 \in 1 .. Len(q)
    BY <2>2, TailOf
  <2>. QED BY <2>1, <2>2, <2>3
<1>3. got' = IF s = x /\ s = got[f] THEN [got EXCEPT ![f] = s + 1] ELSE got
  BY DEF ReceiveData
<1>4. \/ s = x /\ (LastInOrder(f, s) \/ InOrder(f, s))
      \/ s > x /\ Gap(f)
      \/ s < x /\ Remember(f, EntryOf(f)) /\ UNCHANGED answers
  BY DEF ReceiveData
<1> HIDE DEF s, x
<1>5. /\ got' \in [Flow -> Nat] /\ (got' = got \/ got' = [got EXCEPT ![f] = s + 1])
      /\ got[f] =< got'[f] /\ got'[f] =< sent[f]
      /\ s = x /\ s = got[f] => got'[f] = s + 1
      /\ ~ (s = x /\ s = got[f]) => got'[f] = got[f]
  BY <1>1, <1>2, <1>3
<1>6. CASE s = x /\ LastInOrder(f, s)
  <2> DEFINE e == [EntryOf(f) EXCEPT !.expected = Packets[f] + 1]
             a == [kind |-> "ack", seq |-> Packets[f] + 1]
  <2>1. /\ s = Packets[f] - 1 /\ key' = [key EXCEPT ![f] = None]
        /\ entry' = [entry EXCEPT ![KeyOf(f)] = e]
        /\ answers' = [answers EXCEPT ![f] = Append(@, a)]
    BY <1>6 DEF LastInOrder, Reply
  <2>2. got'[f] = Packets[f]
    BY <1>1, <1>5, <1>6, <2>1
  <2>3. e \in Entry /\ a \in Answer /\ a.kind = "ack"
    BY <1>1 DEF Entry, Answer
  <2>4. key'[f] = None
    BY <1>1, <2>1
  <2> HIDE DEF e, a
  <2>5. Checked(f, e)
    BY <2>1, <2>3, <2>4 DEF Checked
  <2>6. AnsweredWell(f)
    BY <2>1, <2>2, <2>3 DEF AnsweredWell
  <2>. QED BY <1>2, <1>5, <2>5, <2>6
<1>7. CASE s = x /\ InOrder(f, s)
  <2> DEFINE e1 == [EntryOf(f) EXCEPT !.expected = s + 1]
             past == s + 1 > e1.milestone
             e == IF past THEN [e1 EXCEPT !.milestone = @ + conf.ack] ELSE e1
             a == [kind |-> "ack", seq |-> s + 1]
  <2>1. /\ s # Packets[f] - 1 /\ Remember(f, e)
        /\ answers' = [answers EXCEPT ![f] = Append(@, a)] \/ answers' = answers
    BY <1>7 DEF InOrder, Reply
  <2>2. key' = [key EXCEPT ![f] = KeyOf(f)] /\ entry' = [entry EXCEPT ![KeyOf(f)] = e]
    BY <2>1 DEF Remember
  <2>3. e1 \in Entry /\ e1.expected = s + 1 /\ conf.ack \in Nat
    BY <1>1, <1>2, EntryExpecting DEF Config
  <2>4. e \in Entry /\ e.expected = s + 1
    <3> HIDE DEF e1
    <3>. QED BY <2>3, EntryPastMilestone
  <2>5. a \in Answer /\ a.kind = "ack" /\ a.seq = s + 1
    BY <1>2 DEF Answer
  <2> HIDE DEF e, a
  <2>6. s + 1 =< got'[f] /\ got'[f] # Packets[f] /\ s + 1 < Packets[f]
    BY <1>1, <1>2, <1>5, <1>7, <2>1
  <2>7. Checked(f, e)
    BY <2>2, <2>4, <2>6 DEF Checked
  <2>8. AnsweredWell(f)
    BY <2>1, <2>5, <2>6 DEF AnsweredWell
  <2>. QED BY <1>2, <1>5, <2>7, <2>8
<1>8. CASE s > x /\ Gap(f)
  <2> DEFINE back == IF conf.back0 /\ ~ conf.test THEN ChunkStart(x) ELSE x
             e == [EntryOf(f) EXCEPT !.lastNack = x, !.expected = back]
             a == [kind |-> "nack", seq |-> back]
  <2>1. \/ Remember(f, e) /\ answers' = [answers EXCEPT ![f] = Append(@, a)]
        \/ Remember(f, EntryOf(f)) /\ answers' = answers
    BY <1>8 DEF Gap, Reply, x
  <2>2. back \in Nat /\ back =< x
    <3>1. conf.chunk \in Nat \ {0}
      BY <1>1 DEF Config
    <3>2. ChunkStart(x) \in Nat /\ ChunkStart(x) =< x
      BY <1>1, <3>1, ChunkStartBelow DEF ChunkStart
    <3>. QED BY <1>1, <3>2
  <2> HIDE DEF back
  <2>3. e \in Entry /\ e.expected = back
    <3>1. x \in Int
      BY <1>1
    <3>. QED BY <1>1, <2>2, <3>1, EntryNacked, Zenon
  <2>4. a \in Answer /\ a.kind = "nack" /\ a.seq = back
    BY <2>2 DEF Answer
  <2> HIDE DEF e, a
  <2>5. back =< got'[f] /\ x =< got'[f] /\ got'[f] # Packets[f] /\ back + 1 < sent[f]
    BY <1>1, <1>2, <1>5, <1>8, <2>2
  <2>6. AnsweredWell(f)
    BY <2>1, <2>4, <2>5 DEF AnsweredWell
  <2>7. \E d : Checked(f, d)
    <3>1. CASE Remember(f, e)
      <4>1. Checked(f, e)
        BY <3>1, <2>3, <2>5 DEF Checked, Remember
      <4>. QED BY <4>1
    <3>2. CASE Remember(f, EntryOf(f))
      <4>1. Checked(f, EntryOf(f))
        BY <3>2, <1>1, <2>5 DEF Checked, Remember, x
      <4>. QED BY <4>1
    <3>. QED BY <2>1, <3>1, <3>2
  <2>. QED BY <1>2, <1>5, <2>6, <2>7
<1>9. CASE s < x /\ Remember(f, EntryOf(f)) /\ UNCHANGED answers
  <2>1. x =< got'[f] /\ got'[f] # Packets[f]
    BY <1>1, <1>2, <1>5, <1>9
  <2>2. Checked(f, EntryOf(f))
    BY <1>1, <1>9, <2>1 DEF Checked, Remember, x
  <2>3. AnsweredWell(f)
    BY <1>9 DEF AnsweredWell
  <2>. QED BY <1>2, <1>5, <2>2, <2>3
<1>. QED BY <1>4, <1>6, <1>7, <1>8, <1>9

LEMMA ReceiveDataKeeps ==
  ASSUME IInv, NEW f \in Flow, ReceiveData(f)
  PROVE  IInv'
<1>1. /\ wire[f] # <<>> /\ wire' = [wire EXCEPT ![f] = Tail(@)]
      /\ UNCHANGED <<conf, port, flows, paused, lost>>
  BY DEF ReceiveData
<1>2. got[f] # Packets[f]
  <2>1. LastTravelsLast(f, tx, wire[f], got[f])
    BY DEF IInv, PortSound, Sound
  <2>. QED BY <1>1, <2>1 DEF LastTravelsLast
<1>3. /\ got' \in [Flow -> Nat]
      /\ got' = got \/ got' = [got EXCEPT ![f] = wire[f][1] + 1]
      /\ got[f] =< got'[f] /\ got'[f] =< sent[f]
      /\ AnsweredWell(f)
  BY <1>2, ReceiveDataCases
<1>4. PICK e : Checked(f, e)
  BY <1>2, ReceiveDataCases
<1>5. /\ FlowsTyped(sent, owner, buf, wire', got')
      /\ Sound(conf.enable, sent, owner, queue, active, buf, cur, tx, wire', got')
  BY <1>1, <1>3, SoundAfterTake
<1>6. FlowsTypedNow' /\ PortSound'
  BY <1>1, <1>5 DEF FlowsTypedNow, PortSound, port, flows
<1>7. PortTypedNow'
  BY <1>1 DEF IInv, PortTypedNow, port
<1>8. /\ KeyOf(f) \in Keys /\ KeyOf(f) # None /\ \A h \in Flow : h # f => key[h] # KeyOf(f)
      /\ key \in [Flow -> Keys \cup {None}] /\ entry \in [Keys -> Entry]
      /\ answers \in [Flow -> Seq(Answer)] /\ got \in [Flow -> Nat]
  BY EntryOfTyped DEF IInv, OthersTyped, Entry, FlowsTypedNow, FlowsTyped
<1>9. /\ key' \in [Flow -> Keys \cup {None}]
      /\ \A h \in Flow : h # f => key'[h] = key[h]
      /\ key'[f] = KeyOf(f) \/ key'[f] = None
  BY <1>4, <1>8 DEF Checked
<1>10. /\ entry' \in [Keys -> Entry] /\ entry'[KeyOf(f)] = e
       /\ \A k \in Keys : k # KeyOf(f) => entry'[k] = entry[k]
  BY <1>4, <1>8 DEF Checked
<1>11. Allocation'
  <2>1. \A h, k \in Flow : h # k /\ key'[h] # None => key'[h] # key'[k]
    BY <1>8, <1>9 DEF IInv, Allocation, QueuesConserved
  <2>. QED BY <2>1, <1>1 DEF IInv, Allocation, QueuesConserved, Owned, flows
<1>12. \A h \in Flow : got[h] =< got'[h] /\ (h # f => got'[h] = got[h]) /\ got[h] \in Nat /\ got'[h] \in Nat
  BY <1>3, <1>8
<1>13. /\ answers' \in [Flow -> Seq(Answer)]
       /\ \A h \in Flow : \A j \in 1 .. Len(answers'[h]) :
            /\ answers'[h][j].kind = "nack" => answers'[h][j].seq + 1 < sent[h]
            /\ answers'[h][j].kind = "ack" =>
                 \/ got'[h] = Packets[h]
                 \/ answers'[h][j].seq =< got'[h] /\ answers'[h][j].seq < Packets[h]
  <2>1. ASSUME NEW h \in Flow, NEW j \in 1 .. Len(answers[h])
        PROVE  /\ answers[h][j].kind = "nack" => answers[h][j].seq + 1 < sent[h]
               /\ answers[h][j].kind = "ack" =>
                    \/ got'[h] = Packets[h]
                    \/ answers[h][j].seq =< got'[h] /\ answers[h][j].seq < Packets[h]
    <3>1. GoodAnswer(h, answers[h][j])
      BY DEF IInv, Receiving
    <3>2. answers[h][j] \in Answer
      BY <1>8, ElementOfSeq
    <3>3. answers[h][j].seq \in Nat
      BY <3>2 DEF Answer
    <3>4. got[h] = Packets[h] => h # f
      BY <1>2
    <3>. QED BY <3>1, <3>3, <3>4, <1>12 DEF GoodAnswer
  <2>2. CASE answers' = answers
    BY <2>1, <2>2, <1>8
  <2>3. CASE answers' # answers
    <3>1. PICK a \in Answer :
            /\ answers' = [answers EXCEPT ![f] = Append(@, a)]
            /\ a.kind = "nack" => a.seq + 1 < sent[f]
            /\ a.kind = "ack" =>
                 got'[f] = Packets[f] \/ (a.seq =< got'[f] /\ a.seq < Packets[f])
      BY <2>3, <1>3 DEF AnsweredWell
    <3>2. /\ answers'[f] = Append(answers[f], a) /\ answers[f] \in Seq(Answer)
          /\ \A h \in Flow : h # f => answers'[h] = answers[h]
      BY <1>8, <3>1
    <3>3. /\ answers'[f] \in Seq(Answer) /\ Len(answers'[f]) = Len(answers[f]) + 1
          /\ Len(answers[f]) \in Nat
          /\ \A j \in 1 .. Len(answers[f]) : answers'[f][j] = answers[f][j]
          /\ answers'[f][Len(answers[f]) + 1] = a
      BY <3>2, AppendProperties, LenProperties
    <3>4. answers' \in [Flow -> Seq(Answer)]
      BY <1>8, <3>1, <3>2, <3>3
    <3>5. \A j \in 1 .. Len(answers'[f]) :
            answers'[f][j] = a \/ (j \in 1 .. Len(answers[f]) /\ answers'[f][j] = answers[f][j])
      BY <3>3
    <3>6. ASSUME NEW h \in Flow, NEW j \in 1 .. Len(answers'[h])
          PROVE  /\ answers'[h][j].kind = "nack" => answers'[h][j].seq + 1 < sent[h]
                 /\ answers'[h][j].kind = "ack" =>
                      \/ got'[h] = Packets[h]
                      \/ answers'[h][j].seq =< got'[h] /\ answers'[h][j].seq < Packets[h]
      <4>1. CASE h # f
        BY <4>1, <2>1, <3>2
      <4>2. CASE h = f /\ answers'[f][j] = a
        BY <4>2, <3>1
      <4>3. CASE h = f /\ j \in 1 .. Len(answers[f]) /\ answers'[f][j] = answers[f][j]
        BY <4>3, <2>1
      <4>. QED BY <4>1, <4>2, <4>3, <3>5
    <3>. QED BY <3>4, <3>6
  <2>. QED BY <2>2, <2>3
<1>14. OthersTyped'
  BY <1>1, <1>9, <1>10, <1>13 DEF IInv, OthersTyped, Entry, flows
<1>15. FlowsLive' /\ Buffers'
  BY <1>1 DEF IInv, FlowsLive, Buffers, flows
<1>16. Receiving'
  <2>1. sent' = sent
    BY <1>1 DEF flows
  <2>2. ASSUME NEW h \in Flow
        PROVE  /\ got'[h] =< sent[h]
               /\ key'[h] # None => entry'[key'[h]].expected =< got'[h]
               /\ got'[h] = Packets[h] => key'[h] = None
    <3>1. CASE h = f
      BY <3>1, <1>3, <1>4, <1>9, <1>10 DEF Checked
    <3>2. CASE h # f
      <4>1. key'[h] = key[h] /\ got'[h] = got[h] /\ key[h] # KeyOf(f)
        BY <3>2, <1>8, <1>9, <1>12
      <4>2. key[h] # None => entry'[key[h]] = entry[key[h]]
        BY <4>1, <1>8, <1>10
      <4>. QED BY <4>1, <4>2 DEF IInv, Receiving
    <3>. QED BY <3>1, <3>2
  <2>. QED BY <2>1, <2>2, <1>13 DEF Receiving, GoodAnswer
<1>. QED BY <1>6, <1>7, <1>11, <1>14, <1>15, <1>16 DEF IInv

-----------------------------------------------------------------------------
(* The theorems *)

LEMMA InitInv ==
  ASSUME Init
  PROVE  IInv
<1>1. /\ IsFiniteSet(Queues) /\ Cardinality(Queues) \in Nat /\ conf \in Config /\ None \notin Queues
      /\ Packets \in [Flow -> Nat \ {0}] /\ BloomLen \in Nat \ {0} /\ MaxLoss \in Nat
  BY NicAssumption, FS_CardinalityType DEF Init
<1>2. PICK p \in [1 .. Cardinality(Queues) -> Queues] :
        free = p /\ \A i, j \in DOMAIN p : p[i] = p[j] => i = j
  BY DEF Init
<1>3. free \in Seq(Queues) /\ Len(free) = Cardinality(Queues)
  BY <1>1, <1>2
<1>4. /\ \A i \in Queues : queue[i] = <<>> /\ buf[i] = <<>>
      /\ \A f \in Flow : /\ owner[f] = None /\ sent[f] = 0 /\ got[f] = 0 /\ key[f] = None
                         /\ wire[f] = <<>> /\ answers[f] = <<>>
      /\ active = {} /\ tx = Idle
  BY DEF Init
<1>5. Len(<<>>) = 0
  BY EmptySeq
<1>6. Owned = {} /\ Cardinality(Owned) = 0
  <2>1. Owned = {}
    BY <1>4 DEF Owned
  <2>. QED BY <2>1, FS_EmptySet
<1>7. Allocation
  <2>1. owner \in [Flow -> Queues \cup {None}]
    BY DEF Init
  <2>2. Len(free) + Cardinality(Owned) = Cardinality(Queues)
    BY <1>1, <1>3, <1>6
  <2>. QED BY <2>1, <2>2, <1>2, <1>3, <1>4, <1>6 DEF Allocation, QueuesConserved
<1>8. PortTypedNow
  <2>1. <<>> \in Seq(Packet)
    BY EmptySeq
  <2>. QED BY <2>1 DEF Init, PortTypedNow, PortTyped
<1>9. FlowsTypedNow
  <2>1. <<>> \in Seq(Nat)
    BY EmptySeq
  <2>2. \A f \in Flow : 0 =< Packets[f]
    BY <1>1
  <2>. QED BY <2>1, <2>2, <1>4 DEF Init, FlowsTypedNow, FlowsTyped
<1>10. OthersTyped
  <2>1. <<>> \in Seq(Answer)
    BY EmptySeq
  <2>2. FreshEntry \in Entry
    BY <1>1 DEF FreshEntry, Entry, Config
  <2>3. entry \in [Keys -> Entry]
    BY <2>2 DEF Init
  <2>4. lost \in 0 .. MaxLoss
    BY <1>1 DEF Init
  <2>. QED BY <2>1, <2>3, <2>4 DEF Init, OthersTyped, Entry
<1>11. FlowsLive
  BY <1>4 DEF FlowsLive
<1>12. Buffers
  BY <1>4 DEF Buffers
<1>13. PortSound
  <2>1. \A f \in Flow : LastTravelsLast(f, tx, wire[f], got[f])
    BY <1>1, <1>4, <1>5 DEF LastTravelsLast, Of
  <2>. QED BY <2>1, <1>4, <1>5 DEF PortSound, Sound
<1>14. Receiving
  BY <1>4, <1>5 DEF Receiving
<1>. QED BY <1>7, <1>8, <1>9, <1>10, <1>11, <1>12, <1>13, <1>14 DEF IInv

LEMMA NextKeepsInv ==
  ASSUME IInv, [Next]_vars
  PROVE  IInv'
<1>1. ASSUME NEW f \in Flow, ClientSend(f) PROVE IInv'
  BY <1>1, ClientSendKeeps
<1>2. ASSUME NEW f \in Flow, ReceiveData(f) PROVE IInv'
  BY <1>2, ReceiveDataKeeps
<1>3. ASSUME NEW f \in Flow, ReceiveAck(f) PROVE IInv'
  BY <1>3, ReceiveAckKeeps
<1>4. ASSUME NEW f \in Flow, ReceiveNack(f) PROVE IInv'
  BY <1>4, ReceiveNackKeeps
<1>5. CASE TransmitComplete
  BY <1>5, TransmitCompleteKeeps
<1>6. CASE Poll
  BY <1>6, PollKeeps
<1>7. ASSUME NEW bits \in PauseSets, ReceivePfc(bits) PROVE IInv'
  BY <1>7, ReceivePfcKeeps
<1>8. ASSUME NEW f \in Flow, LoseData(f) PROVE IInv'
  BY <1>8, LoseDataKeeps
<1>9. ASSUME NEW f \in Flow, LoseAnswer(f) PROVE IInv'
  BY <1>9, LoseAnswerKeeps
<1>10. CASE UNCHANGED vars
  <2>1. UNCHANGED <<conf, flows, receiver, network, port, paused>>
    BY <1>10 DEF vars
  <2>2. PortTypedNow' /\ PortSound'
    BY <2>1 DEF IInv, PortTypedNow, PortSound, port, flows, receiver, network
  <2>3. paused' \in SUBSET Queues
    BY <2>1 DEF IInv, OthersTyped
  <2>. QED BY <2>1, <2>2, <2>3, PortOnly
<1>. QED BY <1>1, <1>2, <1>3, <1>4, <1>5, <1>6, <1>7, <1>8, <1>9, <1>10 DEF Next, Scheduled

LEMMA Invariant == Spec => []IInv
<1>1. Init => IInv
  BY InitInv
<1>2. IInv /\ [Next]_vars => IInv'
  BY NextKeepsInv
<1>. QED BY <1>1, <1>2, PTL DEF Spec

(* The state of QbbNetDevice, its BEgressQueue, the clients and the receiver *)
(* keeps its type, for any flows, queues and attribute settings.            *)
THEOREM TypeCorrect == Spec => []TypeOK
<1>1. IInv => TypeOK
  BY DEF IInv, TypeOK, PortTypedNow, PortTyped, FlowsTypedNow, FlowsTyped, Allocation, OthersTyped
<1>. QED BY <1>1, Invariant, PTL

(* queue_index_map, available_sending_queues and receiver_index_map hand    *)
(* out every queue and every entry to at most one flow at a time, and lose  *)
(* none.                                                                    *)
THEOREM QueuesAreConserved == Spec => []QueuesConserved
<1>1. IInv => QueuesConserved
  BY DEF IInv, Allocation
<1>. QED BY <1>1, Invariant, PTL

(* DoDequeueQCN's assertion that the chosen queue holds a packet never      *)
(* fails: a NACK cannot empty a queue of the active set.                    *)
THEOREM ActiveQueuesHoldPackets == Spec => []ActiveHoldsPacket
<1>1. ASSUME IInv, NEW i \in active
      PROVE  queue[i] # <<>>
  <2>1. PICK f \in Flow : owner[f] = i
    BY <1>1 DEF IInv, PortSound, Sound
  <2>2. owner[f] # None
    BY <1>1, <2>1, NicAssumption DEF IInv, PortTypedNow, PortTyped
  <2>3. Fresh(f, sent[f], queue[i], buf[i], tx, wire[f], got[f])
    BY <1>1, <2>1, <2>2 DEF IInv, PortSound, Sound
  <2>. QED BY <2>3 DEF Fresh
<1>2. IInv => ActiveHoldsPacket
  BY <1>1 DEF ActiveHoldsPacket
<1>. QED BY <1>2, Invariant, PTL

(* ReceiverCheckSeq erases a flow's entry with its last packet for good.    *)
THEOREM EntriesAreFreed == Spec => []EntryFreed
<1>1. IInv => EntryFreed
  BY DEF IInv, Receiving, EntryFreed
<1>. QED BY <1>1, Invariant, PTL

(* No transmission that starts, first or repeated, from whatever event,     *)
(* runs a window ahead of the last acknowledgement.                         *)
THEOREM WindowIsObeyed == Spec => WindowObeyed
<1> DEFINE A == tx' # tx /\ tx' # Idle /\ conf.enable => tx'.seq < conf.window + acked[rrlast']
<1>1. ASSUME IInv, Next, tx' # tx, tx' # Idle, conf.enable
      PROVE  tx'.seq < conf.window + acked[rrlast']
  <2>1. /\ FlowsTyped(sent, owner, buf, wire, got) /\ PortTyped(queue, active, cur)
        /\ rrlast \in Queues \cup {0} /\ tx \in Packet \cup {Idle}
        /\ Sound(conf.enable, sent, owner, queue, active, buf, cur, tx, wire, got)
    BY <1>1 DEF IInv, FlowsTypedNow, PortTypedNow, PortSound
  <2>2. CASE Poll
    BY <1>1, <2>1, <2>2, TransmitWindow DEF Poll
  <2>3. CASE TransmitComplete
    <3>1. /\ tx \in Packet /\ wire' = [wire EXCEPT ![tx.flow] = Append(@, tx.seq)]
          /\ Transmit(queue, active, cur, acked, paused)
      BY <2>1, <2>3 DEF TransmitComplete
    <3>2. /\ FlowsTyped(sent, owner, buf, wire', got)
          /\ Sound(conf.enable, sent, owner, queue, active, buf, cur, Idle, wire', got)
      BY <2>1, <3>1, SoundOnWire
    <3>. QED BY <1>1, <2>1, <3>1, <3>2, TransmitWindow
  <2>4. ASSUME NEW bits \in PauseSets, ReceivePfc(bits)
        PROVE  tx'.seq < conf.window + acked[rrlast']
    <3>1. PICK p : DequeueAndTransmit(queue, active, cur, acked, p)
      BY <2>4 DEF ReceivePfc
    <3>2. tx = Idle /\ Transmit(queue, active, cur, acked, p)
      BY <1>1, <3>1 DEF DequeueAndTransmit
    <3>. QED BY <1>1, <2>1, <3>2, TransmitWindow
  <2>5. ASSUME NEW f \in Flow, ClientSend(f)
        PROVE  tx'.seq < conf.window + acked[rrlast']
    <3>1a. PICK i \in Queues, a \in [Queues -> Nat], e \in [Queues -> BOOLEAN] : Sending(f, i, a, e)
      BY <1>1, <2>5, ClientSendParts
    <3>1. PICK q, act, c : SendParts(f, i, a, e, q, act, c)
      BY <3>1a DEF Sending
    <3>2. /\ FlowsTyped(sent', owner', buf', wire, got) /\ PortTyped(q, act, c)
          /\ Sound(conf.enable, sent', owner', q, act, buf', c, tx, wire, got)
          /\ DequeueAndTransmit(q, act, c, a, paused)
          /\ \A j \in Queues : a[j] =< acked[j]
      BY <3>1 DEF SendParts
    <3>3. tx = Idle /\ Transmit(q, act, c, a, paused)
      BY <1>1, <3>2 DEF DequeueAndTransmit
    <3>4. rrlast' \in Queues /\ tx'.seq < conf.window + a[rrlast']
      BY <1>1, <2>1, <3>2, <3>3, TransmitWindow
    <3>5. PortTypedNow'
      BY <2>1, <3>2, DequeueAndTransmitSound
    <3>6. tx'.seq \in Nat /\ conf.window \in Nat /\ acked \in [Queues -> Nat]
      BY <1>1, <3>5, NicAssumption DEF PortTypedNow, Packet, IInv, OthersTyped, Config
    <3>. QED BY <3>2, <3>4, <3>6
  <2>6. CASE \E f \in Flow : ReceiveData(f) \/ ReceiveAck(f) \/ ReceiveNack(f) \/ LoseData(f) \/ LoseAnswer(f)
    BY <1>1, <2>6 DEF ReceiveData, ReceiveAck, ReceiveNack, LoseData, LoseAnswer, Acknowledge, Recover, port
  <2>. QED BY <1>1, <2>2, <2>3, <2>4, <2>5, <2>6 DEF Next, Scheduled
<1>2. IInv /\ [Next]_vars => [A]_vars
  BY <1>1 DEF vars
<1>. QED BY <1>2, Invariant, PTL DEF Spec, WindowObeyed

-----------------------------------------------------------------------------
(* While nothing is lost *)

(* Flow f has n packets sent and g received; w are under way, t is being    *)
(* transmitted and q is its queue.                                          *)
Lined(f, w, t, q, g, n) ==
  /\ \A j \in 1 .. Len(w) : w[j] = g + j - 1
  /\ Of(f, t) => t.seq = g + Len(w)
  /\ \A j \in 1 .. Len(q) : q[j].flow = f /\ q[j].seq = (n - Len(q)) + j - 1
  /\ g + Len(w) + (IF Of(f, t) THEN 1 ELSE 0) + Len(q) = n

QueueOf(f, o, q) == IF o[f] = None THEN <<>> ELSE q[o[f]]

(* s to g stand for sent, owner, queue, tx, wire and got, as in Sound.      *)
Exact(s, o, q, t, w, g) ==
  /\ \A i \in Queues : (\A f \in Flow : o[f] # i) => q[i] = <<>>
  /\ \A f \in Flow : Lined(f, w[f], t, QueueOf(f, o, q), g[f], s[f])

(* The receiver expects what it has not got, and has nothing to complain of.*)
InStep == \A f \in Flow :
  /\ key[f] = None => got[f] = 0 \/ got[f] = Packets[f]
  /\ key[f] # None => entry[key[f]].expected = got[f]
  /\ \A j \in 1 .. Len(answers[f]) : answers[f][j].kind = "ack"

ExactNow == Exact(sent, owner, queue, tx, wire, got)

NoneLost == lost = 0 => ExactNow /\ InStep

LEMMA QueueOfTyped ==
  ASSUME NEW o \in [Flow -> Queues \cup {None}], NEW q \in [Queues -> Seq(Packet)],
         NEW f \in Flow
  PROVE  QueueOf(f, o, q) \in Seq(Packet) /\ Len(QueueOf(f, o, q)) \in Nat
<1>1. QueueOf(f, o, q) \in Seq(Packet)
  BY EmptySeq DEF QueueOf
<1>. QED BY <1>1, LenProperties

LEMMA ServeExact ==
  ASSUME NEW s, NEW o, NEW q, NEW act, NEW b, NEW c, NEW w, NEW g, NEW i \in act,
         FlowsTyped(s, o, b, w, g), PortTyped(q, act, c),
         Sound(conf.enable, s, o, q, act, b, c, Idle, w, g), Serve(q, act, c, i),
         Exact(s, o, q, Idle, w, g)
  PROVE  Exact(s, o, queue', tx', w, g)
<1>1. i \in Queues /\ q[i] \in Seq(Packet)
  BY DEF PortTyped
<1>2. PICK f \in Flow : o[f] = i
  BY DEF Sound
<1>3. i # None /\ q[i] # <<>>
  BY <1>1, NicAssumption, ServeSound
<1>4. /\ Head(q[i]) = q[i][1] /\ q[i][1] \in Packet /\ 1 \in 1 .. Len(q[i])
      /\ Tail(q[i]) \in Seq(Packet) /\ Len(Tail(q[i])) = Len(q[i]) - 1
      /\ Len(q[i]) \in Nat \ {0}
      /\ \A j \in 1 .. Len(Tail(q[i])) : j + 1 \in 1 .. Len(q[i]) /\ Tail(q[i])[j] = q[i][j + 1]
  BY ONLY <1>1, <1>3, TailOf
<1>5. /\ queue'[i] = Tail(q[i]) /\ \A j \in Queues : j # i => queue'[j] = q[j]
      /\ tx' = q[i][1]
  BY <1>1, <1>4 DEF Serve, PortTyped
<1>6. Lined(f, w[f], Idle, q[i], g[f], s[f])
  BY <1>2, <1>3 DEF Exact, QueueOf
<1>7. tx' # Idle /\ tx'.flow = f /\ Of(f, tx') /\ \A h \in Flow : h # f => ~ Of(h, tx')
  BY <1>4, <1>5, <1>6, NicSentinels DEF Lined, Of
<1>8. \A k \in Queues : (\A h \in Flow : o[h] # k) => queue'[k] = <<>>
  BY <1>2, <1>5 DEF Exact
<1>9. ASSUME NEW h \in Flow, h # f
      PROVE  Lined(h, w[h], tx', QueueOf(h, o, queue'), g[h], s[h])
  <2>1. o[h] # i /\ (o[h] # None => o[h] \in Queues)
    BY <1>2, <1>3, <1>9 DEF FlowsTyped
  <2>2. QueueOf(h, o, queue') = QueueOf(h, o, q)
    BY <2>1, <1>5 DEF QueueOf
  <2>3. Lined(h, w[h], Idle, QueueOf(h, o, q), g[h], s[h])
    BY DEF Exact
  <2>. QED BY <2>2, <2>3, <1>7, <1>9 DEF Lined, Of
<1>10. Lined(f, w[f], tx', QueueOf(f, o, queue'), g[f], s[f])
  <2>1. QueueOf(f, o, queue') = Tail(q[i])
    BY <1>2, <1>3, <1>5 DEF QueueOf
  <2>2. /\ g[f] \in Nat /\ s[f] \in Nat /\ Len(w[f]) \in Nat
    BY LenProperties DEF FlowsTyped
  <2>3. g[f] + Len(w[f]) + Len(q[i]) = s[f]
    BY <2>2, <1>4, <1>6 DEF Lined, Of
  <2>4. q[i][1].seq = g[f] + Len(w[f])
    <3>1. q[i][1].seq = (s[f] - Len(q[i])) + 1 - 1
      BY <1>4, <1>6 DEF Lined
    <3>. QED BY <3>1, <2>2, <2>3, <1>4
  <2>5. ASSUME NEW j \in 1 .. Len(Tail(q[i]))
        PROVE  /\ Tail(q[i])[j].flow = f
               /\ Tail(q[i])[j].seq = (s[f] - Len(Tail(q[i]))) + j - 1
    <3>1. q[i][j + 1].flow = f /\ q[i][j + 1].seq = (s[f] - Len(q[i])) + (j + 1) - 1
      BY <1>4, <1>6 DEF Lined
    <3>. QED BY <3>1, <2>2, <1>4
  <2>6. g[f] + Len(w[f]) + 1 + Len(Tail(q[i])) = s[f]
    BY <2>2, <2>3, <1>4
  <2>. QED BY <2>1, <2>4, <2>5, <2>6, <1>5, <1>6, <1>7 DEF Lined
<1>. QED BY <1>8, <1>9, <1>10 DEF Exact

LEMMA TransmitExact ==
  ASSUME NEW s, NEW o, NEW q, NEW act, NEW b, NEW c, NEW w, NEW g, NEW a, NEW p,
         FlowsTyped(s, o, b, w, g), PortTyped(q, act, c), rrlast \in Queues \cup {0},
         Sound(conf.enable, s, o, q, act, b, c, Idle, w, g), Transmit(q, act, c, a, p),
         Exact(s, o, q, Idle, w, g)
  PROVE  Exact(s, o, queue', tx', w, g)
<1>1. CASE queue' = q /\ active' = act /\ cur' = c /\ tx' = Idle /\ rrlast' = rrlast
  BY <1>1
<1>2. CASE \E i \in act \ p : Admits(i, c, a) /\ Serve(q, act, c, i)
  <2>1. PICK i \in act : Serve(q, act, c, i)
    BY <1>2
  <2>. QED BY <2>1, ServeExact
<1>. QED BY <1>1, <1>2, TransmitCases

LEMMA DequeueAndTransmitExact ==
  ASSUME NEW s, NEW o, NEW q, NEW act, NEW b, NEW c, NEW w, NEW g, NEW a, NEW p,
         FlowsTyped(s, o, b, w, g), PortTyped(q, act, c), rrlast \in Queues \cup {0},
         Sound(conf.enable, s, o, q, act, b, c, tx, w, g), DequeueAndTransmit(q, act, c, a, p),
         Exact(s, o, q, tx, w, g)
  PROVE  Exact(s, o, queue', tx', w, g)
<1>1. CASE tx = Idle /\ Transmit(q, act, c, a, p)
  BY <1>1, TransmitExact
<1>2. CASE tx # Idle /\ queue' = q /\ tx' = tx
  BY <1>2
<1>. QED BY <1>1, <1>2 DEF DequeueAndTransmit

(* The packet that was being transmitted is under way.                      *)
LEMMA ExactOnWire ==
  ASSUME NEW s, NEW o, NEW q, NEW b, NEW t \in Packet, NEW w, NEW g,
         FlowsTyped(s, o, b, w, g), q \in [Queues -> Seq(Packet)], Exact(s, o, q, t, w, g)
  PROVE  Exact(s, o, q, Idle, [w EXCEPT ![t.flow] = Append(@, t.seq)], g)
<1> DEFINE x == [w EXCEPT ![t.flow] = Append(@, t.seq)]
           f == t.flow
<1>1. t.flow \in Flow /\ t.seq \in Nat /\ t # Idle /\ w \in [Flow -> Seq(Nat)] /\ g \in [Flow -> Nat]
  BY NicSentinels DEF Packet, FlowsTyped
<1>2. /\ Len(x[f]) = Len(w[f]) + 1 /\ Len(w[f]) \in Nat
      /\ \A j \in 1 .. Len(w[f]) : x[f][j] = w[f][j]
      /\ x[f][Len(w[f]) + 1] = t.seq
      /\ \A h \in Flow : h # f => x[h] = w[h]
  BY <1>1, Appended, LenProperties
<1>3. Of(f, t) /\ \A h \in Flow : h # f => ~ Of(h, t)
  BY <1>1 DEF Of
<1> HIDE DEF x
<1>4. ASSUME NEW h \in Flow
      PROVE  Lined(h, x[h], Idle, QueueOf(h, o, q), g[h], s[h])
  <2>1. Lined(h, w[h], t, QueueOf(h, o, q), g[h], s[h])
    BY DEF Exact
  <2>2. CASE h # f
    BY <2>1, <2>2, <1>2, <1>3 DEF Lined, Of
  <2>3. CASE h = f
    <3>1. /\ \A j \in 1 .. Len(w[f]) : w[f][j] = g[f] + j - 1
          /\ t.seq = g[f] + Len(w[f]) /\ g[f] \in Nat
          /\ g[f] + Len(w[f]) + 1 + Len(QueueOf(f, o, q)) = s[f]
      BY <2>1, <2>3, <1>1, <1>3 DEF Lined
    <3>2. \A j \in 1 .. Len(x[f]) : x[f][j] = g[f] + j - 1
      <4>1. \A j \in 1 .. Len(x[f]) : j \in 1 .. Len(w[f]) \/ j = Len(w[f]) + 1
        BY <1>2
      <4>2. x[f][Len(w[f]) + 1] = g[f] + (Len(w[f]) + 1) - 1
        BY <3>1, <1>2
      <4>. QED BY <3>1, <4>1, <4>2, <1>2
    <3>3. g[f] + Len(x[f]) + 0 + Len(QueueOf(f, o, q)) = s[f]
      <4>1. Len(QueueOf(f, o, q)) \in Nat
        BY QueueOfTyped DEF FlowsTyped
      <4>2. \A a, m, n, k : a \in Nat /\ m \in Nat /\ n = m + 1 /\ k \in Nat =>
              a + n + 0 + k = a + m + 1 + k
        OBVIOUS
      <4>3. Len(x[f]) = Len(w[f]) + 1 /\ Len(w[f]) \in Nat /\ g[f] \in Nat
        BY <1>2, <3>1
      <4>. QED BY <3>1, <4>1, <4>2, <4>3
    <3>. QED BY <2>1, <2>3, <3>2, <3>3 DEF Lined, Of
  <2>. QED BY <2>2, <2>3
<1>. QED BY <1>4 DEF Exact, x

(* A client's packet joins the end of its flow's queue.                     *)
LEMMA ExactAfterSend ==
  ASSUME NEW f \in Flow, NEW i \in Queues, NEW a, NEW e, NEW q, NEW act, NEW c,
         FlowsTyped(sent, owner, buf, wire, got), PortTyped(queue, active, cur),
         SendParts(f, i, a, e, q, act, c), Exact(sent, owner, queue, tx, wire, got)
  PROVE  Exact(sent', owner', q, tx, wire, got)
<1> DEFINE pkt == [flow |-> f, seq |-> sent[f]]
<1>1. /\ sent \in [Flow -> Nat] /\ sent[f] \in Nat /\ got[f] \in Nat /\ Len(wire[f]) \in Nat
      /\ owner \in [Flow -> Queues \cup {None}] /\ i # None
      /\ pkt \in Packet /\ queue \in [Queues -> Seq(Packet)]
  BY NicAssumption, LenProperties DEF FlowsTyped, PortTyped, Packet
<1>2. /\ sent'[f] = sent[f] + 1 /\ \A h \in Flow : h # f => sent'[h] = sent[h]
      /\ owner'[f] = i /\ \A h \in Flow : h # f => owner'[h] = owner[h]
      /\ owner[f] = i \/ (owner[f] = None /\ \A h \in Flow : owner[h] # i)
  BY <1>1 DEF SendParts
<1>3. \A h \in Flow : h # f => owner[h] # i
  BY <1>1, <1>2 DEF FlowsTyped
<1>4. /\ Len(q[i]) = Len(queue[i]) + 1 /\ Len(queue[i]) \in Nat
      /\ \A j \in 1 .. Len(queue[i]) : q[i][j] = queue[i][j]
      /\ q[i][Len(queue[i]) + 1] = pkt
      /\ \A j \in Queues : j # i => q[j] = queue[j]
  <2> HIDE DEF pkt
  <2>1. /\ Len(Append(queue[i], pkt)) = Len(queue[i]) + 1 /\ Len(queue[i]) \in Nat
        /\ \A j \in 1 .. Len(queue[i]) : Append(queue[i], pkt)[j] = queue[i][j]
        /\ Append(queue[i], pkt)[Len(queue[i]) + 1] = pkt
    BY <1>1, AppendedPacket
  <2>2. q = [queue EXCEPT ![i] = Append(@, pkt)]
    BY DEF SendParts, pkt
  <2>3. q[i] = Append(queue[i], pkt) /\ \A j \in Queues : j # i => q[j] = queue[j]
    BY <1>1, <2>2
  <2>. QED BY <2>1, <2>3
<1>5. ASSUME NEW k \in Queues, \A h \in Flow : owner'[h] # k
      PROVE  q[k] = <<>>
  <2>1. k # i /\ \A h \in Flow : owner[h] # k
    BY <1>1, <1>2, <1>5, NicAssumption
  <2>. QED BY <2>1, <1>4 DEF Exact
<1>6. ASSUME NEW h \in Flow, h # f
      PROVE  Lined(h, wire[h], tx, QueueOf(h, owner', q), got[h], sent'[h])
  <2>1. QueueOf(h, owner', q) = QueueOf(h, owner, queue)
    BY <1>1, <1>2, <1>3, <1>4, <1>6 DEF QueueOf
  <2>. QED BY <2>1, <1>2, <1>6 DEF Exact
<1>7. Lined(f, wire[f], tx, QueueOf(f, owner', q), got[f], sent'[f])
  <2>1. QueueOf(f, owner', q) = q[i] /\ QueueOf(f, owner, queue) = queue[i]
    BY <1>1, <1>2 DEF QueueOf, Exact
  <2>2. Lined(f, wire[f], tx, queue[i], got[f], sent[f])
    BY <2>1 DEF Exact
  <2>3. ASSUME NEW j \in 1 .. Len(q[i])
        PROVE  q[i][j].flow = f /\ q[i][j].seq = (sent'[f] - Len(q[i])) + j - 1
    <3>1. sent'[f] - Len(q[i]) = sent[f] - Len(queue[i])
      BY <1>1, <1>2, <1>4
    <3>2. CASE j \in 1 .. Len(queue[i])
      BY <3>1, <3>2, <2>2, <1>4 DEF Lined
    <3>3. CASE j = Len(queue[i]) + 1
      <4>1. q[i][j].flow = f /\ q[i][j].seq = sent[f]
        BY <3>3, <1>4
      <4>. QED BY <4>1, <3>1, <3>3, <1>1, <1>4
    <3>. QED BY <3>2, <3>3, <1>4
  <2>4. got[f] + Len(wire[f]) + (IF Of(f, tx) THEN 1 ELSE 0) + Len(q[i]) = sent'[f]
    <3> DEFINE m == got[f] + Len(wire[f]) + (IF Of(f, tx) THEN 1 ELSE 0)
    <3>1. m \in Nat
      BY <1>1
    <3>2. m + Len(queue[i]) = sent[f]
      BY <2>2 DEF Lined
    <3> HIDE DEF m
    <3>3. m + Len(q[i]) = sent'[f]
      BY <3>1, <3>2, <1>1, <1>2, <1>4
    <3>. QED BY <3>3 DEF m
  <2>. QED BY <2>1, <2>2, <2>3, <2>4 DEF Lined
<1>. QED BY <1>5, <1>6, <1>7 DEF Exact

(* The receiver takes the packet it expects.                                *)
LEMMA ExactAfterTake ==
  ASSUME FlowsTyped(sent, owner, buf, wire, got), queue \in [Queues -> Seq(Packet)],
         NEW f \in Flow, wire[f] # <<>>, wire' = [wire EXCEPT ![f] = Tail(@)],
         got' = [got EXCEPT ![f] = @ + 1], Exact(sent, owner, queue, tx, wire, got)
  PROVE  Exact(sent, owner, queue, tx, wire', got')
<1>1. /\ got \in [Flow -> Nat] /\ wire[f] \in Seq(Nat)
      /\ got'[f] = got[f] + 1 /\ wire'[f] = Tail(wire[f])
      /\ \A h \in Flow : h # f => got'[h] = got[h] /\ wire'[h] = wire[h]
  BY DEF FlowsTyped
<1>2. /\ Len(wire[f]) \in Nat \ {0} /\ Len(wire'[f]) = Len(wire[f]) - 1
      /\ \A j \in 1 .. Len(wire'[f]) : j + 1 \in 1 .. Len(wire[f]) /\ wire'[f][j] = wire[f][j + 1]
  BY ONLY <1>1, wire[f] # <<>>, TailOf
<1>3. ASSUME NEW h \in Flow
      PROVE  Lined(h, wire'[h], tx, QueueOf(h, owner, queue), got'[h], sent[h])
  <2>1. Lined(h, wire[h], tx, QueueOf(h, owner, queue), got[h], sent[h])
    BY DEF Exact
  <2>2. CASE h # f
    BY <2>1, <2>2, <1>1
  <2>3. CASE h = f
    <3>1. \A j \in 1 .. Len(wire'[f]) : wire'[f][j] = got'[f] + j - 1
      BY <2>1, <2>3, <1>1, <1>2 DEF Lined
    <3>2. got'[f] + Len(wire'[f]) = got[f] + Len(wire[f])
      BY <1>1, <1>2
    <3>. QED BY <2>1, <2>3, <3>1, <3>2 DEF Lined
  <2>. QED BY <2>2, <2>3
<1>. QED BY <1>3 DEF Exact

(* Nothing of a flow is left in its queue when its last ACK gives it back.  *)
LEMMA ExactAfterRelease ==
  ASSUME FlowsTyped(sent, owner, buf, wire, got), queue \in [Queues -> Seq(Packet)],
         NEW f \in Flow, owner[f] # None, owner' = [owner EXCEPT ![f] = None],
         got[f] = sent[f], Exact(sent, owner, queue, tx, wire, got)
  PROVE  Exact(sent, owner', queue, tx, wire, got)
<1>1. /\ owner \in [Flow -> Queues \cup {None}] /\ sent[f] \in Nat /\ Len(wire[f]) \in Nat
      /\ owner'[f] = None /\ \A h \in Flow : h # f => owner'[h] = owner[h]
      /\ owner[f] \in Queues
  BY LenProperties DEF FlowsTyped
<1>2. Lined(f, wire[f], tx, queue[owner[f]], got[f], sent[f])
  BY DEF Exact, QueueOf
<1>3. queue[owner[f]] = <<>>
  <2>1. Len(queue[owner[f]]) \in Nat
    BY <1>1, LenProperties
  <2>2. Len(queue[owner[f]]) = 0
    BY <2>1, <1>1, <1>2 DEF Lined
  <2>. QED BY <2>2, <1>1, EmptySeq
<1>4. ASSUME NEW k \in Queues, \A h \in Flow : owner'[h] # k
      PROVE  queue[k] = <<>>
  <2>1. CASE k = owner[f]
    BY <2>1, <1>3
  <2>2. CASE k # owner[f]
    <3>1. \A h \in Flow : owner[h] # k
      BY <2>2, <1>1, <1>4
    <3>. QED BY <3>1 DEF Exact
  <2>. QED BY <2>1, <2>2
<1>5. \A h \in Flow : QueueOf(h, owner', queue) = QueueOf(h, owner, queue)
  BY <1>1, <1>3 DEF QueueOf
<1>. QED BY <1>4, <1>5 DEF Exact

(* The steps that leave the receiver and the answers alone.                 *)
LEMMA PortKeepsExact ==
  ASSUME IInv, ExactNow, InStep, UNCHANGED <<receiver, answers>>,
         \/ Poll \/ TransmitComplete
         \/ \E bits \in PauseSets : ReceivePfc(bits)
         \/ \E f \in Flow : ClientSend(f)
  PROVE  ExactNow' /\ InStep'
<1>1. /\ FlowsTyped(sent, owner, buf, wire, got) /\ PortTyped(queue, active, cur)
      /\ rrlast \in Queues \cup {0} /\ tx \in Packet \cup {Idle}
      /\ Sound(conf.enable, sent, owner, queue, active, buf, cur, tx, wire, got)
      /\ Exact(sent, owner, queue, tx, wire, got)
  BY DEF IInv, FlowsTypedNow, PortTypedNow, PortSound, ExactNow
<1>2. InStep' /\ got' = got
  BY DEF InStep, receiver
<1>3. CASE Poll
  <2>1. /\ tx = Idle /\ Transmit(queue, active, cur, acked, paused)
        /\ UNCHANGED <<sent, owner, wire>>
    BY <1>3 DEF Poll, flows, network
  <2>2. Exact(sent, owner, queue', tx', wire, got)
    BY <1>1, <2>1, TransmitExact
  <2>. QED BY <1>2, <2>1, <2>2 DEF ExactNow
<1>4. CASE TransmitComplete
  <2>1. /\ tx \in Packet /\ wire' = [wire EXCEPT ![tx.flow] = Append(@, tx.seq)]
        /\ Transmit(queue, active, cur, acked, paused)
        /\ UNCHANGED <<sent, owner>>
    BY <1>1, <1>4 DEF TransmitComplete, flows
  <2>2. /\ FlowsTyped(sent, owner, buf, wire', got)
        /\ Sound(conf.enable, sent, owner, queue, active, buf, cur, Idle, wire', got)
    BY <1>1, <2>1, SoundOnWire
  <2>3. Exact(sent, owner, queue, Idle, wire', got)
    BY <1>1, <2>1, ExactOnWire DEF PortTyped
  <2>4. Exact(sent, owner, queue', tx', wire', got)
    BY <1>1, <2>1, <2>2, <2>3, TransmitExact
  <2>. QED BY <1>2, <2>1, <2>4 DEF ExactNow
<1>5. ASSUME NEW bits \in PauseSets, ReceivePfc(bits)
      PROVE  ExactNow'
  <2>1. PICK p : DequeueAndTransmit(queue, active, cur, acked, p)
    BY <1>5 DEF ReceivePfc
  <2>2. UNCHANGED <<sent, owner, wire>>
    BY <1>5 DEF ReceivePfc, flows, network
  <2>3. Exact(sent, owner, queue', tx', wire, got)
    BY <1>1, <2>1, DequeueAndTransmitExact
  <2>. QED BY <1>2, <2>2, <2>3 DEF ExactNow
<1>6. ASSUME NEW f \in Flow, ClientSend(f)
      PROVE  ExactNow'
  <2>1. PICK i \in Queues, a \in [Queues -> Nat], e \in [Queues -> BOOLEAN] : Sending(f, i, a, e)
    BY <1>6, ClientSendParts
  <2>2. PICK q, act, c : SendParts(f, i, a, e, q, act, c)
    BY <2>1 DEF Sending
  <2>3. /\ FlowsTyped(sent', owner', buf', wire, got) /\ PortTyped(q, act, c)
        /\ Sound(conf.enable, sent', owner', q, act, buf', c, tx, wire, got)
        /\ DequeueAndTransmit(q, act, c, a, paused)
    BY <2>2 DEF SendParts
  <2>4. Exact(sent', owner', q, tx, wire, got)
    BY <1>1, <2>2, ExactAfterSend
  <2>5. Exact(sent', owner', queue', tx', wire, got)
    BY <1>1, <2>3, <2>4, DequeueAndTransmitExact
  <2>6. wire' = wire
    BY <1>6 DEF ClientSend, network
  <2>. QED BY <1>2, <2>5, <2>6 DEF ExactNow
<1>. QED BY <1>2, <1>3, <1>4, <1>5, <1>6

(* The packet that arrives is the one the receiver expects.                 *)
LEMMA ReceiveDataKeepsExact ==
  ASSUME IInv, ExactNow, InStep, NEW f \in Flow, ReceiveData(f)
  PROVE  ExactNow' /\ InStep'
<1> DEFINE s == Head(wire[f])
           x == EntryOf(f).expected
<1>1. /\ wire[f] # <<>> /\ wire' = [wire EXCEPT ![f] = Tail(@)]
      /\ got' = IF s = x /\ s = got[f] THEN [got EXCEPT ![f] = s + 1] ELSE got
      /\ \/ s = x /\ (LastInOrder(f, s) \/ InOrder(f, s))
         \/ s > x /\ Gap(f)
         \/ s < x /\ Remember(f, EntryOf(f)) /\ UNCHANGED answers
      /\ UNCHANGED <<sent, owner, queue, tx>>
  BY DEF ReceiveData, port, flows
<1>2. /\ FlowsTyped(sent, owner, buf, wire, got) /\ queue \in [Queues -> Seq(Packet)]
      /\ got \in [Flow -> Nat] /\ got[f] \in Nat /\ Packets[f] \in Nat \ {0}
      /\ key \in [Flow -> Keys \cup {None}] /\ entry \in [Keys -> Entry]
      /\ answers \in [Flow -> Seq(Answer)]
      /\ EntryOf(f) \in Entry /\ conf \in Config
      /\ KeyOf(f) \in Keys /\ KeyOf(f) # None /\ \A h \in Flow : h # f => key[h] # KeyOf(f)
  BY EntryOfTyped
  DEF IInv, FlowsTypedNow, FlowsTyped, PortTypedNow, PortTyped, OthersTyped, Entry
<1>3. s = got[f] /\ got[f] # Packets[f]
  <2>1. wire[f] \in Seq(Nat)
    BY <1>2 DEF FlowsTyped
  <2>2. s = wire[f][1] /\ 1 \in 1 .. Len(wire[f])
    BY ONLY <1>1, <2>1, TailOf
  <2>3. Lined(f, wire[f], tx, QueueOf(f, owner, queue), got[f], sent[f])
    BY DEF ExactNow, Exact
  <2>4. s = got[f] + 1 - 1
    BY <2>2, <2>3 DEF Lined
  <2>5. LastTravelsLast(f, tx, wire[f], got[f])
    BY DEF IInv, PortSound, Sound
  <2>. QED BY <1>1, <1>2, <2>4, <2>5 DEF LastTravelsLast
<1>4. x = got[f]
  <2>1. CASE key[f] = None
    <3>1. got[f] = 0
      BY <1>3, <2>1 DEF InStep
    <3>. QED BY <2>1, <3>1 DEF EntryOf, FreshEntry
  <2>2. CASE key[f] # None
    BY <2>2 DEF EntryOf, InStep
  <2>. QED BY <2>1, <2>2
<1>5. got' = [got EXCEPT ![f] = @ + 1] /\ (LastInOrder(f, s) \/ InOrder(f, s))
  <2>1. s = x /\ s \in Nat
    BY <1>2, <1>3, <1>4
  <2> HIDE DEF s, x
  <2>2. got' = [got EXCEPT ![f] = s + 1]
    BY <2>1, <1>1, <1>3
  <2>3. LastInOrder(f, s) \/ InOrder(f, s)
    BY <2>1, <1>1
  <2>. QED BY <2>2, <2>3, <1>3
<1>6. ExactNow'
  BY <1>1, <1>2, <1>5, ExactAfterTake DEF ExactNow
<1>7. /\ got'[f] = got[f] + 1 /\ \A h \in Flow : h # f => got'[h] = got[h]
  BY <1>2, <1>5
<1> HIDE DEF s, x
<1>8. \/ UNCHANGED answers
      \/ \E n : answers' = [answers EXCEPT ![f] = Append(@, [kind |-> "ack", seq |-> n])]
  BY <1>5 DEF LastInOrder, InOrder, Reply
<1>9. ASSUME NEW h \in Flow, NEW j \in 1 .. Len(answers'[h])
      PROVE  answers'[h][j].kind = "ack"
  <2>1. CASE answers' = answers
    BY <2>1 DEF InStep
  <2>2. ASSUME NEW n, answers' = [answers EXCEPT ![f] = Append(@, [kind |-> "ack", seq |-> n])]
        PROVE  answers'[h][j].kind = "ack"
    <3> DEFINE a == [kind |-> "ack", seq |-> n]
    <3>1. a.kind = "ack" /\ answers' = [answers EXCEPT ![f] = Append(@, a)]
      BY <2>2
    <3> HIDE DEF a
    <3>2. answers[f] \in Seq(Answer) /\ Len(answers[f]) \in Nat
      BY <1>2, LenProperties
    <3>3. CASE h # f
      BY <3>1, <3>3, <1>2 DEF InStep
    <3>4. CASE h = f
      <4>1. answers'[f] = Append(answers[f], a)
        BY <3>1, <1>2
      <4>2. j \in 1 .. Len(answers[f]) \/ j = Len(answers[f]) + 1
        BY <3>2, <3>4, <4>1
      <4>3. CASE j \in 1 .. Len(answers[f])
        BY <3>2, <3>4, <4>1, <4>3 DEF InStep
      <4>4. CASE j = Len(answers[f]) + 1
        BY <3>1, <3>2, <3>4, <4>1, <4>4
      <4>. QED BY <4>2, <4>3, <4>4
    <3>. QED BY <3>3, <3>4
  <2>. QED BY <1>8, <2>1, <2>2
<1>10. ASSUME NEW h \in Flow
       PROVE  /\ key'[h] = None => got'[h] = 0 \/ got'[h] = Packets[h]
              /\ key'[h] # None => entry'[key'[h]].expected = got'[h]
  <2>1. CASE h # f
    <3>1. key'[h] = key[h] /\ key[h] # KeyOf(f) /\ got'[h] = got[h]
      BY <2>1, <1>2, <1>5, <1>7 DEF LastInOrder, InOrder, Remember
    <3>2. key[h] # None => entry'[key[h]] = entry[key[h]]
      BY <3>1, <1>2, <1>5 DEF LastInOrder, InOrder, Remember
    <3>. QED BY <3>1, <3>2 DEF InStep
  <2>2. CASE h = f /\ LastInOrder(f, s)
    <3>1. key'[f] = None /\ s = Packets[f] - 1
      BY <2>2, <1>2 DEF LastInOrder
    <3>2. got'[f] = Packets[f]
      BY <3>1, <1>2, <1>3, <1>7
    <3>. QED BY <2>2, <3>1, <3>2
  <2>3. CASE h = f /\ InOrder(f, s)
    <3> DEFINE e1 == [EntryOf(f) EXCEPT !.expected = s + 1]
               e == IF s + 1 > e1.milestone THEN [e1 EXCEPT !.milestone = @ + conf.ack] ELSE e1
    <3>1. Remember(f, e)
      BY <2>3 DEF InOrder
    <3>2. e1 \in Entry /\ e1.expected = s + 1 /\ conf.ack \in Nat
      <4>1. s + 1 \in Nat /\ EntryOf(f) \in Entry
        BY <1>2, <1>3
      <4>2. e1 \in Entry /\ e1.expected = s + 1
        BY ONLY <4>1, EntryExpecting
      <4>. QED BY <4>2, <1>2 DEF Config
    <3>3. e.expected = s + 1
      <4> HIDE DEF e1
      <4>. QED BY <3>2, EntryPastMilestone
    <3> HIDE DEF e, e1
    <3>4. key'[f] = KeyOf(f) /\ entry'[KeyOf(f)] = e
      BY <3>1, <1>2 DEF Remember
    <3>. QED BY <2>3, <3>3, <3>4, <1>2, <1>3, <1>7
  <2>. QED BY <1>5, <2>1, <2>2, <2>3
<1>11. InStep'
  BY <1>9, <1>10 DEF InStep
<1>. QED BY <1>6, <1>11

(* An ACK touches no queue, unless it gives an empty one back.              *)
LEMMA AnswerKeepsExact ==
  ASSUME IInv, ExactNow, InStep, NEW f \in Flow, ReceiveAck(f) \/ ReceiveNack(f)
  PROVE  ExactNow' /\ InStep'
<1>1. /\ answers[f] # <<>> /\ answers' = [answers EXCEPT ![f] = Tail(@)]
      /\ UNCHANGED <<key, entry, got, wire, sent>>
  BY DEF ReceiveAck, ReceiveNack, Answered, receiver
<1>2. /\ FlowsTyped(sent, owner, buf, wire, got) /\ queue \in [Queues -> Seq(Packet)]
      /\ answers \in [Flow -> Seq(Answer)] /\ answers[f] \in Seq(Answer)
  BY DEF IInv, FlowsTypedNow, PortTypedNow, PortTyped, OthersTyped
<1>3. /\ Head(answers[f]) = answers[f][1] /\ 1 \in 1 .. Len(answers[f])
      /\ \A j \in 1 .. Len(Tail(answers[f])) :
           j + 1 \in 1 .. Len(answers[f]) /\ Tail(answers[f])[j] = answers[f][j + 1]
  BY ONLY <1>1, <1>2, TailOf
<1>4. Head(answers[f]).kind = "ack"
  BY <1>3 DEF InStep
<1>5. ReceiveAck(f)
  BY <1>4 DEF ReceiveNack, Answered
<1>6. InStep'
  <2>1. ASSUME NEW h \in Flow, NEW j \in 1 .. Len(answers'[h])
        PROVE  answers'[h][j].kind = "ack"
    <3>1. CASE h = f
      BY <3>1, <1>1, <1>2, <1>3 DEF InStep
    <3>2. CASE h # f
      BY <3>2, <1>1, <1>2 DEF InStep
    <3>. QED BY <3>1, <3>2
  <2>. QED BY <2>1, <1>1 DEF InStep
<1>7. queue' = queue /\ tx' = tx
  BY <1>5 DEF ReceiveAck, Acknowledge, port
<1>8. CASE owner' = owner
  BY <1>1, <1>6, <1>7, <1>8 DEF ExactNow
<1>9. CASE owner' # owner
  <2> DEFINE s == Head(answers[f]).seq
  <2>1. owner[f] # None /\ Acknowledge(f, owner[f], s)
    BY <1>5, <1>9 DEF ReceiveAck, flows
  <2>2. s >= lastseq[owner[f]] /\ ended[owner[f]] /\ owner' = [owner EXCEPT ![f] = None]
    BY <1>9, <2>1 DEF Acknowledge, Release
  <2>3. Head(answers[f]) \in Answer /\ GoodAnswer(f, Head(answers[f]))
    BY <1>1, AnswerTaken
  <2>4. s \in Nat /\ (got[f] = Packets[f] \/ (s =< got[f] /\ s < Packets[f]))
    BY <1>4, <2>3 DEF Answer, GoodAnswer
  <2> HIDE DEF s
  <2>5. got[f] = sent[f]
    BY <2>1, <2>2, <2>4, ReleasedIsReceived
  <2>6. Exact(sent, owner', queue, tx, wire, got)
    BY <1>2, <2>1, <2>2, <2>5, ExactAfterRelease DEF ExactNow
  <2>. QED BY <1>1, <1>6, <1>7, <2>6 DEF ExactNow
<1>. QED BY <1>8, <1>9

LEMMA NoneLostKept ==
  ASSUME IInv, NoneLost, [Next]_vars
  PROVE  NoneLost'
<1> SUFFICES ASSUME lost' = 0
             PROVE  ExactNow' /\ InStep'
  BY DEF NoneLost
<1>1. lost = 0 /\ ExactNow /\ InStep
  <2>1. lost' = lost \/ lost' = lost + 1
    BY DEF Next, Scheduled, ClientSend, ReceiveData, ReceiveAck, ReceiveNack, Answered,
           TransmitComplete, Poll, ReceivePfc, LoseData, LoseAnswer, network, vars
  <2>2. lost \in Nat
    BY NicAssumption DEF IInv, OthersTyped
  <2>. QED BY <2>1, <2>2 DEF NoneLost
<1>2. CASE \E f \in Flow : ClientSend(f)
  BY <1>1, <1>2, PortKeepsExact DEF ClientSend, network
<1>3. CASE Poll \/ TransmitComplete \/ \E bits \in PauseSets : ReceivePfc(bits)
  BY <1>1, <1>3, PortKeepsExact DEF Poll, TransmitComplete, ReceivePfc, network
<1>4. ASSUME NEW f \in Flow, ReceiveData(f) PROVE ExactNow' /\ InStep'
  BY <1>1, <1>4, ReceiveDataKeepsExact
<1>5. ASSUME NEW f \in Flow, ReceiveAck(f) \/ ReceiveNack(f) PROVE ExactNow' /\ InStep'
  BY <1>1, <1>5, AnswerKeepsExact
<1>6. ASSUME NEW f \in Flow, LoseData(f) \/ LoseAnswer(f) PROVE FALSE
  BY <1>1, <1>6 DEF LoseData, LoseAnswer
<1>7. CASE UNCHANGED vars
  BY <1>1, <1>7 DEF vars, port, flows, receiver, network, ExactNow, InStep
<1>. QED BY <1>2, <1>3, <1>4, <1>5, <1>6, <1>7 DEF Next, Scheduled

(* What InTransitExact says of one flow.                                    *)
LEMMA LinedInTransit ==
  ASSUME NEW f \in Flow, NEW w \in Seq(Nat), NEW q \in Seq(Packet), NEW g \in Nat, NEW n \in Nat,
         tx \in Packet \cup {Idle}, Lined(f, w, tx, q, g, n)
  PROVE  LET t  == IF tx # Idle /\ tx.flow = f THEN <<tx.seq>> ELSE <<>>
             on == w \o t \o [j \in DOMAIN q |-> q[j].seq]
         IN  /\ on = [j \in 1 .. n - g |-> g + j - 1]
             /\ \A j \in DOMAIN q : q[j].flow = f
<1> DEFINE t == IF tx # Idle /\ tx.flow = f THEN <<tx.seq>> ELSE <<>>
           m == [j \in DOMAIN q |-> q[j].seq]
           k == IF Of(f, tx) THEN 1 ELSE 0
<1>1. /\ DOMAIN q = 1 .. Len(q) /\ Len(q) \in Nat /\ Len(w) \in Nat
      /\ \A j \in 1 .. Len(q) : q[j] \in Packet
  BY LenProperties, ElementOfSeq
<1>2. m \in Seq(Nat) /\ Len(m) = Len(q) /\ \A j \in 1 .. Len(q) : m[j] = q[j].seq
  <2>1. \A j \in 1 .. Len(q) : q[j].seq \in Nat
    BY <1>1 DEF Packet
  <2>. QED BY <1>1, <2>1
<1>3. /\ t \in Seq(Nat) /\ Len(t) = k /\ k \in {0, 1}
      /\ \A j \in 1 .. Len(t) : t[j] = g + Len(w)
  <2>1. CASE Of(f, tx)
    <3>1. t = <<tx.seq>> /\ tx.seq \in Nat /\ tx.seq = g + Len(w) /\ k = 1
      BY <2>1 DEF Of, Packet, Lined
    <3>. QED BY <3>1
  <2>2. CASE ~ Of(f, tx)
    <3>1. t = <<>> /\ k = 0
      BY <2>2 DEF Of
    <3>. QED BY <3>1, EmptySeq
  <2>. QED BY <2>1, <2>2
<1>4. g + Len(w) + k + Len(q) = n
  BY DEF Lined
<1>5. \A j \in 1 .. Len(w) : w[j] = g + j - 1
  BY DEF Lined
<1>6. \A j \in 1 .. Len(q) : m[j] = (n - Len(q)) + j - 1 /\ q[j].flow = f
  BY <1>2 DEF Lined
<1> HIDE DEF t, m, k
<1> DEFINE wt == w \o t
           on == wt \o m
<1>7. /\ wt \in Seq(Nat) /\ Len(wt) = Len(w) + k /\ \A j \in 1 .. Len(wt) : wt[j] = g + j - 1
  <2>1. /\ wt \in Seq(Nat) /\ Len(wt) = Len(w) + Len(t)
        /\ \A j \in 1 .. Len(w) + Len(t) : wt[j] = IF j =< Len(w) THEN w[j] ELSE t[j - Len(w)]
    BY <1>3, ConcatProperties
  <2>2. ASSUME NEW j \in 1 .. Len(w) + k
        PROVE  wt[j] = g + j - 1
    <3>1. CASE j =< Len(w)
      BY <3>1, <2>1, <1>1, <1>3, <1>5
    <3>2. CASE ~ (j =< Len(w))
      <4>1. k = 1 /\ j = Len(w) + 1 /\ j - Len(w) \in 1 .. Len(t)
        BY <3>2, <1>1, <1>3
      <4>2. wt[j] = g + Len(w)
        BY <3>2, <4>1, <2>1, <1>3
      <4>. QED BY <4>1, <4>2, <1>1
    <3>. QED BY <3>1, <3>2
  <2>. QED BY <2>1, <2>2, <1>3
<1> HIDE DEF wt
<1>8. /\ on \in Seq(Nat) /\ Len(on) = n - g /\ \A j \in 1 .. n - g : on[j] = g + j - 1
  <2>1. /\ on \in Seq(Nat) /\ Len(on) = Len(wt) + Len(m)
        /\ \A j \in 1 .. Len(wt) + Len(m) : on[j] = IF j =< Len(wt) THEN wt[j] ELSE m[j - Len(wt)]
    <3>1. wt \in Seq(Nat) /\ m \in Seq(Nat)
      BY <1>2, <1>7
    <3>. QED BY ONLY <3>1, ConcatProperties
  <2>2. Len(wt) + Len(m) = n - g /\ Len(wt) \in Nat /\ Len(wt) = n - g - Len(q)
        /\ n - Len(q) = g + Len(wt)
    <3>1. /\ Len(wt) = Len(w) + k /\ Len(m) = Len(q) /\ g + Len(w) + k + Len(q) = n
          /\ Len(w) \in Nat /\ Len(q) \in Nat /\ k \in Nat
      BY <1>1, <1>2, <1>3, <1>4, <1>7
    <3>2. \A x, y, z, u : x \in Nat /\ y \in Nat /\ z \in Nat /\ u = x + y /\ g + x + y + z = n =>
            u + z = n - g /\ u \in Nat /\ u = n - g - z /\ n - z = g + u
      OBVIOUS
    <3>. QED BY <3>1, <3>2
  <2>3. ASSUME NEW j \in 1 .. n - g
        PROVE  on[j] = g + j - 1
    <3>1. CASE j =< Len(wt)
      BY <3>1, <2>1, <2>2, <1>7
    <3>2. CASE ~ (j =< Len(wt))
      <4>1. j - Len(wt) \in 1 .. Len(q)
        BY <3>2, <2>2, <1>1, <1>2
      <4>2. on[j] = m[j - Len(wt)]
        BY <3>2, <2>1, <2>2
      <4>3. on[j] = (n - Len(q)) + (j - Len(wt)) - 1
        BY <4>1, <4>2, <1>6
      <4>. QED BY <4>3, <2>2, <1>1
    <3>. QED BY <3>1, <3>2
  <2>. QED BY <2>1, <2>2, <2>3
<1>9. on = [j \in 1 .. n - g |-> g + j - 1]
  <2>1. DOMAIN on = 1 .. n - g /\ on = [j \in DOMAIN on |-> on[j]]
    BY <1>8, LenProperties
  <2> HIDE DEF on
  <2>. QED BY <2>1, <1>8
<1>. QED BY <1>1, <1>6, <1>9 DEF on, wt, t, m

LEMMA InitNoneLost ==
  ASSUME Init
  PROVE  NoneLost
<1>1. /\ \A i \in Queues : queue[i] = <<>>
      /\ \A f \in Flow : /\ owner[f] = None /\ sent[f] = 0 /\ got[f] = 0 /\ key[f] = None
                         /\ wire[f] = <<>> /\ answers[f] = <<>>
      /\ tx = Idle /\ Len(<<>>) = 0
  BY EmptySeq DEF Init
<1>2. Exact(sent, owner, queue, tx, wire, got)
  BY <1>1 DEF Exact, Lined, Of, QueueOf
<1>. QED BY <1>1, <1>2 DEF NoneLost, ExactNow, InStep

(* As long as no packet and no ACK is lost, what is between a client and    *)
(* its receiver is what was sent and not yet received, in order, once.      *)
THEOREM NothingIsRepeated == Spec => []InTransitExact
<1>1. Init => NoneLost
  BY InitNoneLost
<1>2. IInv /\ NoneLost /\ [Next]_vars => NoneLost'
  BY NoneLostKept
<1>3. IInv /\ NoneLost => InTransitExact
  <2> SUFFICES ASSUME IInv, NoneLost, lost = 0, NEW f \in Flow
               PROVE  LET q  == IF owner[f] = None THEN <<>> ELSE queue[owner[f]]
                          t  == IF tx # Idle /\ tx.flow = f THEN <<tx.seq>> ELSE <<>>
                          on == wire[f] \o t \o [j \in DOMAIN q |-> q[j].seq]
                      IN  /\ on = [j \in 1 .. sent[f] - got[f] |-> got[f] + j - 1]
                          /\ \A j \in DOMAIN q : q[j].flow = f
    BY DEF InTransitExact
  <2> DEFINE q == QueueOf(f, owner, queue)
  <2>1. q \in Seq(Packet)
    BY QueueOfTyped DEF IInv, FlowsTypedNow, FlowsTyped, PortTypedNow, PortTyped
  <2>2. wire[f] \in Seq(Nat) /\ got[f] \in Nat /\ sent[f] \in Nat /\ tx \in Packet \cup {Idle}
    BY DEF IInv, FlowsTypedNow, FlowsTyped, PortTypedNow
  <2>3. Lined(f, wire[f], tx, q, got[f], sent[f])
    BY DEF NoneLost, ExactNow, Exact
  <2>4. q = IF owner[f] = None THEN <<>> ELSE queue[owner[f]]
    BY DEF QueueOf
  <2> HIDE DEF q
  <2>5. LET t  == IF tx # Idle /\ tx.flow = f THEN <<tx.seq>> ELSE <<>>
            on == wire[f] \o t \o [j \in DOMAIN q |-> q[j].seq]
        IN  /\ on = [j \in 1 .. sent[f] - got[f] |-> got[f] + j - 1]
            /\ \A j \in DOMAIN q : q[j].flow = f
    BY <2>1, <2>2, <2>3, LinedInTransit
  <2>. QED BY <2>4, <2>5
<1>. QED BY <1>1, <1>2, <1>3, Invariant, PTL DEF Spec

-----------------------------------------------------------------------------
(* What can be sent again *)

(* GoBack, and the packet a receiver expects, with their state spelled out. *)
BackTo(c, x) == IF c.back0 THEN (x \div c.chunk) * c.chunk ELSE x
Expecting(k, e, f) == IF k[f] = None THEN 0 ELSE e[k[f]].expected

(* The buffer b holds the newest of n packets, without a gap.               *)
Contiguous(b, n) == \A j \in 1 .. Len(b) : b[j] = (n - Len(b)) + j - 1

(* Buffer b of a flow with n packets sent reaches back to where the flow    *)
(* goes back to when x is missing, unless it is full; no answer under way   *)
(* makes the sender drop any of that.                                       *)
Reaches(c, b, n, x) ==
  Contiguous(b, n) /\ (n - Len(b) =< BackTo(c, x) \/ Len(b) = BufCap)

NotBeyond(c, ans, x) == \A j \in 1 .. Len(ans) : BackTo(c, ans[j].seq) =< BackTo(c, x)

Covered == \A f \in Flow : got[f] < Packets[f] =>
  /\ owner[f] # None => Reaches(conf, buf[owner[f]], sent[f], Expecting(key, entry, f))
  /\ NotBeyond(conf, answers[f], Expecting(key, entry, f))

LEMMA BackToProperties ==
  ASSUME NEW c \in Config, NEW x \in Nat
  PROVE  /\ BackTo(c, x) \in Nat /\ BackTo(c, x) =< x
         /\ BackTo(c, BackTo(c, x)) = BackTo(c, x)
         /\ BackTo(c, x) =< BackTo(c, x + 1)
<1> DEFINE m == c.chunk
           d == x \div m
<1>1. m \in Nat \ {0}
  BY DEF Config
<1> HIDE DEF m
<1>2. d \in Nat /\ (x + 1) \div m \in Nat /\ d =< (x + 1) \div m
  BY <1>1, DivMonotonic
<1>3. d * m \in Nat /\ d * m =< x
  BY <1>1, ChunkStartBelow
<1>4. (d * m) \div m = d
  <2> HIDE DEF d
  <2>. QED BY <1>1, <1>2, Z3T(30)
<1>5. d * m =< ((x + 1) \div m) * m
  <2> HIDE DEF d
  <2>. QED BY <1>1, <1>2, Z3T(30)
<1>. QED BY <1>3, <1>4, <1>5 DEF BackTo, m

LEMMA GoBackIsBackTo == \A x : GoBack(x) = BackTo(conf, x)
BY DEF GoBack, ChunkStart, BackTo

LEMMA EntryExpects ==
  ASSUME NEW f \in Flow
  PROVE  EntryOf(f).expected = Expecting(key, entry, f)
BY DEF EntryOf, FreshEntry, Expecting

(* Trimming at x drops nothing from x on.                                   *)
LEMMA TrimContiguous ==
  ASSUME NEW b \in Seq(Nat), NEW n \in Nat, NEW x \in Nat, Contiguous(b, n)
  PROVE  /\ Contiguous(Trim(b, x), n)
         /\ Len(Trim(b, x)) \in Nat
         /\ Len(Trim(b, x)) = Len(b) \/ n - Len(Trim(b, x)) =< x
<1> DEFINE kept == {j \in 1 .. Len(b) : b[j] >= x}
           m == Min(kept)
<1>1. Len(b) \in Nat /\ \A j \in 1 .. Len(b) : b[j] \in Nat
  BY LenProperties, ElementOfSeq
<1>2. CASE kept = {}
  <2>1. Trim(b, x) = <<>> /\ Len(<<>>) = 0
    BY <1>2, EmptySeq DEF Trim
  <2>2. Len(b) # 0 => n =< x
    <3> SUFFICES ASSUME Len(b) # 0 PROVE n =< x
      OBVIOUS
    <3>1. Len(b) \in 1 .. Len(b) /\ b[Len(b)] \in Nat
      BY <1>1
    <3>2. ~ (b[Len(b)] >= x)
      BY <3>1, <1>2
    <3>3. b[Len(b)] = (n - Len(b)) + Len(b) - 1
      BY <3>1 DEF Contiguous
    <3>. QED BY <3>1, <3>2, <3>3, <1>1
  <2>. QED BY <2>1, <2>2, <1>1 DEF Contiguous
<1>3. CASE kept # {}
  <2>1. kept \in SUBSET Nat
    BY <1>1
  <2>2. m \in kept /\ \A j \in kept : m =< j
    BY <1>3, <2>1, MinProperty
  <2>3. m \in 1 .. Len(b) /\ m \in Nat
    BY <2>2, <2>1
  <2>4. Trim(b, x) = SubSeq(b, m, Len(b))
    BY <1>3 DEF Trim
  <2>5. m # 1 => m - 1 \in 1 .. Len(b) /\ b[m - 1] < x
    <3> SUFFICES ASSUME m # 1 PROVE m - 1 \in 1 .. Len(b) /\ b[m - 1] < x
      OBVIOUS
    <3>1. m - 1 \in 1 .. Len(b) /\ ~ (m =< m - 1)
      BY <2>3, <1>1
    <3>2. m - 1 \notin kept
      BY <3>1, <2>2
    <3>3. ~ (b[m - 1] >= x)
      BY <3>1, <3>2
    <3>. QED BY <3>1, <3>3, <1>1
  <2> HIDE DEF m
  <2>6. /\ Len(Trim(b, x)) = Len(b) - m + 1
        /\ \A j \in 1 .. Len(b) - m + 1 : Trim(b, x)[j] = b[m + j - 1]
    <3>1. \A j \in m .. Len(b) : b[j] \in Nat
      BY <1>1, <2>3
    <3>2. m =< Len(b) /\ m \in Int /\ Len(b) \in Int
      BY <2>3, <1>1
    <3>. QED BY <3>1, <3>2, <2>4, SubSeqProperties
  <2>7. Contiguous(Trim(b, x), n)
    <3> SUFFICES ASSUME NEW j \in 1 .. Len(Trim(b, x))
                 PROVE  Trim(b, x)[j] = (n - Len(Trim(b, x))) + j - 1
      BY DEF Contiguous
    <3>1. j \in 1 .. Len(b) - m + 1 /\ m + j - 1 \in 1 .. Len(b)
      BY <2>3, <2>6, <1>1
    <3>2. Trim(b, x)[j] = (n - Len(b)) + (m + j - 1) - 1
      BY <3>1, <2>6 DEF Contiguous
    <3>. QED BY <3>1, <3>2, <2>3, <2>6, <1>1
  <2>8. m # 1 => n - Len(Trim(b, x)) =< x
    <3> SUFFICES ASSUME m # 1 PROVE n - Len(Trim(b, x)) =< x
      OBVIOUS
    <3>1. b[m - 1] = (n - Len(b)) + (m - 1) - 1 /\ b[m - 1] < x
      BY <2>5 DEF Contiguous
    <3>. QED BY <3>1, <2>3, <2>6, <1>1
  <2>. QED BY <2>3, <2>6, <2>7, <2>8, <1>1
<1>. QED BY <1>2, <1>3

(* Sending the next packet loses at most the oldest one of a full buffer.   *)
LEMMA AppendContiguous ==
  ASSUME NEW b \in Seq(Nat), NEW n \in Nat, Contiguous(b, n)
  PROVE  /\ Contiguous(Append(Kept(b), n), n + 1)
         /\ Len(Append(Kept(b), n)) = (IF Len(b) = BufCap THEN BufCap ELSE Len(b) + 1)
<1> DEFINE k == Kept(b)
           c == Append(k, n)
<1>1. Len(b) \in Nat
  BY LenProperties
<1>2. /\ k \in Seq(Nat) /\ Contiguous(k, n)
      /\ Len(k) = (IF Len(b) = BufCap THEN BufCap - 1 ELSE Len(b)) /\ Len(k) \in Nat
  <2>1. CASE Len(b) # BufCap
    BY <2>1, <1>1 DEF Kept
  <2>2. CASE Len(b) = BufCap
    <3>1. b # <<>> /\ BufCap \in Nat \ {0}
      BY <2>2, NicAssumption, EmptySeq
    <3>2. /\ Tail(b) \in Seq(Nat) /\ Len(Tail(b)) = Len(b) - 1
          /\ \A j \in 1 .. Len(Tail(b)) : j + 1 \in 1 .. Len(b) /\ Tail(b)[j] = b[j + 1]
      BY <3>1, TailOf
    <3>3. \A j \in 1 .. Len(Tail(b)) : Tail(b)[j] = (n - Len(Tail(b))) + j - 1
      <4> SUFFICES ASSUME NEW j \in 1 .. Len(Tail(b))
                   PROVE  Tail(b)[j] = (n - Len(Tail(b))) + j - 1
        OBVIOUS
      <4>1. Tail(b)[j] = (n - Len(b)) + (j + 1) - 1
        BY <3>2 DEF Contiguous
      <4>. QED BY <4>1, <3>2, <1>1
    <3>4. k = Tail(b)
      BY <2>2 DEF Kept
    <3>5. Len(Tail(b)) = BufCap - 1 /\ Len(Tail(b)) \in Nat
      BY <2>2, <3>1, <3>2
    <3> HIDE DEF k
    <3>. QED BY <2>2, <3>2, <3>3, <3>4, <3>5 DEF Contiguous
  <2>. QED BY <2>1, <2>2
<1> HIDE DEF k
<1>3. /\ Len(c) = Len(k) + 1 /\ c[Len(k) + 1] = n
      /\ \A j \in 1 .. Len(k) : c[j] = k[j]
  BY <1>2, Appended
<1> HIDE DEF c
<1>4. Contiguous(c, n + 1)
  <2> SUFFICES ASSUME NEW j \in 1 .. Len(c)
               PROVE  c[j] = ((n + 1) - Len(c)) + j - 1
    BY DEF Contiguous
  <2>1. (n + 1) - Len(c) = n - Len(k)
    <3>1. Len(k) \in Nat /\ Len(c) = Len(k) + 1
      BY <1>2, <1>3
    <3>2. \A x, y : x \in Nat /\ y = x + 1 => (n + 1) - y = n - x
      OBVIOUS
    <3>. QED BY <3>1, <3>2
  <2>2. CASE j \in 1 .. Len(k)
    BY <2>1, <2>2, <1>2, <1>3 DEF Contiguous
  <2>3. CASE j = Len(k) + 1
    <3>1. c[j] = n /\ (n - Len(k)) + j - 1 = n
      BY <2>3, <1>2, <1>3
    <3>. QED BY <3>1, <2>1
  <2>. QED BY <2>2, <2>3, <1>2, <1>3
<1>5. Len(c) = (IF Len(b) = BufCap THEN BufCap ELSE Len(b) + 1)
  BY <1>1, <1>2, <1>3, NicAssumption
<1>. QED BY <1>4, <1>5 DEF c, k

LEMMA ReachesAfterSend ==
  ASSUME NEW c, NEW b \in Seq(Nat), NEW n \in Nat, NEW x, Reaches(c, b, n, x),
         BackTo(c, x) \in Nat
  PROVE  Reaches(c, Append(Kept(b), n), n + 1, x)
<1>1. /\ Contiguous(Append(Kept(b), n), n + 1)
      /\ Len(Append(Kept(b), n)) = (IF Len(b) = BufCap THEN BufCap ELSE Len(b) + 1)
  BY AppendContiguous DEF Reaches
<1>2. Len(b) \in Nat
  BY LenProperties
<1>3. CASE Len(b) = BufCap
  BY <1>1, <1>3 DEF Reaches
<1>4. CASE Len(b) # BufCap
  <2>1. n - Len(b) =< BackTo(c, x) /\ (n + 1) - (Len(b) + 1) = n - Len(b)
    BY <1>2, <1>4 DEF Reaches
  <2>. QED BY <1>1, <1>4, <2>1 DEF Reaches
<1>. QED BY <1>3, <1>4

LEMMA ReachesAfterTrim ==
  ASSUME NEW c, NEW b \in Seq(Nat), NEW n \in Nat, NEW x, Reaches(c, b, n, x),
         BackTo(c, x) \in Nat, NEW y \in Nat, y =< BackTo(c, x)
  PROVE  Reaches(c, Trim(b, y), n, x)
<1>1. /\ Contiguous(Trim(b, y), n) /\ Len(Trim(b, y)) \in Nat
      /\ Len(Trim(b, y)) = Len(b) \/ n - Len(Trim(b, y)) =< y
  BY TrimContiguous DEF Reaches
<1>2. CASE Len(Trim(b, y)) = Len(b)
  BY <1>1, <1>2 DEF Reaches
<1>3. CASE n - Len(Trim(b, y)) =< y
  BY <1>1, <1>3 DEF Reaches
<1>. QED BY <1>1, <1>2, <1>3

-----------------------------------------------------------------------------
(* Every step keeps Covered.  h names a flow the step leaves alone.         *)

Untouched(h) ==
  /\ owner'[h] = owner[h] /\ sent'[h] = sent[h] /\ got'[h] = got[h]
  /\ owner[h] # None => buf'[owner[h]] = buf[owner[h]]
  /\ Expecting(key', entry', h) = Expecting(key, entry, h)
  /\ answers'[h] = answers[h]

CoveredIn(h) == got[h] < Packets[h] =>
  /\ owner[h] # None => Reaches(conf, buf[owner[h]], sent[h], Expecting(key, entry, h))
  /\ NotBeyond(conf, answers[h], Expecting(key, entry, h))

LEMMA UntouchedCovered ==
  ASSUME Covered, NEW h \in Flow, Untouched(h), conf' = conf
  PROVE  CoveredIn(h)'
BY DEF Covered, CoveredIn, Untouched

LEMMA ExpectingTyped ==
  ASSUME IInv, NEW f \in Flow
  PROVE  /\ conf \in Config /\ Expecting(key, entry, f) \in Nat
         /\ BackTo(conf, Expecting(key, entry, f)) \in Nat
         /\ Expecting(key, entry, f) =< got[f]
<1>1. conf \in Config /\ EntryOf(f) \in Entry /\ EntryOf(f).expected =< got[f]
  BY EntryOfTyped
<1>2. Expecting(key, entry, f) \in Nat /\ Expecting(key, entry, f) =< got[f]
  BY <1>1, EntryExpects DEF Entry
<1>. QED BY <1>1, <1>2, BackToProperties

(* One answer fewer.                                                        *)
LEMMA NotBeyondTail ==
  ASSUME NEW c, NEW ans \in Seq(Answer), ans # <<>>, NEW x, NotBeyond(c, ans, x)
  PROVE  BackTo(c, Head(ans).seq) =< BackTo(c, x) /\ NotBeyond(c, Tail(ans), x)
<1>1. /\ Head(ans) = ans[1] /\ 1 \in 1 .. Len(ans)
      /\ \A j \in 1 .. Len(Tail(ans)) : j + 1 \in 1 .. Len(ans) /\ Tail(ans)[j] = ans[j + 1]
  BY TailOf
<1>. QED BY <1>1 DEF NotBeyond

(* The client's packet is buffered.                                         *)
LEMMA ClientSendCovers ==
  ASSUME IInv, Covered, NEW f \in Flow, ClientSend(f)
  PROVE  Covered'
<1>1. PICK i \in Queues, a \in [Queues -> Nat], e \in [Queues -> BOOLEAN] : Sending(f, i, a, e)
  BY ClientSendParts
<1>2. PICK q, act, c : SendParts(f, i, a, e, q, act, c)
  BY <1>1 DEF Sending
<1>3. /\ UNCHANGED <<conf, key, entry, got, answers>> /\ sent[f] < Packets[f]
  BY DEF ClientSend, receiver, network
<1>4. /\ sent \in [Flow -> Nat] /\ owner \in [Flow -> Queues \cup {None}]
      /\ buf \in [Queues -> Seq(Nat)] /\ i # None
      /\ \A h, k \in Flow : h # k /\ owner[h] # None => owner[h] # owner[k]
  BY NicAssumption DEF IInv, FlowsTypedNow, FlowsTyped
<1>5. /\ sent'[f] = sent[f] + 1 /\ \A h \in Flow : h # f => sent'[h] = sent[h]
      /\ owner'[f] = i /\ \A h \in Flow : h # f => owner'[h] = owner[h]
      /\ owner[f] = i \/ (owner[f] = None /\ \A h \in Flow : owner[h] # i)
      /\ buf'[i] = Append(Kept(buf[i]), sent[f]) /\ \A j \in Queues : j # i => buf'[j] = buf[j]
  BY <1>2, <1>4 DEF SendParts
<1>6. ASSUME NEW h \in Flow, h # f
      PROVE  CoveredIn(h)'
  <2>1. owner[h] # None => owner[h] \in Queues /\ owner[h] # i
    BY <1>4, <1>5, <1>6
  <2>2. Untouched(h)
    BY <2>1, <1>3, <1>5, <1>6 DEF Untouched, Expecting
  <2>. QED BY <2>2, <1>3, UntouchedCovered
<1>7. ASSUME got[f] < Packets[f]
      PROVE  Reaches(conf, buf[i], sent[f], Expecting(key, entry, f))
  <2>1. CASE owner[f] = i
    BY <1>4, <1>7, <2>1 DEF Covered
  <2>2. CASE owner[f] = None /\ \A h \in Flow : owner[h] # i
    <3>1. buf[i] = <<>> /\ Len(<<>>) = 0
      BY <2>2, EmptySeq DEF IInv, Buffers
    <3>2. sent[f] = 0
      BY <2>2, <1>3, <1>4, NicAssumption DEF IInv, FlowsLive
    <3>3. BackTo(conf, Expecting(key, entry, f)) \in Nat
      BY ExpectingTyped
    <3>. QED BY <3>1, <3>2, <3>3 DEF Reaches, Contiguous
  <2>. QED BY <2>1, <2>2, <1>5
<1>8. CoveredIn(f)'
  <2> SUFFICES ASSUME got[f] < Packets[f]
               PROVE  /\ Reaches(conf, buf'[i], sent'[f], Expecting(key, entry, f))
                      /\ NotBeyond(conf, answers[f], Expecting(key, entry, f))
    BY <1>3, <1>5 DEF CoveredIn
  <2>1. Reaches(conf, Append(Kept(buf[i]), sent[f]), sent[f] + 1, Expecting(key, entry, f))
    <3>1. buf[i] \in Seq(Nat) /\ sent[f] \in Nat
      BY <1>4
    <3>2. BackTo(conf, Expecting(key, entry, f)) \in Nat
      BY ExpectingTyped
    <3>. QED BY <3>1, <3>2, <1>7, ReachesAfterSend
  <2>. QED BY <2>1, <1>5 DEF Covered
<1>. QED BY <1>6, <1>8 DEF Covered, CoveredIn

(* The buffer of f is trimmed to what an answer says, or given up.          *)
LEMMA AnswerCovers ==
  ASSUME IInv, Covered, NEW f \in Flow, ReceiveAck(f) \/ ReceiveNack(f)
  PROVE  Covered'
<1> DEFINE y == BackTo(conf, Head(answers[f]).seq)
           x == Expecting(key, entry, f)
<1>1. /\ answers[f] # <<>> /\ answers' = [answers EXCEPT ![f] = Tail(@)]
      /\ UNCHANGED <<conf, key, entry, got, sent>>
  BY DEF ReceiveAck, ReceiveNack, Answered, receiver
<1>2. /\ sent \in [Flow -> Nat] /\ owner \in [Flow -> Queues \cup {None}]
      /\ buf \in [Queues -> Seq(Nat)] /\ answers \in [Flow -> Seq(Answer)]
      /\ \A h, k \in Flow : h # k /\ owner[h] # None => owner[h] # owner[k]
  BY DEF IInv, FlowsTypedNow, FlowsTyped, OthersTyped
<1>3. /\ answers'[f] = Tail(answers[f]) /\ \A h \in Flow : h # f => answers'[h] = answers[h]
  BY <1>1, <1>2
<1>4. \/ owner' = owner /\ buf' = buf
      \/ owner[f] # None /\ owner' = owner
         /\ buf' = [buf EXCEPT ![owner[f]] = Trim(@, y)]
      \/ owner[f] # None /\ owner' = [owner EXCEPT ![f] = None]
         /\ buf' = [buf EXCEPT ![owner[f]] = <<>>]
  <2>1. CASE ReceiveAck(f)
    BY <2>1, GoBackIsBackTo DEF ReceiveAck, Acknowledge, Release, flows
  <2>2. CASE ReceiveNack(f)
    BY <2>2, GoBackIsBackTo DEF ReceiveNack, Recover, flows
  <2>. QED BY <2>1, <2>2
<1>5. ASSUME NEW h \in Flow, h # f
      PROVE  CoveredIn(h)'
  <2>1. owner[h] # None => owner[h] \in Queues /\ owner[h] # owner[f]
    BY <1>2, <1>5
  <2>2. owner'[h] = owner[h] /\ (owner[h] # None => buf'[owner[h]] = buf[owner[h]])
    BY <2>1, <1>2, <1>4, <1>5
  <2>3. Untouched(h)
    BY <2>2, <1>1, <1>3, <1>5 DEF Untouched
  <2>. QED BY <2>3, <1>1, UntouchedCovered
<1>6. CoveredIn(f)'
  <2> SUFFICES ASSUME got[f] < Packets[f]
               PROVE  /\ owner'[f] # None => Reaches(conf, buf'[owner'[f]], sent[f], x)
                      /\ NotBeyond(conf, Tail(answers[f]), x)
    BY <1>1, <1>3 DEF CoveredIn
  <2>1. NotBeyond(conf, answers[f], x) /\ (owner[f] # None => Reaches(conf, buf[owner[f]], sent[f], x))
    BY DEF Covered
  <2> HIDE DEF x
  <2>2. answers[f] \in Seq(Answer)
    BY <1>2
  <2>3. y =< BackTo(conf, x) /\ NotBeyond(conf, Tail(answers[f]), x)
    BY ONLY <1>1, <2>1, <2>2, NotBeyondTail
  <2>4. conf \in Config /\ BackTo(conf, x) \in Nat
    BY ExpectingTyped DEF x
  <2>5. y \in Nat
    <3>1. Head(answers[f]) \in Answer
      BY ONLY <1>1, <2>2, TailOf
    <3>2. Head(answers[f]).seq \in Nat
      BY <3>1 DEF Answer
    <3>. QED BY <2>4, <3>2, BackToProperties
  <2> HIDE DEF y
  <2>6. ASSUME owner[f] # None
        PROVE  Reaches(conf, Trim(buf[owner[f]], y), sent[f], x)
    <3>1. buf[owner[f]] \in Seq(Nat) /\ sent[f] \in Nat
      BY <2>6, <1>2
    <3>. QED BY <3>1, <2>1, <2>3, <2>4, <2>5, <2>6, ReachesAfterTrim
  <2>7. CASE owner' = owner /\ buf' = buf
    BY <2>1, <2>3, <2>7
  <2>8. CASE owner[f] # None /\ owner' = owner /\ buf' = [buf EXCEPT ![owner[f]] = Trim(@, y)]
    <3>1. buf'[owner[f]] = Trim(buf[owner[f]], y)
      BY <2>8, <1>2
    <3>. QED BY <3>1, <2>3, <2>6, <2>8
  <2>9. CASE owner[f] # None /\ owner' = [owner EXCEPT ![f] = None]
    BY <2>3, <2>9, <1>2
  <2>. QED BY <2>7, <2>8, <2>9, <1>4
<1>. QED BY <1>5, <1>6 DEF Covered, CoveredIn

(* What the receiver expects of an unfinished flow never goes back beyond   *)
(* the chunk it is in, and neither does what it answers.                    *)
Forward(f, e) ==
  /\ key' = [key EXCEPT ![f] = KeyOf(f)] /\ entry' = [entry EXCEPT ![KeyOf(f)] = e]
  /\ e.expected \in Nat
  /\ BackTo(conf, EntryOf(f).expected) =< BackTo(conf, e.expected)
  /\ \/ answers' = answers
     \/ \E a \in Answer : /\ answers' = [answers EXCEPT ![f] = Append(@, a)]
                          /\ BackTo(conf, a.seq) =< BackTo(conf, e.expected)

LEMMA ReceiveDataForward ==
  ASSUME IInv, NEW f \in Flow, ReceiveData(f), got'[f] < Packets[f]
  PROVE  \E e : Forward(f, e)
<1> DEFINE s == Head(wire[f])
           x == EntryOf(f).expected
<1>1. /\ conf \in Config /\ EntryOf(f) \in Entry /\ x =< got[f] /\ x \in Nat
      /\ got[f] \in Nat /\ Packets[f] \in Nat \ {0} /\ got \in [Flow -> Nat]
      /\ conf.chunk \in Nat \ {0} /\ conf.ack \in Nat
  BY EntryOfTyped DEF IInv, FlowsTypedNow, FlowsTyped, Entry, Config
<1>2. /\ got' = IF s = x /\ s = got[f] THEN [got EXCEPT ![f] = s + 1] ELSE got
      /\ \/ s = x /\ (LastInOrder(f, s) \/ InOrder(f, s))
         \/ s > x /\ Gap(f)
         \/ s < x /\ Remember(f, EntryOf(f)) /\ UNCHANGED answers
  BY DEF ReceiveData
<1>3. /\ BackTo(conf, x) \in Nat /\ BackTo(conf, x) =< x
      /\ BackTo(conf, BackTo(conf, x)) = BackTo(conf, x)
      /\ BackTo(conf, x) =< BackTo(conf, x + 1)
  <2> HIDE DEF x
  <2>. QED BY <1>1, BackToProperties
<1>3a. BackTo(conf, x + 1) \in Nat
  <2> HIDE DEF x
  <2>1. x + 1 \in Nat
    BY <1>1
  <2>. QED BY <2>1, <1>1, BackToProperties
<1> HIDE DEF s, x
<1>4. CASE s = x /\ LastInOrder(f, s)
  <2>1. s = Packets[f] - 1
    BY <1>4 DEF LastInOrder
  <2>2. got'[f] = got[f] \/ got'[f] = s + 1
    BY <1>1, <1>2
  <2>3. s = got[f]
    BY <2>1, <2>2, <1>1, <1>4
  <2>4. got'[f] = s + 1
    BY <2>3, <1>1, <1>2, <1>4
  <2>. QED BY <2>1, <2>4, <1>1
<1>5. CASE s = x /\ InOrder(f, s)
  <2> DEFINE e1 == [EntryOf(f) EXCEPT !.expected = s + 1]
             past == s + 1 > e1.milestone
             e == IF past THEN [e1 EXCEPT !.milestone = @ + conf.ack] ELSE e1
             a == [kind |-> "ack", seq |-> s + 1]
  <2>1. /\ Remember(f, e)
        /\ answers' = [answers EXCEPT ![f] = Append(@, a)] \/ answers' = answers
    BY <1>5 DEF InOrder, Reply
  <2>2. e1 \in Entry /\ e1.expected = s + 1
    <3>1. s + 1 \in Nat
      BY <1>1, <1>5
    <3>. QED BY <3>1, <1>1, EntryExpecting
  <2>3. e.expected = s + 1
    <3> HIDE DEF e1
    <3>. QED BY <2>2, <1>1, EntryPastMilestone
  <2>4. a \in Answer /\ a.seq = s + 1
    BY <1>1, <1>5 DEF Answer
  <2> HIDE DEF e, a
  <2>5. BackTo(conf, x) =< BackTo(conf, e.expected) /\ e.expected \in Nat
        /\ BackTo(conf, a.seq) =< BackTo(conf, e.expected)
    BY <2>3, <2>4, <1>1, <1>3, <1>3a, <1>5
  <2>6. Forward(f, e)
    BY <2>1, <2>4, <2>5 DEF Forward, Remember, x
  <2>. QED BY <2>6
<1>6. CASE s > x /\ Gap(f)
  <2> DEFINE back == IF conf.back0 /\ ~ conf.test THEN ChunkStart(x) ELSE x
             e == [EntryOf(f) EXCEPT !.lastNack = x, !.expected = back]
             a == [kind |-> "nack", seq |-> back]
  <2>1. \/ Remember(f, e) /\ answers' = [answers EXCEPT ![f] = Append(@, a)]
        \/ Remember(f, EntryOf(f)) /\ answers' = answers
    BY <1>6 DEF Gap, Reply, x
  <2>2. back \in Nat /\ BackTo(conf, back) = BackTo(conf, x)
    <3>1. conf.back0 => ChunkStart(x) = BackTo(conf, x)
      BY DEF BackTo, ChunkStart
    <3>. QED BY <3>1, <1>1, <1>3
  <2> HIDE DEF back
  <2>3. e.expected = back
    <3>1. x \in Int
      BY <1>1
    <3>. QED BY <1>1, <2>2, <3>1, EntryNacked, Zenon
  <2>4. a \in Answer /\ a.seq = back
    BY <2>2 DEF Answer
  <2> HIDE DEF e, a
  <2>5. CASE Remember(f, e) /\ answers' = [answers EXCEPT ![f] = Append(@, a)]
    <3>1. Forward(f, e)
      <4>1. /\ BackTo(conf, x) =< BackTo(conf, e.expected) /\ e.expected \in Nat
            /\ BackTo(conf, a.seq) =< BackTo(conf, e.expected)
        BY <2>2, <2>3, <2>4, <1>3
      <4>. QED BY <2>4, <2>5, <4>1 DEF Forward, Remember, x
    <3>. QED BY <3>1
  <2>6. CASE Remember(f, EntryOf(f)) /\ answers' = answers
    <3>1. Forward(f, EntryOf(f))
      BY <2>6, <1>1, <1>3 DEF Forward, Remember, x
    <3>. QED BY <3>1
  <2>. QED BY <2>1, <2>5, <2>6
<1>7. CASE s < x /\ Remember(f, EntryOf(f)) /\ UNCHANGED answers
  <2>1. Forward(f, EntryOf(f))
    BY <1>1, <1>3, <1>7 DEF Forward, Remember, x
  <2>. QED BY <2>1
<1>. QED BY <1>2, <1>4, <1>5, <1>6, <1>7

LEMMA NotBeyondForward ==
  ASSUME NEW c, NEW ans \in Seq(Answer), NEW x, NEW y, NotBeyond(c, ans, x),
         c \in Config, BackTo(c, x) \in Nat, BackTo(c, y) \in Nat,
         BackTo(c, x) =< BackTo(c, y)
  PROVE  /\ NotBeyond(c, ans, y)
         /\ \A a \in Answer : BackTo(c, a.seq) =< BackTo(c, y) => NotBeyond(c, Append(ans, a), y)
<1>1. ASSUME NEW j \in 1 .. Len(ans)
      PROVE  BackTo(c, ans[j].seq) =< BackTo(c, y)
  <2>1. ans[j] \in Answer
    BY ElementOfSeq
  <2>2. ans[j].seq \in Nat
    BY <2>1 DEF Answer
  <2>3. BackTo(c, ans[j].seq) \in Nat
    BY <2>2, BackToProperties
  <2>4. BackTo(c, ans[j].seq) =< BackTo(c, x)
    BY DEF NotBeyond
  <2>. QED BY <2>3, <2>4
<1>2. ASSUME NEW a \in Answer, BackTo(c, a.seq) =< BackTo(c, y), NEW j \in 1 .. Len(Append(ans, a))
      PROVE  BackTo(c, Append(ans, a)[j].seq) =< BackTo(c, y)
  <2>1. \/ j \in 1 .. Len(ans) /\ Append(ans, a)[j] = ans[j]
        \/ Append(ans, a)[j] = a
    <3>1. /\ Len(ans) \in Nat /\ Len(Append(ans, a)) = Len(ans) + 1
          /\ \A k \in 1 .. Len(ans) : Append(ans, a)[k] = ans[k]
          /\ Append(ans, a)[Len(ans) + 1] = a
      BY AppendProperties, LenProperties
    <3>2. j \in 1 .. Len(ans) \/ j = Len(ans) + 1
      BY <3>1
    <3>. QED BY <3>1, <3>2
  <2>. QED BY <2>1, <1>1, <1>2
<1>. QED BY <1>1, <1>2 DEF NotBeyond

LEMMA ReceiveDataCovers ==
  ASSUME IInv, Covered, NEW f \in Flow, ReceiveData(f)
  PROVE  Covered'
<1>1. /\ UNCHANGED <<conf, sent, owner, buf>> /\ wire[f] # <<>>
  BY DEF ReceiveData, flows
<1>2. got[f] # Packets[f]
  <2>1. LastTravelsLast(f, tx, wire[f], got[f])
    BY DEF IInv, PortSound, Sound
  <2>. QED BY <1>1, <2>1 DEF LastTravelsLast
<1>3. /\ got' \in [Flow -> Nat] /\ got[f] =< got'[f] /\ got'[f] =< sent[f]
      /\ got' = got \/ got' = [got EXCEPT ![f] = wire[f][1] + 1]
      /\ AnsweredWell(f)
  BY <1>2, ReceiveDataCases
<1>4. PICK d : Checked(f, d)
  BY <1>2, ReceiveDataCases
<1>5. /\ KeyOf(f) \in Keys /\ KeyOf(f) # None /\ \A h \in Flow : h # f => key[h] # KeyOf(f)
      /\ key \in [Flow -> Keys \cup {None}] /\ entry \in [Keys -> Entry]
      /\ answers \in [Flow -> Seq(Answer)] /\ got \in [Flow -> Nat] /\ Packets[f] \in Nat
  BY EntryOfTyped DEF IInv, OthersTyped, Entry, FlowsTypedNow, FlowsTyped
<1>6. ASSUME NEW h \in Flow, h # f
      PROVE  CoveredIn(h)'
  <2>1. key'[h] = key[h] /\ key[h] # KeyOf(f) /\ got'[h] = got[h]
    BY <1>3, <1>4, <1>5, <1>6 DEF Checked
  <2>2. key[h] # None => entry'[key[h]] = entry[key[h]]
    BY <2>1, <1>4, <1>5 DEF Checked
  <2>3. answers'[h] = answers[h]
    BY <1>3, <1>5, <1>6 DEF AnsweredWell
  <2>4. Untouched(h)
    BY <2>1, <2>2, <2>3, <1>1 DEF Untouched, Expecting
  <2>. QED BY <2>4, <1>1, UntouchedCovered
<1>7. CoveredIn(f)'
  <2> DEFINE x == Expecting(key, entry, f)
             y == Expecting(key', entry', f)
  <2> SUFFICES ASSUME got'[f] < Packets[f]
               PROVE  /\ owner[f] # None => Reaches(conf, buf[owner[f]], sent[f], y)
                      /\ NotBeyond(conf, answers'[f], y)
    BY <1>1 DEF CoveredIn
  <2>1. PICK e : Forward(f, e)
    BY ReceiveDataForward
  <2>2. y = e.expected /\ y \in Nat
    <3>1. key'[f] = KeyOf(f) /\ entry'[KeyOf(f)] = e /\ e.expected \in Nat
      BY <2>1, <1>5 DEF Forward
    <3>. QED BY <3>1, <1>5 DEF Expecting
  <2>3. conf \in Config /\ BackTo(conf, x) \in Nat /\ x = EntryOf(f).expected
    BY ExpectingTyped, EntryExpects
  <2>4. BackTo(conf, x) =< BackTo(conf, y)
    BY <2>1, <2>2, <2>3 DEF Forward
  <2>5. NotBeyond(conf, answers[f], x) /\ (owner[f] # None => Reaches(conf, buf[owner[f]], sent[f], x))
    <3>1. got[f] < Packets[f]
      BY <1>3, <1>5
    <3>. QED BY <3>1 DEF Covered
  <2>6. \/ answers'[f] = answers[f]
        \/ \E a \in Answer : /\ answers'[f] = Append(answers[f], a)
                             /\ BackTo(conf, a.seq) =< BackTo(conf, y)
    BY <2>1, <2>2, <1>5 DEF Forward
  <2> HIDE DEF x, y
  <2>7. BackTo(conf, y) \in Nat
    BY <2>2, <2>3, BackToProperties
  <2>8. NotBeyond(conf, answers'[f], y)
    <3>1. answers[f] \in Seq(Answer)
      BY <1>5
    <3>2. /\ NotBeyond(conf, answers[f], y)
          /\ \A a \in Answer :
               BackTo(conf, a.seq) =< BackTo(conf, y) => NotBeyond(conf, Append(answers[f], a), y)
      BY <3>1, <2>3, <2>4, <2>5, <2>7, NotBeyondForward
    <3>. QED BY <3>2, <2>6
  <2>9. ASSUME owner[f] # None
        PROVE  Reaches(conf, buf[owner[f]], sent[f], y)
    <3>1. buf[owner[f]] \in Seq(Nat) /\ sent[f] \in Nat
      BY <2>9 DEF IInv, FlowsTypedNow, FlowsTyped
    <3>2. Len(buf[owner[f]]) \in Nat
      BY <3>1, LenProperties
    <3>3. Contiguous(buf[owner[f]], sent[f])
          /\ (sent[f] - Len(buf[owner[f]]) =< BackTo(conf, x) \/ Len(buf[owner[f]]) = BufCap)
      BY <2>5, <2>9 DEF Reaches
    <3>4. sent[f] - Len(buf[owner[f]]) =< BackTo(conf, y) \/ Len(buf[owner[f]]) = BufCap
      BY <3>1, <3>2, <3>3, <2>3, <2>4, <2>7
    <3>. QED BY <3>3, <3>4 DEF Reaches
  <2>. QED BY <2>8, <2>9
<1>. QED BY <1>6, <1>7 DEF Covered, CoveredIn

LEMMA OthersCover ==
  ASSUME IInv, Covered,
         \/ TransmitComplete \/ Poll \/ UNCHANGED vars
         \/ \E bits \in PauseSets : ReceivePfc(bits)
         \/ \E f \in Flow : LoseData(f) \/ LoseAnswer(f)
  PROVE  Covered'
<1>1. CASE \E f \in Flow : LoseAnswer(f)
  <2>1. PICK f \in Flow : LoseAnswer(f)
    BY <1>1
  <2>2. /\ answers[f] # <<>> /\ answers' = [answers EXCEPT ![f] = Tail(@)]
        /\ UNCHANGED <<conf, sent, owner, buf, key, entry, got>>
    BY <2>1 DEF LoseAnswer, flows, receiver
  <2>3. answers \in [Flow -> Seq(Answer)] /\ answers[f] \in Seq(Answer)
    BY DEF IInv, OthersTyped
  <2>4. ASSUME NEW h \in Flow, h # f
        PROVE  CoveredIn(h)'
    <3>1. Untouched(h)
      BY <2>2, <2>3, <2>4 DEF Untouched
    <3>. QED BY <3>1, <2>2, UntouchedCovered
  <2>5. CoveredIn(f)'
    <3>1. answers'[f] = Tail(answers[f])
      BY <2>2, <2>3
    <3>2. NotBeyond(conf, answers[f], Expecting(key, entry, f)) =>
            NotBeyond(conf, Tail(answers[f]), Expecting(key, entry, f))
      BY <2>2, <2>3, NotBeyondTail
    <3>. QED BY <3>1, <3>2, <2>2 DEF Covered, CoveredIn
  <2>. QED BY <2>4, <2>5 DEF Covered, CoveredIn
<1>2. CASE \/ TransmitComplete \/ Poll \/ UNCHANGED vars
           \/ \E bits \in PauseSets : ReceivePfc(bits)
           \/ \E f \in Flow : LoseData(f)
  <2>1. UNCHANGED <<conf, sent, owner, buf, key, entry, got, answers>>
    BY <1>2 DEF TransmitComplete, Poll, ReceivePfc, LoseData, flows, receiver, network, vars
  <2>. QED BY <2>1 DEF Covered
<1>. QED BY <1>1, <1>2

LEMMA CoveredKept ==
  ASSUME IInv, Covered, [Next]_vars
  PROVE  Covered'
<1>1. ASSUME NEW f \in Flow, ClientSend(f) PROVE Covered'
  BY <1>1, ClientSendCovers
<1>2. ASSUME NEW f \in Flow, ReceiveData(f) PROVE Covered'
  BY <1>2, ReceiveDataCovers
<1>3. ASSUME NEW f \in Flow, ReceiveAck(f) \/ ReceiveNack(f) PROVE Covered'
  BY <1>3, AnswerCovers
<1>. QED BY <1>1, <1>2, <1>3, OthersCover DEF Next, Scheduled

(* Whatever is lost, and whichever ACKs and NACKs are under way, the packet *)
(* a receiver waits for is in the sending buffer of its flow, unless        *)
(* BufCap newer ones have been sent.                                        *)
THEOREM UnreceivedStaysBuffered == Spec => []UnreceivedIsBuffered
<1>1. Init => Covered
  BY EmptySeq DEF Init, Covered, NotBeyond
<1>2. IInv /\ Covered /\ [Next]_vars => Covered'
  BY CoveredKept
<1>3. IInv /\ Covered => UnreceivedIsBuffered
  <2> SUFFICES ASSUME IInv, Covered, NEW f \in Flow, owner[f] # None, got[f] < Packets[f],
                      NEW s \in EntryOf(f).expected .. sent[f] - 1, s >= sent[f] - BufCap
               PROVE  s \in InBuffer(owner[f])
    BY DEF UnreceivedIsBuffered
  <2> DEFINE b == buf[owner[f]]
             n == sent[f]
             x == Expecting(key, entry, f)
  <2>1. b \in Seq(Nat) /\ n \in Nat
    BY DEF IInv, FlowsTypedNow, FlowsTyped
  <2>2. Reaches(conf, b, n, x)
    BY DEF Covered
  <2>3. conf \in Config /\ x \in Nat /\ x = EntryOf(f).expected
    BY ExpectingTyped, EntryExpects
  <2>4. s \in x .. n - 1 /\ s >= n - BufCap
    BY <2>3
  <2> HIDE DEF b, n, x
  <2>5. BackTo(conf, x) \in Nat /\ BackTo(conf, x) =< x
    BY <2>3, BackToProperties
  <2>6. Len(b) \in Nat /\ DOMAIN b = 1 .. Len(b) /\ BufCap \in Nat
    BY <2>1, LenProperties, NicAssumption
  <2>7. n - Len(b) =< s
    <3>1. n - Len(b) =< BackTo(conf, x) \/ Len(b) = BufCap
      BY <2>2 DEF Reaches
    <3>2. CASE n - Len(b) =< BackTo(conf, x)
      BY <3>2, <2>1, <2>3, <2>4, <2>5, <2>6
    <3>3. CASE Len(b) = BufCap
      BY <3>3, <2>4
    <3>. QED BY <3>1, <3>2, <3>3
  <2> DEFINE j == s - (n - Len(b)) + 1
  <2>8. j \in 1 .. Len(b) /\ (n - Len(b)) + j - 1 = s
    BY <2>1, <2>3, <2>4, <2>6, <2>7
  <2> HIDE DEF j
  <2>9. b[j] = s
    BY <2>2, <2>8 DEF Reaches, Contiguous
  <2>. QED BY <2>6, <2>8, <2>9 DEF InBuffer, b
<1>. QED BY <1>1, <1>2, <1>3, Invariant, PTL DEF Spec

-----------------------------------------------------------------------------
(* The refinement: a host keeps the promise of FlowDelivery *)

Open == {h \in Flow : owner[h] # None}

Stutters == UNCHANGED <<sent, got, owner>>

LEMMA StutterRefines ==
  ASSUME Stutters
  PROVE  [Delivery!Next]_(Delivery!dvars)
BY DEF Stutters, Delivery!dvars

LEMMA ClientSendRefines ==
  ASSUME IInv, NEW f \in Flow, ClientSend(f)
  PROVE  Delivery!Next
<1>1a. PICK i \in Queues, a \in [Queues -> Nat], e \in [Queues -> BOOLEAN] : Sending(f, i, a, e)
  BY ClientSendParts
<1>1. PICK q, act, c : SendParts(f, i, a, e, q, act, c)
  BY <1>1a DEF Sending
<1>2. /\ owner' = [owner EXCEPT ![f] = i] /\ sent' = [sent EXCEPT ![f] = @ + 1]
      /\ sent[f] < Packets[f] /\ got' = got
  BY <1>1 DEF SendParts, ClientSend, receiver
<1>3. /\ owner \in [Flow -> Queues \cup {None}] /\ i # None
      /\ sent[f] \in Nat /\ Packets[f] \in Nat
  BY NicAssumption DEF IInv, Allocation, FlowsTypedNow, FlowsTyped
<1>4. Open' = Open \cup {f}
  <2>1. owner'[f] # None /\ \A h \in Flow : h # f => owner'[h] = owner[h]
    BY <1>2, <1>3
  <2>. QED BY <2>1 DEF Open
<1>5. f \in Open \/ sent[f] = 0
  BY <1>2, <1>3 DEF IInv, FlowsLive, Open
<1>. QED BY <1>2, <1>4, <1>5 DEF Delivery!Next, Delivery!Offer, Open

(* A packet is counted at the receiver only when it is the next one.        *)
LEMMA ReceiveDataRefines ==
  ASSUME IInv, NEW f \in Flow, ReceiveData(f)
  PROVE  [Delivery!Next]_(Delivery!dvars)
<1>1. sent' = sent /\ owner' = owner /\ Open' = Open
  BY DEF ReceiveData, flows, Open
<1>2. CASE got' = got
  BY <1>1, <1>2, StutterRefines DEF Stutters
<1>3. CASE got' # got
  <2>1. /\ got' = [got EXCEPT ![f] = Head(wire[f]) + 1] /\ Head(wire[f]) = got[f]
        /\ wire[f] # <<>>
    BY <1>3 DEF ReceiveData
  <2>2. wire[f] \in Seq(Nat) /\ \A j \in 1 .. Len(wire[f]) : wire[f][j] < sent[f]
    BY DEF IInv, FlowsTypedNow, FlowsTyped, PortSound, Sound
  <2>3. PICK q \in Seq(Nat) : q = wire[f] /\ q # <<>>
    BY <2>1, <2>2
  <2>4. Head(q) = q[1] /\ 1 \in 1 .. Len(q)
    BY <2>3, TailOf
  <2>5. got[f] < sent[f] /\ got' = [got EXCEPT ![f] = @ + 1]
    BY <2>1, <2>2, <2>3, <2>4
  <2>. QED BY <1>1, <2>5 DEF Delivery!Next, Delivery!Deliver, Open
<1>. QED BY <1>2, <1>3

(* The queue goes back with an ACK only the last packet can cause.          *)
LEMMA ReceiveAckRefines ==
  ASSUME IInv, NEW f \in Flow, ReceiveAck(f)
  PROVE  [Delivery!Next]_(Delivery!dvars)
<1>1. sent' = sent /\ got' = got
  BY DEF ReceiveAck, Answered, receiver
<1>2. CASE owner' = owner
  BY <1>1, <1>2, StutterRefines DEF Stutters
<1>3. CASE owner' # owner
  <2> DEFINE s == Head(answers[f]).seq
             i == owner[f]
  <2>1. owner[f] # None /\ Acknowledge(f, i, s)
    BY <1>3 DEF ReceiveAck, flows
  <2>2. s >= lastseq[i] /\ ended[i] /\ owner' = [owner EXCEPT ![f] = None]
    BY <1>3, <2>1 DEF Acknowledge, Release
  <2>3. /\ answers[f] # <<>> /\ Head(answers[f]).kind = "ack"
        /\ answers' = [answers EXCEPT ![f] = Tail(@)]
    BY DEF ReceiveAck, Answered
  <2>4. Head(answers[f]) \in Answer /\ GoodAnswer(f, Head(answers[f]))
    BY <1>1, <2>3, AnswerTaken
  <2>5. s \in Nat /\ (got[f] = Packets[f] \/ (s =< got[f] /\ s < Packets[f]))
    BY <2>3, <2>4 DEF Answer, GoodAnswer
  <2> HIDE DEF s
  <2>6. got[f] = Packets[f]
    BY <2>1, <2>2, <2>5, ReleasedIsReceived
  <2>7. owner \in [Flow -> Queues \cup {None}]
    BY DEF IInv, Allocation
  <2>8. f \in Open /\ Open' = Open \ {f}
    <3>1. owner'[f] = None /\ \A h \in Flow : h # f => owner'[h] = owner[h]
      BY <2>2, <2>7
    <3>. QED BY <2>1, <3>1 DEF Open
  <2>. QED BY <1>1, <2>6, <2>8 DEF Delivery!Next, Delivery!Close, Open
<1>. QED BY <1>2, <1>3

LEMMA NextRefines ==
  ASSUME IInv, [Next]_vars
  PROVE  [Delivery!Next]_(Delivery!dvars)
<1>1. ASSUME NEW f \in Flow, ClientSend(f) PROVE Delivery!Next
  BY <1>1, ClientSendRefines
<1>2. ASSUME NEW f \in Flow, ReceiveData(f) PROVE [Delivery!Next]_(Delivery!dvars)
  BY <1>2, ReceiveDataRefines
<1>3. ASSUME NEW f \in Flow, ReceiveAck(f) PROVE [Delivery!Next]_(Delivery!dvars)
  BY <1>3, ReceiveAckRefines
<1>4. ASSUME NEW f \in Flow, ReceiveNack(f) \/ LoseData(f) \/ LoseAnswer(f) PROVE Stutters
  BY <1>4 DEF ReceiveNack, Answered, Recover, LoseData, LoseAnswer, flows, receiver, Stutters
<1>5. CASE TransmitComplete \/ Poll \/ (\E bits \in PauseSets : ReceivePfc(bits)) \/ UNCHANGED vars
  <2>1. Stutters
    BY <1>5 DEF TransmitComplete, Poll, ReceivePfc, flows, receiver, vars, Stutters
  <2>. QED BY <2>1, StutterRefines
<1>. QED BY <1>1, <1>2, <1>3, <1>4, <1>5, StutterRefines DEF Next, Scheduled

(* queue_index_map keeps a flow from its first packet until its receiver    *)
(* has every packet of it, whatever is lost, repeated or paused on the way, *)
(* and no flow takes a queue twice.                                         *)
THEOREM DeliveryImplemented == Spec => DeliverySpec
<1>1. Init => Delivery!Init
  BY DEF Init, Delivery!Init
<1>2. IInv /\ [Next]_vars => [Delivery!Next]_(Delivery!dvars)
  BY NextRefines
<1>. QED BY <1>1, <1>2, Invariant, PTL DEF Spec, DeliverySpec, Delivery!Spec
=============================================================================
