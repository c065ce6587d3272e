-------------------------- MODULE PauseLink_proofs --------------------------
(***************************************************************************)
(* Proofs about PauseLink, for any switches, any links between them and any *)
(* number of packets.  The pause frames of a device travel through three    *)
(* places, its control queue, its wire and the link; the newest of them     *)
(* wherever it is, or the one the peer has taken, names only queues whose   *)
(* bit is set in the device's bloom filter.                                 *)
(***************************************************************************)
EXTENDS PauseLink, QbbSwitch_proofs

-----------------------------------------------------------------------------
(* The newest frame of a sequence *)

(* Position n of s holds its last pause frame. *)
LastFrame(s, n) ==
  /\ n \in 1 .. Len(s) /\ s[n] \in PfcFrame
  /\ \A j \in 1 .. Len(s) : s[j] \in PfcFrame => j <= n

NoFrame(s) == \A j \in 1 .. Len(s) : s[j] \notin PfcFrame

LEMMA NewestIsLast ==
  ASSUME NEW S, NEW s \in Seq(S), NEW n, LastFrame(s, n), NEW bits
  PROVE  Newest(s, bits) = s[n].pause
<1> DEFINE F == {j \in DOMAIN s : s[j] \in PfcFrame}
<1>1. DOMAIN s = 1 .. Len(s) /\ Len(s) \in Nat
  BY LenProperties
<1>2. n \in F /\ \A j \in F : n >= j
  BY <1>1 DEF LastFrame
<1>3. \A j \in F : j \in Nat
  BY <1>1
<1>4. Max(F) = n
  <2> HIDE DEF F
  <2>1. PICK m : m = Max(F)
    OBVIOUS
  <2>2. m \in F /\ \A j \in F : m >= j
    BY <1>2, <2>1 DEF Max
  <2>. QED BY <1>2, <1>3, <2>1, <2>2
<1>. QED BY <1>2, <1>4 DEF Newest

LEMMA NewestOfNone ==
  ASSUME NEW S, NEW s \in Seq(S), NoFrame(s), NEW bits
  PROVE  Newest(s, bits) = bits
<1>1. DOMAIN s = 1 .. Len(s)
  BY LenProperties
<1>. QED BY <1>1 DEF Newest, NoFrame

LEMMA LastOrNone ==
  ASSUME NEW S, NEW s \in Seq(S)
  PROVE  NoFrame(s) \/ \E n : LastFrame(s, n)
<1> DEFINE K == {k \in 1 .. Len(s) : s[Len(s) + 1 - k] \in PfcFrame}
<1>1. Len(s) \in Nat
  BY LenProperties
<1>2. CASE K = {}
  <2>1. ASSUME NEW j \in 1 .. Len(s), s[j] \in PfcFrame PROVE FALSE
    <3>1. Len(s) + 1 - j \in 1 .. Len(s) /\ Len(s) + 1 - (Len(s) + 1 - j) = j
      BY <1>1
    <3>2. Len(s) + 1 - j \in K
      BY <2>1, <3>1
    <3>. QED BY <1>2, <3>2
  <2>. QED BY <2>1 DEF NoFrame
<1>3. CASE K # {}
  <2>1. K \in SUBSET Nat
    BY <1>1
  <2>2. PICK k : k \in K /\ \A j \in K : k <= j
    BY <1>3, <2>1, MinProperty
  <2> DEFINE n == Len(s) + 1 - k
  <2>3. n \in 1 .. Len(s) /\ s[n] \in PfcFrame /\ k \in Nat
    BY <1>1, <2>2
  <2>4. ASSUME NEW j \in 1 .. Len(s), s[j] \in PfcFrame PROVE j <= n
    <3>1. Len(s) + 1 - j \in 1 .. Len(s) /\ Len(s) + 1 - (Len(s) + 1 - j) = j
      BY <1>1
    <3>2. Len(s) + 1 - j \in K
      BY <2>4, <3>1
    <3>3. k <= Len(s) + 1 - j
      BY <2>2, <3>2
    <3>. QED BY <1>1, <2>3, <3>3
  <2>5. LastFrame(s, n)
    BY <2>3, <2>4 DEF LastFrame
  <2>. QED BY <2>5
<1>. QED BY <1>2, <1>3

(* What comes later counts.                                                *)
LEMMA NewestConcat ==
  ASSUME NEW S, NEW s \in Seq(S), NEW t \in Seq(S), NEW bits
  PROVE  Newest(s \o t, bits) = Newest(t, Newest(s, bits))
<1>1. /\ s \o t \in Seq(S) /\ Len(s \o t) = Len(s) + Len(t)
      /\ Len(s) \in Nat /\ Len(t) \in Nat
  BY ConcatProperties, LenProperties
<1>2. \A i \in 1 .. Len(s) : (s \o t)[i] = s[i]
  BY <1>1, ConcatProperties
<1>3. \A i \in 1 .. Len(t) : (s \o t)[Len(s) + i] = t[i]
  <2> SUFFICES ASSUME NEW i \in 1 .. Len(t) PROVE (s \o t)[Len(s) + i] = t[i]
    OBVIOUS
  <2>1. Len(s) + i \in 1 .. Len(s) + Len(t) /\ ~ (Len(s) + i <= Len(s)) /\ Len(s) + i - Len(s) = i
    BY <1>1
  <2>2. (s \o t)[Len(s) + i] = t[Len(s) + i - Len(s)]
    BY <2>1, ConcatProperties
  <2>. QED BY <2>1, <2>2
<1>4. \A i \in 1 .. Len(s \o t) :
        i \in 1 .. Len(s) \/ \E k \in 1 .. Len(t) : i = Len(s) + k
  <2> SUFFICES ASSUME NEW i \in 1 .. Len(s \o t), i \notin 1 .. Len(s)
               PROVE  \E k \in 1 .. Len(t) : i = Len(s) + k
    OBVIOUS
  <2>1. i - Len(s) \in 1 .. Len(t) /\ i = Len(s) + (i - Len(s))
    BY <1>1
  <2>. QED BY <2>1
<1>5. ASSUME NEW n, LastFrame(t, n)
      PROVE  Newest(s \o t, bits) = Newest(t, Newest(s, bits))
  <2>1. n \in 1 .. Len(t) /\ t[n] \in PfcFrame
    BY <1>5 DEF LastFrame
  <2>2. LastFrame(s \o t, Len(s) + n)
    <3>1. Len(s) + n \in 1 .. Len(s \o t) /\ (s \o t)[Len(s) + n] = t[n]
      BY <1>1, <1>3, <2>1
    <3>2. ASSUME NEW j \in 1 .. Len(s \o t), (s \o t)[j] \in PfcFrame
          PROVE  j <= Len(s) + n
      <4>1. CASE j \in 1 .. Len(s)
        BY <1>1, <2>1, <4>1
      <4>2. ASSUME NEW k \in 1 .. Len(t), j = Len(s) + k PROVE j <= Len(s) + n
        <5>1. t[k] \in PfcFrame
          BY <1>3, <3>2, <4>2
        <5>. QED BY <1>1, <1>5, <2>1, <4>2, <5>1 DEF LastFrame
      <4>. QED BY <1>4, <4>1, <4>2
    <3>. QED BY <2>1, <3>1, <3>2 DEF LastFrame
  <2>3. Newest(s \o t, bits) = (s \o t)[Len(s) + n].pause
    BY <1>1, <2>2, NewestIsLast
  <2>4. Newest(t, Newest(s, bits)) = t[n].pause
    BY <1>5, NewestIsLast
  <2>. QED BY <1>3, <2>1, <2>3, <2>4
<1>6. ASSUME NoFrame(t), NEW n, LastFrame(s, n)
      PROVE  Newest(s \o t, bits) = Newest(t, Newest(s, bits))
  <2>1. n \in 1 .. Len(s) /\ s[n] \in PfcFrame
    BY <1>6 DEF LastFrame
  <2>2. LastFrame(s \o t, n)
    <3>1. n \in 1 .. Len(s \o t) /\ (s \o t)[n] = s[n]
      BY <1>1, <1>2, <2>1
    <3>2. ASSUME NEW j \in 1 .. Len(s \o t), (s \o t)[j] \in PfcFrame
          PROVE  j <= n
      <4>1. CASE j \in 1 .. Len(s)
        BY <1>2, <1>6, <3>2, <4>1 DEF LastFrame
      <4>2. ASSUME NEW k \in 1 .. Len(t), j = Len(s) + k PROVE FALSE
        BY <1>3, <1>6, <3>2, <4>2 DEF NoFrame
      <4>. QED BY <1>4, <4>1, <4>2
    <3>. QED BY <2>1, <3>1, <3>2 DEF LastFrame
  <2>3. Newest(s \o t, bits) = (s \o t)[n].pause
    BY <1>1, <2>2, NewestIsLast
  <2>4. Newest(s, bits) = s[n].pause /\ Newest(t, Newest(s, bits)) = Newest(s, bits)
    BY <1>6, NewestIsLast, NewestOfNone
  <2>. QED BY <1>2, <2>1, <2>3, <2>4
<1>7. ASSUME NoFrame(t), NoFrame(s)
      PROVE  Newest(s \o t, bits) = Newest(t, Newest(s, bits))
  <2>1. NoFrame(s \o t)
    BY <1>2, <1>3, <1>4, <1>7 DEF NoFrame
  <2>2. Newest(s \o t, bits) = bits /\ Newest(s, bits) = bits /\ Newest(t, bits) = bits
    BY <1>1, <1>7, <2>1, NewestOfNone
  <2>. QED BY <2>2
<1>. QED BY <1>5, <1>6, <1>7, LastOrNone

(* What a device goes by after item a, if it went by bits before. *)
After(a, bits) == IF a \in PfcFrame THEN a.pause ELSE bits

LEMMA NewestOfOne ==
  ASSUME NEW a, NEW bits
  PROVE  Newest(<<a>>, bits) = After(a, bits) /\ Newest(<<>>, bits) = bits
<1> DEFINE s == <<a>>
<1>1. s \in Seq({a}) /\ Len(s) = 1 /\ s[1] = a
  OBVIOUS
<1>2. <<>> \in Seq({a}) /\ Len(<<>>) = 0
  BY EmptySeq
<1>3. NoFrame(<<>>)
  BY <1>2 DEF NoFrame
<1>4. Newest(<<>>, bits) = bits
  BY <1>2, <1>3, NewestOfNone
<1> HIDE DEF s
<1>5. CASE a \in PfcFrame
  <2>1. LastFrame(s, 1)
    BY <1>1, <1>5 DEF LastFrame
  <2>2. Newest(s, bits) = s[1].pause
    BY <1>1, <2>1, NewestIsLast
  <2>. QED BY <1>1, <1>4, <1>5, <2>2 DEF After, s
<1>6. CASE a \notin PfcFrame
  <2>1. NoFrame(s)
    BY <1>1, <1>6 DEF NoFrame
  <2>2. Newest(s, bits) = bits
    BY <1>1, <2>1, NewestOfNone
  <2>. QED BY <1>4, <1>6, <2>2 DEF After, s
<1>. QED BY <1>5, <1>6

LEMMA NewestAppend ==
  ASSUME NEW S, NEW s \in Seq(S), NEW a \in S, NEW bits
  PROVE  Newest(Append(s, a), bits) = After(a, Newest(s, bits))
<1>1. PICK u : u = <<a>>
  OBVIOUS
<1>2. Append(s, a) = s \o u /\ u \in Seq(S)
  BY <1>1, AppendIsConcat
<1>3. Newest(s \o u, bits) = Newest(u, Newest(s, bits))
  BY <1>2, NewestConcat
<1>4. Newest(u, Newest(s, bits)) = After(a, Newest(s, bits))
  BY <1>1, NewestOfOne
<1>. QED BY <1>2, <1>3, <1>4

LEMMA NewestTail ==
  ASSUME NEW S, NEW s \in Seq(S), s # <<>>, NEW bits
  PROVE  Newest(s, bits) = Newest(Tail(s), After(Head(s), bits))
<1>1. Len(s) \in Nat \ {0} /\ Head(s) \in S /\ Tail(s) \in Seq(S)
  BY EmptySeq, HeadTailProperties
<1>2. PICK u : u = <<Head(s)>>
  OBVIOUS
<1>3. s = u \o Tail(s) /\ u \in Seq(S)
  <2>1. 1 \in 1 .. Len(s) /\ Len(s) \in 1 .. Len(s) /\ Head(s) = s[1]
    BY <1>1
  <2>2. SubSeq(s, 1, Len(s)) = <<s[1]>> \o SubSeq(s, 1 + 1, Len(s))
    BY <2>1, SubSeqRecursiveFirst
  <2>3. SubSeq(s, 1, Len(s)) = s /\ Tail(s) = SubSeq(s, 2, Len(s)) /\ 1 + 1 = 2
    BY SubSeqFull, TailIsSubSeq
  <2>. QED BY <1>1, <1>2, <2>1, <2>2, <2>3
<1>4. PICK v : v = Tail(s)
  OBVIOUS
<1>5. s = u \o v /\ v \in Seq(S)
  BY <1>1, <1>3, <1>4
<1>6. Newest(u \o v, bits) = Newest(v, Newest(u, bits))
  BY <1>3, <1>5, NewestConcat
<1>7. Newest(u, bits) = After(Head(s), bits)
  BY <1>2, NewestOfOne
<1>. QED BY <1>4, <1>5, <1>6, <1>7

-----------------------------------------------------------------------------
(* The newest frame of a device, and the steps of its switch *)

(* What the neighbour of d will go by after everything d has still to send, *)
(* if it goes by bits after what is on the link.                           *)
NewestAt(s, d, bits) == Newest(s.ctl[d], After(s.tx[d], bits))

LEMMA AfterIdle == \A bits : After(Idle, bits) = bits
BY IdleAssumption DEF After, Control

(* A control packet joins those of device d. *)
LEMMA NewestJoined ==
  ASSUME NEW s \in State, NEW d \in Dev, NEW f \in Control, NEW r, FrameJoined(s, r, d, f),
         NEW bits
  PROVE  NewestAt(r, d, bits) = After(f, NewestAt(s, d, bits))
<1>1. s.ctl[d] \in Seq(Control)
  BY StateFields
<1>2. PICK c : c = Append(s.ctl[d], f)
  OBVIOUS
<1>3. c \in Seq(Control) /\ c # <<>>
  BY <1>1, <1>2, AppendProperties
<1>4. \A b : Newest(c, b) = After(f, Newest(s.ctl[d], b))
  BY <1>1, <1>2, NewestAppend
<1>5. CASE s.tx[d] # Idle
  <2>1. r.ctl[d] = c /\ r.tx[d] = s.tx[d]
    BY <1>2, <1>5 DEF FrameJoined
  <2>. QED BY <1>4, <2>1 DEF NewestAt
<1>6. CASE s.tx[d] = Idle
  <2>1. r.ctl[d] = Tail(c) /\ r.tx[d] = Head(c)
    BY <1>2, <1>6 DEF FrameJoined
  <2>2. Newest(c, bits) = Newest(Tail(c), After(Head(c), bits))
    BY <1>3, NewestTail
  <2>3. After(s.tx[d], bits) = bits
    BY <1>6, AfterIdle
  <2>. QED BY <1>4, <2>1, <2>2, <2>3 DEF NewestAt
<1>. QED BY <1>5, <1>6

(* A step that leaves the newest frame of a device as it is and clears no   *)
(* bit of its filter, or adds a frame within the filter.                   *)
Stays(s, r, d) ==
  s.bloom[d] \subseteq r.bloom[d] /\ \A bits : NewestAt(r, d, bits) = NewestAt(s, d, bits)
Told(r, d) == \A bits : NewestAt(r, d, bits) \subseteq r.bloom[d]

Announces(s, r) ==
  r.received = s.received /\ \A d \in Dev : Stays(s, r, d) \/ Told(r, d)

LEMMA AnnouncesThen ==
  ASSUME NEW s, NEW m, NEW r, Announces(s, m), Announces(m, r)
  PROVE  Announces(s, r)
<1>1. r.received = s.received
  BY DEF Announces
<1>2. ASSUME NEW d \in Dev PROVE Stays(s, r, d) \/ Told(r, d)
  <2>1. CASE Told(r, d)
    BY <2>1
  <2>2. CASE Stays(m, r, d) /\ Stays(s, m, d)
    BY <2>2 DEF Stays
  <2>3. CASE Stays(m, r, d) /\ Told(m, d)
    <3>1. ASSUME NEW bits PROVE NewestAt(r, d, bits) \subseteq r.bloom[d]
      <4>1. NewestAt(r, d, bits) = NewestAt(m, d, bits) /\ m.bloom[d] \subseteq r.bloom[d]
        BY <2>3 DEF Stays
      <4>2. NewestAt(m, d, bits) \subseteq m.bloom[d]
        BY <2>3 DEF Told
      <4>. QED BY <4>1, <4>2
    <3>. QED BY <3>1 DEF Told
  <2>. QED BY <2>1, <2>2, <2>3 DEF Announces
<1>. QED BY <1>1, <1>2 DEF Announces

(* A frame that carries the filter of the device, as SendPauseFrame builds  *)
(* it, and a control packet of another kind.                               *)
LEMMA JoinedAnnounces ==
  ASSUME NEW s \in State, NEW d \in Dev, NEW f \in Control, NEW r, FrameJoined(s, r, d, f),
         f \in PfcFrame => f.pause = r.bloom[d], s.bloom[d] \subseteq r.bloom[d] \/ f \in PfcFrame
  PROVE  Stays(s, r, d) \/ Told(r, d)
<1>1. \A bits : NewestAt(r, d, bits) = After(f, NewestAt(s, d, bits))
  BY NewestJoined
<1>2. CASE f \in PfcFrame
  BY <1>1, <1>2 DEF After, Told
<1>3. CASE f \notin PfcFrame
  BY <1>1, <1>3 DEF After, Stays
<1>. QED BY <1>2, <1>3

LEMMA SendAnnounces ==
  ASSUME NEW s \in State, NEW D \in SUBSET Dev, NEW frame \in [D -> Control],
         \A d \in D : frame[d] \in PfcFrame => frame[d].pause = s.bloom[d],
         NEW r, r = SendControl(s, D, frame)
  PROVE  Announces(s, r)
<1>1. ControlOutcome(s, D, frame, r)
  <2>1. ControlSent(s, D, frame, r)
    BY DEF ControlSent
  <2>. QED BY <2>1, SendControlStep
<1>2. r.received = s.received /\ r.bloom = s.bloom
  BY <1>1 DEF ControlOutcome, SameTables
<1>3. ASSUME NEW d \in Dev PROVE Stays(s, r, d) \/ Told(r, d)
  <2>1. CASE d \in D
    <3>1. frame[d] \in Control /\ (frame[d] \in PfcFrame => frame[d].pause = r.bloom[d])
      BY <1>2, <2>1
    <3>2. FrameJoined(s, r, d, frame[d]) /\ s.bloom[d] \subseteq r.bloom[d]
      BY <1>1, <1>2, <2>1 DEF ControlOutcome
    <3>. QED BY <3>1, <3>2, JoinedAnnounces
  <2>2. CASE d \notin D
    BY <1>1, <1>2, <2>2 DEF ControlOutcome, NewestAt, Stays
  <2>. QED BY <2>1, <2>2
<1>. QED BY <1>2, <1>3 DEF Announces

LEMMA ResumeAnnounces ==
  ASSUME NEW s \in State, NEW d, NEW ix, NEW r, Resumed(s, r, d, ix)
  PROVE  Announces(s, r)
<1>1. r.received = s.received
  BY DEF Resumed
<1>2. ASSUME NEW e \in Dev PROVE Stays(s, r, e) \/ Told(r, e)
  <2>1. PICK f : f = [pause |-> r.bloom[e]]
    OBVIOUS
  <2>2. \/ r.ctl[e] = s.ctl[e] /\ r.tx[e] = s.tx[e] /\ r.bloom[e] = s.bloom[e]
        \/ FrameJoined(s, r, e, f) /\ f \in PfcFrame
    BY <2>1 DEF Resumed, FramesFollow
  <2>3. CASE r.ctl[e] = s.ctl[e] /\ r.tx[e] = s.tx[e] /\ r.bloom[e] = s.bloom[e]
    BY <2>3 DEF NewestAt, Stays
  <2>4. CASE FrameJoined(s, r, e, f) /\ f \in PfcFrame
    <3>1. f \in Control /\ f.pause = r.bloom[e]
      BY <2>1, <2>4 DEF Control
    <3>. QED BY <2>4, <3>1, JoinedAnnounces
  <2>. QED BY <2>2, <2>3, <2>4
<1>. QED BY <1>1, <1>2 DEF Announces

(* DequeueAndTransmit: the oldest control packet moves to the wire, or a    *)
(* data packet does and the resume it causes joins the control packets.    *)
LEMMA TransmitAnnounces ==
  ASSUME NEW s, SInv(s), NEW o \in Dev, NEW r, r = DequeueAndTransmit(s, o)
  PROVE  Announces(s, r)
<1>1. s \in State
  BY DEF SInv
<1>2. CASE s.tx[o] = Idle /\ s.ctl[o] # <<>>
  <2>1. r = [s EXCEPT !.ctl[o] = Tail(s.ctl[o]), !.tx[o] = Head(s.ctl[o])]
    BY <1>2 DEF DequeueAndTransmit, TransmitControl
  <2>2. r.ctl = [s.ctl EXCEPT ![o] = Tail(s.ctl[o])] /\ r.tx = [s.tx EXCEPT ![o] = Head(s.ctl[o])]
        /\ r.received = s.received /\ r.bloom = s.bloom
    BY <1>1, <2>1 DEF State
  <2>3. \A d \in Dev : /\ r.ctl[d] = IF d = o THEN Tail(s.ctl[o]) ELSE s.ctl[d]
                       /\ r.tx[d] = IF d = o THEN Head(s.ctl[o]) ELSE s.tx[d]
    BY <1>1, <2>2, StateFields
  <2>4. ASSUME NEW bits PROVE NewestAt(r, o, bits) = NewestAt(s, o, bits)
    <3>1. s.ctl[o] \in Seq(Control) /\ After(s.tx[o], bits) = bits
      BY <1>1, <1>2, StateFields, AfterIdle
    <3>2. Newest(s.ctl[o], bits) = Newest(Tail(s.ctl[o]), After(Head(s.ctl[o]), bits))
      BY <1>2, <3>1, NewestTail
    <3>. QED BY <2>3, <3>1, <3>2 DEF NewestAt
  <2>5. \A d \in Dev : d # o => \A bits : NewestAt(r, d, bits) = NewestAt(s, d, bits)
    BY <2>3 DEF NewestAt
  <2>. QED BY <2>2, <2>4, <2>5 DEF Announces, Stays
<1>3. CASE s.tx[o] = Idle /\ s.ctl[o] = <<>> /\ CanSendData(s, o)
  <2>1. r = TransmitData(s, o)
    BY <1>3 DEF DequeueAndTransmit
  <2>2. PICK q : q = NextQueue(s, o)
    OBVIOUS
  <2>3. q \in DataQ /\ s.queue[o][q] # <<>> /\ s.heads[o][q] # <<>>
    BY <1>3, <2>2, NextQueueHolds
  <2>4. PICK p : p = Head(s.queue[o][q])
    OBVIOUS
  <2>5. PICK m : m = DequeueData(s, o, q)
    OBVIOUS
  <2>6. Dequeued(s, m, o, q, p)
    BY <1>1, <2>3, <2>4, <2>5, DequeueDataFields
  <2>7. UpdatePausedPhysicalQ(m, o, q) = m
    <3>1. q \notin s.paused[o] /\ Index(q) \notin s.received[o]
      BY <1>3, <2>2, NextQueueHolds
    <3>. QED BY <2>3, <2>6, <3>1, RefreshChangesNothing DEF Dequeued
  <2>8. r = IF Head(s.heads[o][q]) THEN UpdateResumeQueue(m, p.in, Index(p.prev)) ELSE m
    BY <2>1, <2>2, <2>4, <2>5, <2>7, Zenon DEF TransmitData
  <2>9. [flow |-> p.flow, q |-> q] \in Data
    BY <2>3, <2>6 DEF Data, Packet, Dequeued
  <2>10. Announces(s, m)
    <3>1. /\ m.ctl = s.ctl /\ m.received = s.received /\ m.bloom = s.bloom
          /\ m.tx = [s.tx EXCEPT ![o] = [flow |-> p.flow, q |-> q]]
      BY <2>6 DEF Dequeued
    <3>2. m.tx[o] \in Data /\ \A d \in Dev \ {o} : m.tx[d] = s.tx[d]
      BY <1>1, <2>9, <3>1, StateFields
    <3>3. \A bits : After(m.tx[o], bits) = bits /\ After(s.tx[o], bits) = bits
      <4>1. m.tx[o] \notin PfcFrame
        BY <3>2, DifferentFrames DEF Control
      <4>. QED BY <1>3, <4>1, AfterIdle DEF After
    <3>4. \A d \in Dev : \A bits : NewestAt(m, d, bits) = NewestAt(s, d, bits)
      BY <3>1, <3>2, <3>3 DEF NewestAt
    <3>. QED BY <3>1, <3>4 DEF Announces, Stays
  <2>11. CASE Head(s.heads[o][q])
    <3>1. PICK d, ix : d = p.in /\ ix = Index(p.prev)
      OBVIOUS
    <3>2. d \in Dev /\ ix \in Bloom
      <4>1. p.in \in Dev /\ p.prev \in Nat
        BY <2>6, SwitchAssumption DEF Packet, Dequeued
      <4>. QED BY <3>1, <4>1, IndexInBloom
    <3>3. m \in State /\ r = UpdateResumeQueue(m, d, ix)
      BY <2>6, <2>8, <2>11, <3>1 DEF Dequeued
    <3>4. Resumed(m, r, d, ix)
      BY <3>2, <3>3, ResumeStep
    <3>5. Announces(m, r)
      BY <3>3, <3>4, ResumeAnnounces
    <3>. QED BY <2>10, <3>5, AnnouncesThen
  <2>12. CASE ~ Head(s.heads[o][q])
    BY <2>8, <2>10, <2>12
  <2>. QED BY <2>11, <2>12
<1>4. CASE ~ (s.tx[o] = Idle /\ s.ctl[o] # <<>>)
           /\ ~ (s.tx[o] = Idle /\ s.ctl[o] = <<>> /\ CanSendData(s, o))
  <2>1. r = s
    BY <1>4 DEF DequeueAndTransmit
  <2>. QED BY <2>1 DEF Announces, Stays
<1>. QED BY <1>2, <1>3, <1>4

(* Become gives Now' the fields of r. *)
LEMMA AnnouncesNext ==
  ASSUME NEW s, NEW r, Announces(s, r), Become(r)
  PROVE  Announces(s, Now')
<1>1. /\ (Now').ctl = r.ctl /\ (Now').tx = r.tx /\ (Now').bloom = r.bloom
      /\ (Now').received = r.received
  BY DEF Become, Now
<1>2. PICK n : n = Now'
  OBVIOUS
<1>3. n.ctl = r.ctl /\ n.tx = r.tx /\ n.bloom = r.bloom /\ n.received = r.received
  BY <1>1, <1>2
<1>4. Announces(s, n)
  BY <1>3 DEF Announces, Stays, Told, NewestAt
<1>. QED BY <1>2, <1>4

LEMMA ReceiveDataAnnounces ==
  ASSUME IInv, NEW p \in Packet, ReceiveData(p)
  PROVE  Announces(Now, Now')
<1>1. PICK s : s = Now
  OBVIOUS
<1>2. PICK o : o = Route[p.flow][p.in]
  OBVIOUS
<1>3. o \in Dev /\ Vfid[p.flow] \in Vfids
  BY <1>2, SwitchAssumption DEF Packet, Vfids
<1>4. PICK q \in Placements(s, Vfid[p.flow], o) :
        Len(s.queue[o][q]) < MaxQueue /\ Become(SendData(s, p, o, q))
  <2>1. s.queue = queue
    BY <1>1 DEF Now
  <2>2. PICK q \in Placements(Now, Vfid[p.flow], o) :
          Len(queue[o][q]) < MaxQueue /\ Become(SendData(Now, p, o, q))
    BY <1>2, Zenon DEF ReceiveData
  <2>. QED BY <1>1, <2>1, <2>2
<1>5. PICK m : m = AdmitData(s, p, o, q)
  OBVIOUS
<1>6. PICK r : r = DequeueAndTransmit(m, o)
  OBVIOUS
<1>7. SInv(s) /\ s \in State
  BY <1>1 DEF IInv, SInv
<1>8. q \in DataQ /\ (s.size[Vfid[p.flow]][o] > 0 => q = s.phys[Vfid[p.flow]][o])
  BY <1>3, <1>4, <1>7, PlacementKept
<1>9. Admitted(s, m, o)
  BY <1>3, <1>4, <1>5, <1>7, <1>8, AdmitDataStep
<1>10. Announces(s, m)
  BY <1>9 DEF Admitted, Announces, Stays, NewestAt
<1>11. Announces(m, r)
  BY <1>3, <1>6, <1>9, TransmitAnnounces DEF Admitted
<1>12. Announces(s, r)
  BY <1>10, <1>11, AnnouncesThen
<1>13. Become(r)
  BY <1>4, <1>5, <1>6 DEF SendData
<1>. QED BY <1>1, <1>12, <1>13, AnnouncesNext

(* After a pause frame has been taken, nothing stale is announced. *)
LEMMA ReceivePfcAnnounces ==
  ASSUME IInv, NEW d \in Dev, NEW bits \in SUBSET Bloom, ReceivePfc(d, bits)
  PROVE  \E m : PfcOutcome(Now, m, d, bits) /\ Announces(m, Now')
<1>1. PICK s : s = Now
  OBVIOUS
<1>2. PICK m : PfcTaken(s, m, d, bits)
  BY DEF PfcTaken
<1>3. PICK r : r = DequeueAndTransmit(m, d)
  OBVIOUS
<1>4. PfcOutcome(s, m, d, bits)
  BY <1>1, <1>2, PfcTakenStep DEF IInv
<1>5. Announces(m, r)
  BY <1>3, <1>4, TransmitAnnounces DEF PfcOutcome
<1>6. Become(r)
  BY <1>1, <1>2, <1>3 DEF ReceivePfc, PfcTaken
<1>. QED BY <1>1, <1>4, <1>5, <1>6, AnnouncesNext

LEMMA TransmitCompleteAnnounces ==
  ASSUME IInv, NEW o \in Dev, TransmitComplete(o)
  PROVE  \E m : WireFreed(Now, m, o) /\ Announces(m, Now')
<1>1. PICK s : s = Now
  OBVIOUS
<1>2. PICK m : WireFreed(s, m, o)
  BY DEF WireFreed
<1>3. PICK r : r = DequeueAndTransmit(m, o)
  OBVIOUS
<1>4. SInv(m)
  BY <1>1, <1>2, WireFreedStep DEF IInv
<1>5. Announces(m, r)
  BY <1>3, <1>4, TransmitAnnounces
<1>6. Become(r)
  BY <1>1, <1>2, <1>3 DEF TransmitComplete, WireFreed
<1>. QED BY <1>1, <1>2, <1>5, <1>6, AnnouncesNext

LEMMA PollAnnounces ==
  ASSUME IInv, NEW o \in Dev, Poll(o)
  PROVE  Announces(Now, Now')
<1>1. PICK s : s = Now
  OBVIOUS
<1>2. PICK r : r = DequeueAndTransmit(s, o)
  OBVIOUS
<1>3. Announces(s, r)
  BY <1>1, <1>2, TransmitAnnounces DEF IInv
<1>4. Become(r)
  BY <1>1, <1>2 DEF Poll
<1>. QED BY <1>1, <1>3, <1>4, AnnouncesNext

LEMMA SnapshotAnnounces ==
  ASSUME IInv, NEW n, CheckAndSendPause(n)
  PROVE  Announces(Now, Now')
<1> DEFINE D == {d \in Dev : Node[d] = n}
<1>1. PICK s : s = Now
  OBVIOUS
<1>2. PICK frame : frame = [d \in D |-> [pause |-> s.bloom[d]]]
  OBVIOUS
<1>3. PICK r : r = SendControl(s, D, frame)
  OBVIOUS
<1>4. s \in State
  BY <1>1 DEF IInv, SInv
<1>5. /\ D \in SUBSET Dev /\ frame \in [D -> Control]
      /\ \A d \in D : frame[d] \in PfcFrame => frame[d].pause = s.bloom[d]
  <2>1. \A d \in Dev : [pause |-> s.bloom[d]] \in Control
    BY <1>4, StateFields DEF Control, PfcFrame
  <2>. QED BY <1>2, <2>1
<1>6. Become(r)
  BY <1>1, <1>2, <1>3 DEF CheckAndSendPause, SendPauseFrames
<1> HIDE DEF D
<1>7. Announces(s, r)
  BY <1>3, <1>4, <1>5, SendAnnounces
<1>. QED BY <1>1, <1>6, <1>7, AnnouncesNext

-----------------------------------------------------------------------------
(* The invariant of the linked switches *)

(* What l holds, then what the device has still to send, ends within its    *)
(* filter; or it is no frame at all, and the peer has taken none.          *)
Within(s, l, d) == NewestAt(s, d, Newest(l[d], s.received[Peer[d]])) \subseteq s.bloom[d]
Silent(s, l, d) ==
  /\ s.received[Peer[d]] = Received0[Peer[d]]
  /\ \A bits : NewestAt(s, d, Newest(l[d], bits)) = bits

Fresh(s, l) == \A d \in Joined : Within(s, l, d) \/ Silent(s, l, d)

LinkType == link \in [Joined -> Seq(Control \cup Data)]

LInv ==
  /\ IInv /\ LinkType
  /\ left \in Seq(Offered) /\ lost \in 0 .. MaxLoss
  /\ lost = 0 => Fresh(Now, link)

LEMMA Peers == \A d \in Joined : d \in Dev /\ Peer[d] \in Joined /\ Peer[d] \in Dev
BY LinkAssumption

LEMMA PeerInjective ==
  ASSUME NEW d \in Joined, NEW e \in Joined, Peer[d] = Peer[e]
  PROVE  d = e
BY LinkAssumption

LEMMA AnnouncesFresh ==
  ASSUME NEW s, NEW r, NEW l, Announces(s, r), Fresh(s, l)
  PROVE  Fresh(r, l)
<1> SUFFICES ASSUME NEW d \in Joined PROVE Within(r, l, d) \/ Silent(r, l, d)
  BY DEF Fresh
<1>1. r.received = s.received /\ (Stays(s, r, d) \/ Told(r, d))
  BY Peers DEF Announces
<1>2. CASE Told(r, d)
  BY <1>2 DEF Told, Within
<1>3. CASE Stays(s, r, d)
  <2>1. s.bloom[d] \subseteq r.bloom[d] /\ \A bits : NewestAt(r, d, bits) = NewestAt(s, d, bits)
    BY <1>3 DEF Stays
  <2>2. CASE Within(s, l, d)
    BY <1>1, <2>1, <2>2 DEF Within
  <2>3. CASE Silent(s, l, d)
    BY <1>1, <2>1, <2>3 DEF Silent
  <2>. QED BY <2>2, <2>3 DEF Fresh
<1>. QED BY <1>1, <1>2, <1>3

(* The order of OnTheWay: the link, the wire, the control queue.           *)
LEMMA OnTheWayIs ==
  ASSUME IInv, LinkType, NEW d \in Joined
  PROVE  /\ OnTheWay(d) \in Seq(Control \cup Data)
         /\ \A bits : Newest(OnTheWay(d), bits) = NewestAt(Now, d, Newest(link[d], bits))
<1> DEFINE S == Control \cup Data
<1>1. PICK s : s = Now
  OBVIOUS
<1>2. s \in State /\ s.ctl = ctl /\ s.tx = tx /\ d \in Dev
  BY <1>1, Peers DEF IInv, SInv, Now
<1>3. PICK a : a = tx[d]
  OBVIOUS
<1>4. PICK w : w = IF a = Idle THEN <<>> ELSE <<a>>
  OBVIOUS
<1>5. PICK l : l = link[d]
  OBVIOUS
<1>6. PICK c : c = ctl[d]
  OBVIOUS
<1>7. l \in Seq(S) /\ c \in Seq(S) /\ w \in Seq(S)
  <2>1. l \in Seq(S)
    BY <1>5 DEF LinkType
  <2>2. c \in Seq(Control)
    BY <1>2, <1>6, StateFields
  <2>3. c \in Seq(S)
    BY <2>2
  <2>4. a \in S \/ a = Idle
    BY <1>2, <1>3, StateFields
  <2>5. w \in Seq(S)
    <3> HIDE DEF S
    <3>. QED BY <1>4, <2>4
  <2>. QED BY <2>1, <2>3, <2>5
<1>8. OnTheWay(d) = (l \o w) \o c
  BY <1>3, <1>4, <1>5, <1>6 DEF OnTheWay
<1> HIDE DEF S
<1>9. PICK v : v = l \o w
  OBVIOUS
<1>10. v \in Seq(S) /\ v \o c \in Seq(S) /\ OnTheWay(d) = v \o c
  BY <1>7, <1>8, <1>9, ConcatProperties
<1>11. ASSUME NEW bits
       PROVE  Newest(OnTheWay(d), bits) = NewestAt(Now, d, Newest(link[d], bits))
  <2>1. Newest(v \o c, bits) = Newest(c, Newest(v, bits))
    BY <1>7, <1>10, NewestConcat
  <2>2. Newest(v, bits) = Newest(w, Newest(l, bits))
    BY <1>7, <1>9, NewestConcat
  <2>3. Newest(w, Newest(l, bits)) = After(a, Newest(l, bits))
    BY <1>4, NewestOfOne, AfterIdle
  <2>4. NewestAt(s, d, Newest(link[d], bits)) = Newest(c, After(a, Newest(l, bits)))
    BY <1>2, <1>3, <1>5, <1>6 DEF NewestAt
  <2>. QED BY <1>1, <1>10, <2>1, <2>2, <2>3, <2>4
<1>. QED BY <1>10, <1>11 DEF S

(* What lets every filter through holds no frame. *)
LEMMA NothingNewest ==
  ASSUME NEW S, NEW w \in Seq(S), \A bits : Newest(w, bits) = bits
  PROVE  \A j \in DOMAIN w : w[j] \notin PfcFrame
<1>1. ASSUME NEW n, LastFrame(w, n) PROVE FALSE
  <2>1. \A bits : Newest(w, bits) = w[n].pause
    BY <1>1, NewestIsLast
  <2>2. Newest(w, 1) = Newest(w, 2)
    BY <2>1
  <2>. QED BY <2>2
<1>2. NoFrame(w)
  BY <1>1, LastOrNone
<1>. QED BY <1>2, LenProperties DEF NoFrame

(* Fresh is NoStalePause of a state.                                       *)
LEMMA FreshIs ==
  ASSUME IInv, LinkType, Fresh(Now, link), NEW d \in Joined
  PROVE  NewestFrame(d) \subseteq bloom[d] \/ Untouched(d)
<1>1. (Now).received = received /\ (Now).bloom = bloom
  BY DEF Now
<1>2. /\ OnTheWay(d) \in Seq(Control \cup Data)
      /\ \A bits : Newest(OnTheWay(d), bits) = NewestAt(Now, d, Newest(link[d], bits))
  BY OnTheWayIs
<1>3. CASE Within(Now, link, d)
  BY <1>1, <1>2, <1>3 DEF Within, NewestFrame
<1>4. CASE Silent(Now, link, d)
  <2>1. received[Peer[d]] = Received0[Peer[d]] /\ \A bits : Newest(OnTheWay(d), bits) = bits
    BY <1>1, <1>2, <1>4 DEF Silent
  <2>. QED BY <1>2, <2>1, NothingNewest DEF Untouched
<1>. QED BY <1>3, <1>4 DEF Fresh

-----------------------------------------------------------------------------
(* The actions of the linked switches *)

LEMMA HostSendKeeps ==
  ASSUME LInv, HostSend
  PROVE  LInv'
<1>1. Head(left) \in Offered /\ Tail(left) \in Seq(Offered)
  BY HeadTailProperties DEF LInv, HostSend
<1>2. IInv /\ Head(left) \in Packet /\ ReceiveData(Head(left))
  BY <1>1, EnvironmentAssumption DEF LInv, HostSend
<1>3. Good(Now, Now') /\ Announces(Now, Now')
  BY <1>2, ReceiveDataGood, ReceiveDataAnnounces
<1>4. left' = Tail(left) /\ link' = link /\ lost' = lost
  BY DEF HostSend
<1>5. lost' = 0 => Fresh(Now', link')
  BY <1>3, <1>4, AnnouncesFresh DEF LInv
<1>6. IInv'
  BY <1>3 DEF Good, IInv
<1>. QED BY <1>1, <1>4, <1>5, <1>6 DEF LInv, LinkType

(* Poll and the snapshots touch neither the links nor the hosts. *)
LEMMA LocalKeeps ==
  ASSUME LInv, Good(Now, Now'), Announces(Now, Now'), UNCHANGED <<link, left, lost>>
  PROVE  LInv'
<1>1. lost' = 0 => Fresh(Now', link')
  BY AnnouncesFresh DEF LInv
<1>2. IInv'
  BY DEF Good, IInv
<1>. QED BY <1>1, <1>2 DEF LInv, LinkType

(* The item on the wire goes to the end of the link.                       *)
LEMMA LTransmitCompleteKeeps ==
  ASSUME LInv, NEW o \in Dev, LTransmitComplete(o)
  PROVE  LInv'
<1>1. PICK s : s = Now
  OBVIOUS
<1>2. IInv /\ TransmitComplete(o) /\ left' = left /\ lost' = lost
  BY DEF LInv, LTransmitComplete
<1>3. Good(s, Now')
  BY <1>1, <1>2, TransmitCompleteGood
<1>4. PICK m : WireFreed(s, m, o) /\ Announces(m, Now')
  BY <1>1, <1>2, TransmitCompleteAnnounces
<1>5. SInv(s) /\ s \in State
  BY <1>1 DEF LInv, IInv, SInv
<1>6. /\ SameTables(s, m) /\ m.ctl = s.ctl
      /\ \A d \in Dev : m.tx[d] = IF d = o THEN Idle ELSE s.tx[d]
  BY <1>4, <1>5, WireFreedStep
<1>7. s.tx[o] \in Control \cup Data
  <2>1. s.tx[o] # Idle
    BY <1>1, <1>2 DEF TransmitComplete, Now
  <2>. QED BY <1>5, <2>1, StateFields
<1>8. link' = IF o \in Joined THEN [link EXCEPT ![o] = Append(@, s.tx[o])] ELSE link
  BY <1>1 DEF LTransmitComplete, Now
<1>9. \A d \in Joined : link[d] \in Seq(Control \cup Data)
  BY DEF LInv, LinkType
<1>10. /\ LinkType'
       /\ \A d \in Joined : link'[d] = IF d = o THEN Append(link[o], s.tx[o]) ELSE link[d]
  <2>1. CASE o \in Joined
    <3>1. Append(link[o], s.tx[o]) \in Seq(Control \cup Data)
      <4> DEFINE S == Control \cup Data
      <4>1. link[o] \in Seq(S) /\ s.tx[o] \in S
        BY <1>7, <1>9, <2>1
      <4> HIDE DEF S
      <4>2. Append(link[o], s.tx[o]) \in Seq(S)
        BY <4>1, AppendProperties
      <4>. QED BY <4>2 DEF S
    <3>. QED BY <1>8, <2>1, <3>1 DEF LInv, LinkType
  <2>2. CASE o \notin Joined
    BY <1>8, <2>2 DEF LInv, LinkType
  <2>. QED BY <2>1, <2>2
<1>11. ASSUME NEW d \in Joined
       PROVE  \A bits : NewestAt(m, d, Newest(link'[d], bits)) = NewestAt(s, d, Newest(link[d], bits))
  <2> SUFFICES ASSUME NEW bits
               PROVE  NewestAt(m, d, Newest(link'[d], bits)) = NewestAt(s, d, Newest(link[d], bits))
    OBVIOUS
  <2>1. d \in Dev
    BY Peers
  <2>2. CASE d = o
    <3> DEFINE S == Control \cup Data
    <3>1. link[d] \in Seq(S) /\ s.tx[d] \in S
      BY <1>7, <1>9, <2>2
    <3> HIDE DEF S
    <3>2. Newest(Append(link[d], s.tx[d]), bits) = After(s.tx[d], Newest(link[d], bits))
      BY <3>1, NewestAppend
    <3>3. link'[d] = Append(link[d], s.tx[d]) /\ m.tx[d] = Idle
      BY <1>6, <1>10, <2>1, <2>2
    <3>. QED BY <1>6, <3>2, <3>3, AfterIdle DEF NewestAt
  <2>3. CASE d # o
    BY <1>6, <1>10, <2>1, <2>3 DEF NewestAt
  <2>. QED BY <2>2, <2>3
<1>12. lost' = 0 => Fresh(Now', link')
  <2> SUFFICES ASSUME lost' = 0 PROVE Fresh(Now', link')
    OBVIOUS
  <2>1. Fresh(s, link)
    BY <1>1, <1>2 DEF LInv
  <2>2. Fresh(m, link')
    <3> SUFFICES ASSUME NEW d \in Joined PROVE Within(m, link', d) \/ Silent(m, link', d)
      BY DEF Fresh
    <3>1. /\ m.received = s.received /\ m.bloom = s.bloom
          /\ \A bits : NewestAt(m, d, Newest(link'[d], bits)) = NewestAt(s, d, Newest(link[d], bits))
      BY <1>6, <1>11 DEF SameTables
    <3>2. CASE Within(s, link, d)
      BY <3>1, <3>2 DEF Within
    <3>3. CASE Silent(s, link, d)
      BY <3>1, <3>3 DEF Silent
    <3>. QED BY <2>1, <3>2, <3>3 DEF Fresh
  <2>. QED BY <1>4, <2>2, AnnouncesFresh
<1>13. IInv'
  BY <1>3 DEF Good, IInv
<1>. QED BY <1>2, <1>10, <1>12, <1>13 DEF LInv

(* The oldest item of a link is taken: a frame becomes what the peer goes   *)
(* by, a data packet changes nothing of that.                              *)
LEMMA TakenLink ==
  ASSUME LInv, NEW d \in Joined, Taken(d)
  PROVE  /\ LinkType' /\ Head(link[d]) \in Control \cup Data
         /\ \A e \in Joined : link'[e] = IF e = d THEN Tail(link[d]) ELSE link[e]
         /\ \A bits : Newest(link[d], bits) = Newest(link'[d], After(Head(link[d]), bits))
<1> DEFINE S == Control \cup Data
<1>1. PICK l : l = link[d]
  OBVIOUS
<1>2. link \in [Joined -> Seq(S)] /\ l \in Seq(S) /\ l # <<>>
  BY <1>1 DEF LInv, LinkType, Taken
<1> HIDE DEF S
<1>3. Head(l) \in S /\ Tail(l) \in Seq(S)
  BY <1>2, HeadTailProperties
<1>4. \A bits : Newest(l, bits) = Newest(Tail(l), After(Head(l), bits))
  BY <1>2, NewestTail
<1>5. link' = [link EXCEPT ![d] = Tail(l)]
  BY <1>1 DEF Taken
<1>6. link' \in [Joined -> Seq(S)] /\ \A e \in Joined : link'[e] = IF e = d THEN Tail(l) ELSE link[e]
  BY <1>2, <1>3, <1>5
<1>. QED BY <1>1, <1>3, <1>4, <1>6 DEF S, LinkType

LEMMA DeliverKeeps ==
  ASSUME LInv, NEW d \in Joined, Deliver(d)
  PROVE  LInv'
<1>1. PICK s : s = Now
  OBVIOUS
<1>2. PICK a : a = Head(link[d])
  OBVIOUS
<1>3. PICK e : e = Peer[d]
  OBVIOUS
<1>4. IInv /\ Taken(d) /\ Receive(d, a) /\ left' = left /\ lost' = lost
  BY <1>2 DEF LInv, Deliver
<1>5. e \in Dev /\ d \in Dev
  BY <1>3, Peers
<1>6. /\ LinkType'
      /\ \A f \in Joined : link'[f] = IF f = d THEN Tail(link[d]) ELSE link[f]
      /\ \A bits : Newest(link[d], bits) = Newest(link'[d], After(a, bits))
  BY <1>2, <1>4, TakenLink
<1>7. ASSUME lost' = 0 PROVE Fresh(s, link)
  BY <1>1, <1>4, <1>7 DEF LInv
<1>8. CASE a \in PfcFrame /\ ReceivePfc(e, a.pause)
  <2>1. PICK bits : bits = a.pause
    OBVIOUS
  <2>2. bits \in SUBSET Bloom /\ ReceivePfc(e, bits)
    BY <1>8, <2>1 DEF PfcFrame
  <2>3. Good(s, Now')
    BY <1>1, <1>4, <1>5, <2>2, ReceivePfcGood
  <2>4. PICK m : PfcOutcome(s, m, e, bits) /\ Announces(m, Now')
    BY <1>1, <1>4, <1>5, <2>2, ReceivePfcAnnounces
  <2>5. /\ m.ctl = s.ctl /\ m.tx = s.tx /\ m.bloom = s.bloom
        /\ \A o \in Dev : m.received[o] = IF o = e THEN bits ELSE s.received[o]
    BY <2>4 DEF PfcOutcome, SameLoads
  <2>6. ASSUME NEW f \in Joined
        PROVE  Newest(link'[f], m.received[Peer[f]]) = Newest(link[f], s.received[Peer[f]])
    <3>1. CASE f = d
      <4>1. m.received[Peer[d]] = bits
        BY <1>3, <1>5, <2>5
      <4>2. After(a, s.received[Peer[d]]) = bits
        BY <1>8, <2>1 DEF After
      <4>3. Newest(link[d], s.received[Peer[d]]) = Newest(link'[d], bits)
        BY <1>6, <4>2
      <4>. QED BY <3>1, <4>1, <4>3
    <3>2. CASE f # d
      <4>1. Peer[f] # e /\ Peer[f] \in Dev
        BY <1>3, <3>2, Peers, PeerInjective
      <4>2. m.received[Peer[f]] = s.received[Peer[f]]
        BY <2>5, <4>1
      <4>. QED BY <1>6, <3>2, <4>2
    <3>. QED BY <3>1, <3>2
  <2>7. ASSUME lost' = 0 PROVE Fresh(Now', link')
    <3>1. Fresh(m, link')
      <4> SUFFICES ASSUME NEW f \in Joined PROVE Within(m, link', f) \/ Silent(m, link', f)
        BY DEF Fresh
      <4>1. \A b : NewestAt(m, f, b) = NewestAt(s, f, b)
        BY <2>5 DEF NewestAt
      <4>2. CASE Within(s, link, f)
        BY <2>5, <2>6, <4>1, <4>2 DEF Within
      <4>3. CASE Silent(s, link, f) /\ f # d
        <5>1. m.received[Peer[f]] = s.received[Peer[f]]
          <6>1. Peer[f] # e /\ Peer[f] \in Dev
            BY <1>3, <4>3, Peers, PeerInjective
          <6>. QED BY <2>5, <6>1
        <5>2. link'[f] = link[f]
          BY <1>6, <4>3
        <5>. QED BY <4>1, <4>3, <5>1, <5>2 DEF Silent
      <4>4. CASE Silent(s, link, f) /\ f = d
        <5>1. \A b : NewestAt(s, d, Newest(link[d], b)) = b
          BY <4>4 DEF Silent
        <5>2. \A b : Newest(link[d], b) = Newest(link'[d], bits)
          BY <1>6, <1>8, <2>1 DEF After
        <5>3. PICK x : x = NewestAt(s, d, Newest(link'[d], bits))
          OBVIOUS
        <5>4. x = 1 /\ x = 2
          BY <5>1, <5>2, <5>3
        <5>. QED BY <5>4
      <4>. QED BY <1>7, <2>7, <4>2, <4>3, <4>4 DEF Fresh
    <3>. QED BY <2>4, <3>1, AnnouncesFresh
  <2>8. IInv'
    BY <2>3 DEF Good, IInv
  <2>. QED BY <1>4, <1>6, <2>7, <2>8 DEF LInv
<1>9. CASE a \in Data /\ ReceiveData([flow |-> a.flow, in |-> e, prev |-> a.q])
  <2>1. PICK p : p = [flow |-> a.flow, in |-> e, prev |-> a.q]
    OBVIOUS
  <2>2. p \in Packet
    BY <1>5, <1>9, <2>1, LinkAssumption DEF Data, Packet
  <2>3. Good(s, Now') /\ Announces(s, Now')
    BY <1>1, <1>4, <1>9, <2>1, <2>2, ReceiveDataGood, ReceiveDataAnnounces
  <2>4. ASSUME NEW f \in Joined
        PROVE  \A bits : Newest(link'[f], bits) = Newest(link[f], bits)
    <3>1. \A bits : After(a, bits) = bits
      <4>1. a \notin PfcFrame
        BY <1>9, DifferentFrames DEF Control
      <4>. QED BY <4>1 DEF After
    <3>2. CASE f = d
      BY <1>6, <3>1, <3>2
    <3>3. CASE f # d
      BY <1>6, <3>3
    <3>. QED BY <3>2, <3>3
  <2>5. ASSUME lost' = 0 PROVE Fresh(Now', link')
    <3>1. Fresh(s, link')
      <4> SUFFICES ASSUME NEW f \in Joined PROVE Within(s, link', f) \/ Silent(s, link', f)
        BY DEF Fresh
      <4>1. CASE Within(s, link, f)
        BY <2>4, <4>1 DEF Within
      <4>2. CASE Silent(s, link, f)
        BY <2>4, <4>2 DEF Silent
      <4>. QED BY <1>7, <2>5, <4>1, <4>2 DEF Fresh
    <3>. QED BY <2>3, <3>1, AnnouncesFresh
  <2>6. IInv'
    BY <2>3 DEF Good, IInv
  <2>. QED BY <1>4, <1>6, <2>5, <2>6 DEF LInv
<1>. QED BY <1>3, <1>4, <1>8, <1>9 DEF Receive

(* After a loss nothing is promised. *)
LEMMA LoseKeeps ==
  ASSUME LInv, NEW d \in Joined, Lose(d)
  PROVE  LInv'
<1>1. LinkType'
  BY TakenLink DEF Lose
<1>2. lost \in 0 .. MaxLoss /\ MaxLoss \in Nat /\ lost < MaxLoss /\ lost' = lost + 1 /\ left' = left
  BY LinkAssumption DEF LInv, Lose
<1>3. lost' \in 0 .. MaxLoss /\ lost' # 0
  BY <1>2
<1>4. IInv'
  <2>1. UNCHANGED vars
    BY DEF Lose
  <2>. QED BY <2>1, NextIInv DEF LInv
<1>. QED BY <1>1, <1>2, <1>3, <1>4 DEF LInv

LEMMA LNextKeeps == LInv /\ [LNext]_lvars => LInv'
<1> SUFFICES ASSUME LInv, [LNext]_lvars PROVE LInv'
  OBVIOUS
<1>1. CASE HostSend
  BY <1>1, HostSendKeeps
<1>2. ASSUME NEW o \in Dev, LTransmitComplete(o) PROVE LInv'
  BY <1>2, LTransmitCompleteKeeps
<1>3. ASSUME NEW o \in Dev, LPoll(o) PROVE LInv'
  BY <1>3, PollGood, PollAnnounces, LocalKeeps DEF LPoll, LInv
<1>4. ASSUME NEW d \in Joined, Deliver(d) PROVE LInv'
  BY <1>4, DeliverKeeps
<1>5. ASSUME NEW d \in Joined, Lose(d) PROVE LInv'
  BY <1>5, LoseKeeps
<1>6. ASSUME NEW n \in Nodes, Snapshot(n) PROVE LInv'
  BY <1>6, CheckAndSendPauseGood, SnapshotAnnounces, LocalKeeps DEF Snapshot, LInv
<1>7. CASE UNCHANGED lvars
  <2>1. UNCHANGED vars /\ UNCHANGED <<link, left, lost>>
    BY <1>7 DEF lvars
  <2>2. Now' = Now
    BY <2>1 DEF vars, Now
  <2>3. IInv'
    BY <2>1, NextIInv DEF LInv
  <2>4. lost' = 0 => Fresh(Now', link')
    BY <2>1, <2>2 DEF LInv
  <2>. QED BY <2>1, <2>3, <2>4 DEF LInv, LinkType
<1>. QED BY <1>1, <1>2, <1>3, <1>4, <1>5, <1>6, <1>7 DEF LNext

LEMMA LInitKeeps == LInit => LInv
<1> SUFFICES ASSUME LInit PROVE LInv
  OBVIOUS
<1>1. IInv
  BY InitIInv DEF LInit
<1>2. LinkType
  BY DEF LInit, LinkType
<1>3. left \in Seq(Offered) /\ lost \in 0 .. MaxLoss
  BY LinkAssumption DEF LInit
<1>4. Fresh(Now, link)
  <2> SUFFICES ASSUME NEW d \in Joined PROVE Silent(Now, link, d)
    BY DEF Fresh
  <2>1. /\ link[d] = <<>> /\ (Now).received[Peer[d]] = Received0[Peer[d]]
        /\ (Now).ctl[d] = <<>> /\ (Now).tx[d] = Idle
    BY Peers DEF LInit, Init, DeviceInit, Now
  <2>2. \A bits : NewestAt(Now, d, Newest(link[d], bits)) = bits
    BY <2>1, NewestOfOne, AfterIdle DEF NewestAt
  <2>. QED BY <2>1, <2>2 DEF Silent
<1>. QED BY <1>1, <1>2, <1>3, <1>4 DEF LInv

LEMMA LInductive == LSpec => []LInv
BY LInitKeeps, LNextKeeps, PTL DEF LSpec

-----------------------------------------------------------------------------
(* The links carry pause frames, packets passing through and data packets,  *)
(* and every switch stays within the record of QbbSwitch.                  *)
THEOREM LTypeCorrect == LSpec => []LTypeOK
<1>1. LInv => LTypeOK
  BY DEF LInv, IInv, SInv, LinkType, LTypeOK, TypeOK
<1>. QED BY <1>1, LInductive, PTL

(* The newest pause frame of a device, wherever it is on its way, names no  *)
(* queue the device no longer wants paused, whatever the order of snapshots *)
(* (CheckAndSendPause), resume frames (UpdateResumeQueue) and data, and     *)
(* however many snapshots are under way at once.  Until the first frame is  *)
(* sent the peer goes by what its memory held.                             *)
THEOREM NoPauseIsStale == LSpec => []NoStalePause
<1>1. LInv => NoStalePause
  BY FreshIs DEF LInv, NoStalePause
<1>. QED BY <1>1, LInductive, PTL

(* A queue a device holds back is one its peer has marked packets of, come  *)
(* over this link and still queued, unless the frame that ends the pause is *)
(* on its way: wherever the memory of the two devices held no such bit.    *)
THEOREM PausesHaveCause == LSpec => []PausedForPackets
<1>1. ASSUME LInv, lost = 0, NEW d \in Joined, NEW q \in paused[Peer[d]],
             Zeroed(d, Index(q)), Index(q) \notin Received0[Peer[d]]
      PROVE  \/ MarkedSlots(Now, d, Index(q)) # {}
             \/ \E j \in DOMAIN OnTheWay(d) :
                  OnTheWay(d)[j] \in PfcFrame /\ Index(q) \notin OnTheWay(d)[j].pause
  <2>1. d \in Dev /\ Peer[d] \in Dev
    BY Peers
  <2>2. TypeOK /\ PauseSync(Now) /\ CounterExactOf(Now)
    BY <1>1 DEF LInv, IInv, SInv, TypeOK
  <2>3. q \in DataQ
    <3>1. (Now).paused \in [Dev -> SUBSET DataQ] /\ (Now).paused = paused
      BY <2>2, StateFields DEF TypeOK, Now
    <3>. QED BY <2>1, <3>1
  <2>4. Index(q) \in received[Peer[d]]
    BY <2>1, <2>2, <2>3 DEF PauseSync, Now
  <2>5. Index(q) \in Bloom
    BY <2>3, SwitchAssumption, IndexInBloom
  <2>6. NewestFrame(d) \subseteq bloom[d]
    BY <1>1, <2>4, FreshIs DEF LInv, Untouched
  <2>11. Index(q) \in bloom[d] => MarkedSlots(Now, d, Index(q)) # {}
    <3>1. (Now).bloom = bloom
      BY DEF Now
    <3>2. Index(q) \in bloom[d] <=> Cardinality(MarkedSlots(Now, d, Index(q))) > 0
      BY <1>1, <2>1, <2>2, <2>5, <3>1, Zenon DEF CounterExactOf
    <3>. QED BY <3>2, FS_EmptySet
  <2>7. PICK w : w = OnTheWay(d)
    OBVIOUS
  <2>8. w \in Seq(Control \cup Data) /\ NewestFrame(d) = Newest(w, received[Peer[d]])
    BY <1>1, <2>7, OnTheWayIs DEF LInv, NewestFrame
  <2>9. CASE NoFrame(w)
    <3>1. NewestFrame(d) = received[Peer[d]]
      BY <2>8, <2>9, NewestOfNone
    <3>2. Index(q) \in bloom[d]
      BY <2>4, <2>6, <3>1
    <3>. QED BY <2>11, <3>2
  <2>10. ASSUME NEW n, LastFrame(w, n)
         PROVE  \/ MarkedSlots(Now, d, Index(q)) # {}
                \/ \E j \in DOMAIN w : w[j] \in PfcFrame /\ Index(q) \notin w[j].pause
    <3>1. NewestFrame(d) = w[n].pause
      BY <2>8, <2>10, NewestIsLast
    <3>2. n \in DOMAIN w /\ w[n] \in PfcFrame
      <4>1. DOMAIN w = 1 .. Len(w)
        BY <2>8, LenProperties
      <4>. QED BY <2>10, <4>1 DEF LastFrame
    <3>3. CASE Index(q) \in w[n].pause
      <4>1. Index(q) \in bloom[d]
        BY <2>6, <3>1, <3>3
      <4>. QED BY <2>11, <4>1
    <3>4. CASE Index(q) \notin w[n].pause
      BY <3>2, <3>4
    <3>. QED BY <3>3, <3>4
  <2>. QED BY <2>7, <2>8, <2>9, <2>10, LastOrNone
<1>2. LInv => PausedForPackets
  BY <1>1 DEF PausedForPackets
<1>. QED BY <1>2, LInductive, PTL
=============================================================================
