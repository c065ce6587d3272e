-------------------------- MODULE Visualizer_proofs --------------------------
(* Proofs about Visualizer, for any number of timer identifiers, any sample   *)
(* periods and any depth of nested ticks.                                     *)
EXTENDS Visualizer, TLAPS, SequenceTheorems

(* The ticks in progress, and the fields of the innermost one. *)
LEMMA InnermostTick ==
  ASSUME stack \in Seq(Tick), stack # <<>>
  PROVE  /\ Head(stack) \in Tick
         /\ Tail(stack) \in Seq(Tick)
         /\ Head(stack).id \in Timers /\ Head(stack).messages \in BOOLEAN
<1>1. Head(stack) \in Tick /\ Tail(stack) \in Seq(Tick)
  BY HeadTailProperties
<1>. QED BY <1>1 DEF Tick

LEMMA NoTick == <<>> \in Seq(Tick)
OBVIOUS

(* A tick that got the lock. *)
LEMMA UpdatedTick ==
  ASSUME stack \in Seq(Tick), stack # <<>>, messages \in BOOLEAN
  PROVE  [stack EXCEPT ![1] = [@ EXCEPT !.stage = "updated", !.messages = messages]] \in Seq(Tick)
<1> DEFINE t == [stack[1] EXCEPT !.stage = "updated", !.messages = messages]
<1>1. stack[1] \in Tick
  BY ElementOfSeq
<1>2. t \in Tick
  BY <1>1 DEF Tick
<1> HIDE DEF t
<1>3. [stack EXCEPT ![1] = t] \in Seq(Tick)
  BY <1>2
<1>. QED BY <1>3 DEF t

LEMMA WaitingTick ==
  ASSUME stack \in Seq(Tick), stack # <<>>
  PROVE  [stack EXCEPT ![1].stage = "waiting"] \in Seq(Tick)
<1> DEFINE t == [stack[1] EXCEPT !.stage = "waiting"]
<1>1. stack[1] \in Tick
  BY ElementOfSeq
<1>2. t \in Tick
  BY <1>1 DEF Tick
<1> HIDE DEF t
<1>3. [stack EXCEPT ![1] = t] \in Seq(Tick)
  BY <1>2
<1>. QED BY <1>3 DEF t

(* A tick that starts is put on top of the others. *)
LEMMA PushedTick ==
  ASSUME NEW t \in Timers, stack \in Seq(Tick)
  PROVE  <<[id |-> t, stage |-> "trying", messages |-> FALSE]>> \o stack \in Seq(Tick)
<1>1. <<[id |-> t, stage |-> "trying", messages |-> FALSE]>> \in Seq(Tick)
  BY DEF Tick
<1>. QED BY <1>1, ConcatProperties

(* Every step keeps the types. *)
LEMMA TypeStep == TypeOK /\ [Next]_vars => TypeOK'
<1> SUFFICES ASSUME TypeOK, [Next]_vars PROVE TypeOK'
  OBVIOUS
<1> USE DEF TypeOK, simVars, viewVars
<1>1. CASE SimStep
  <2>1. CASE Leave
    BY <2>1 DEF Leave
  <2>2. CASE Wake \/ Clear \/ CheckQuit \/ SimAcquire
    BY <2>2 DEF Wake, Clear, CheckQuit, SimAcquire
  <2>3. CASE RunUntil
    <3>1. messages' \in BOOLEAN
      BY <2>3 DEF RunUntil
    <3>2. lead' \in Nat /\ updates' \in Nat /\ sim' = "loop" /\ lock' = FALSE
      BY <2>3 DEF RunUntil
    <3>. QED BY <2>3, <3>1, <3>2 DEF RunUntil
  <2>. QED BY <1>1, <2>1, <2>2, <2>3 DEF SimStep
<1>2. CASE UpdateModel
  BY <1>2 DEF UpdateModel
<1>3. ASSUME NEW t \in Timers, TickStart(t) PROVE TypeOK'
  BY <1>3, PushedTick DEF TickStart
<1>4. ASSUME NEW period \in Periods, TickUpdate(period) PROVE TypeOK'
  <2>1. stack' \in Seq(Tick)
    BY <1>4, UpdatedTick DEF TickUpdate
  <2>. QED BY <1>4, <2>1, VisualizerAssumption DEF TickUpdate
<1>5. CASE TickReturn
  <2>1. stack' \in Seq(Tick) /\ active' \in BOOLEAN
    BY <1>5, InnermostTick DEF TickReturn
  <2>2. timer' \in Timers \cup {None} /\ live' \subseteq Timers /\ go' \in BOOLEAN
    <3>1. CASE active'
      BY <1>5, <3>1 DEF TickReturn
    <3>2. CASE ~ active'
      BY <1>5, <3>2 DEF TickReturn, Removed
    <3>. QED BY <3>1, <3>2
  <2>. QED BY <1>5, <2>1, <2>2 DEF TickReturn
<1>6. CASE Joined
  BY <1>6 DEF Joined
<1>7. CASE Pause \/ Quit
  BY <1>7 DEF Pause, Quit, Removed
<1>8. ASSUME NEW t \in Timers, Play(t) \/ ChangeSpeed(t) PROVE TypeOK'
  BY <1>8 DEF Play, ChangeSpeed, StartTimer, Removed
<1>9. CASE TickWait
  BY <1>9, WaitingTick DEF TickWait
<1>10. CASE UNCHANGED vars
  BY <1>10 DEF vars
<1>. QED BY <1>1, <1>2, <1>3, <1>4, <1>5, <1>6, <1>7, <1>8, <1>9, <1>10 DEF Next, ViewStep, UserStep

LEMMA InitTyped == Init => TypeOK
<1> SUFFICES ASSUME Init PROVE TypeOK
  OBVIOUS
<1>1. stack \in Seq(Tick)
  BY NoTick DEF Init
<1>. QED BY <1>1 DEF Init, TypeOK

(* The state of the two threads, and the ticks in progress, are always of the *)
(* shapes Visualizer gives them.                                              *)
THEOREM TypeCorrect == Spec => []TypeOK
BY InitTyped, TypeStep, PTL DEF Spec

-----------------------------------------------------------------------------
(* PlayingHasTimer is inductive: whoever sets the play button starts a timer, *)
(* and a tick that forgets one leaves the button released.                    *)
LEMMA PlayingStep == TypeOK /\ PlayingHasTimer /\ [Next]_vars => PlayingHasTimer'
<1> SUFFICES ASSUME TypeOK, PlayingHasTimer, [Next]_vars PROVE PlayingHasTimer'
  OBVIOUS
<1> USE DEF PlayingHasTimer
<1>1. CASE SimStep
  <2>1. UNCHANGED viewVars
    BY <1>1 DEF SimStep, Leave, Wake, Clear, CheckQuit, SimAcquire, RunUntil
  <2>. QED BY <2>1 DEF viewVars
<1>2. CASE UpdateModel
  BY <1>2 DEF UpdateModel, viewVars
<1>3. ASSUME NEW t \in Timers, TickStart(t) PROVE PlayingHasTimer'
  BY <1>3 DEF TickStart
<1>4. ASSUME NEW period \in Periods, TickUpdate(period) PROVE PlayingHasTimer'
  BY <1>4 DEF TickUpdate
<1>5. CASE TickReturn
  <2>1. CASE active'
    <3>1. active /\ main' = main
      BY <1>5, <2>1, InnermostTick DEF TickReturn, TypeOK
    <3>2. timer' = timer /\ live' = live
      BY <1>5, <2>1 DEF TickReturn
    <3>. QED BY <3>1, <3>2
  <2>. QED BY <2>1
<1>6. CASE TickWait \/ Joined
  <2>1. (main' = main \/ main' # "loop") /\ UNCHANGED <<active, timer, live>>
    BY <1>6 DEF TickWait, Joined
  <2>. QED BY <2>1
<1>7. CASE Pause \/ Quit
  BY <1>7 DEF Pause, Quit
<1>8. ASSUME NEW t \in Timers, Play(t) \/ ChangeSpeed(t) PROVE PlayingHasTimer'
  BY <1>8 DEF Play, ChangeSpeed, StartTimer
<1>9. CASE UNCHANGED vars
  BY <1>9 DEF vars, viewVars
<1>. QED BY <1>1, <1>2, <1>3, <1>4, <1>5, <1>6, <1>7, <1>8, <1>9 DEF Next, ViewStep, UserStep

(* However play, pause, the speed button, close and nested ticks of           *)
(* update_view_timeout interleave, a playing view has a timer installed and   *)
(* remembers it.                                                              *)
THEOREM PlayingViewHasTimer == Spec => []PlayingHasTimer
<1>1. Init => PlayingHasTimer
  BY DEF Init, PlayingHasTimer
<1>. QED BY <1>1, PlayingStep, TypeCorrect, PTL DEF Spec
=============================================================================
