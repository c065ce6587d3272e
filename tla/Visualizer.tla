----------------------------- MODULE Visualizer -----------------------------
(* The two threads of the ns-3 visualizer (src/visualizer/visualizer/        *)
(* core.py): the simulation thread, which runs the model up to a target      *)
(* time, and the view thread, whose gtk main loop dispatches an update timer, *)
(* the user's clicks and the callbacks the simulation thread queues.  They    *)
(* share one lock, the event "go" and the play button.                        *)
(*                                                                            *)
(* A tick of the timer that does not get the lock runs the main loop until it *)
(* does, so clicks and further ticks happen in the middle of a tick: "stack"  *)
(* holds the ticks in progress, the innermost first.                          *)
EXTENDS Naturals, Sequences

CONSTANTS
  Timers,      \* identifiers gobject.timeout_add may return
  Periods,     \* values of sample_period, which the speed spin button changes
  MaxDepth,    \* bound: ticks in progress at once
  None         \* _update_timeout_id when no timer was started

ASSUME VisualizerAssumption ==
  /\ Periods \subseteq Nat \ {0}
  /\ MaxDepth \in Nat
  /\ None \notin Timers

VARIABLES
  sim,         \* where the simulation thread is
  lock,        \* SimulationThread.lock is held by the simulation thread
  go,          \* SimulationThread.go
  quit,        \* SimulationThread.quit
  lead,        \* simulated time since the view was last updated
  goal,        \* target_time, counted from the same instant
  messages,    \* SimulationThread.pause_messages is not empty
  updates,     \* update_model callbacks waiting in the main loop
  main,        \* gtk.main runs, waits for the thread to end, or has returned
  active,      \* the play button is pressed
  timer,       \* _update_timeout_id
  live,        \* timers installed in the main loop
  stack        \* ticks in progress

simVars == <<sim, lock, lead, messages, updates>>
viewVars == <<main, active, timer, live, stack>>
vars == <<sim, lock, go, quit, lead, goal, messages, updates, main, active, timer, live, stack>>

Tick == [id : Timers, stage : {"trying", "waiting", "updated"}, messages : BOOLEAN]

TypeOK ==
  /\ sim \in {"loop", "wait", "woken", "cleared", "acquire", "run", "ended"}
  /\ lock \in BOOLEAN /\ go \in BOOLEAN /\ quit \in BOOLEAN
  /\ lead \in Nat /\ goal \in Nat
  /\ messages \in BOOLEAN
  /\ updates \in Nat
  /\ main \in {"loop", "join", "over"}
  /\ active \in BOOLEAN
  /\ timer \in Timers \cup {None}
  /\ live \subseteq Timers
  /\ stack \in Seq(Tick)

(* create_gui sets the speed once, which starts a timer, though play is not    *)
(* pressed.                                                                   *)
Init ==
  /\ sim = "loop" /\ lock = FALSE /\ go = FALSE /\ quit = FALSE
  /\ lead = 0 /\ goal = 0
  /\ messages = FALSE /\ updates = 0
  /\ main = "loop" /\ active = FALSE
  /\ timer \in Timers /\ live = {timer} /\ stack = <<>>

-----------------------------------------------------------------------------
(* The simulation thread. *)

Leave == /\ sim = "loop"
         /\ sim' = IF quit THEN "ended" ELSE "wait"
         /\ UNCHANGED <<lock, go, quit, lead, goal, messages, updates, viewVars>>

Wake == /\ sim = "wait" /\ go
        /\ sim' = "woken"
        /\ UNCHANGED <<lock, go, quit, lead, goal, messages, updates, viewVars>>

Clear == /\ sim = "woken"
         /\ sim' = "cleared"
         /\ go' = FALSE
         /\ UNCHANGED <<lock, quit, lead, goal, messages, updates, viewVars>>

CheckQuit == /\ sim = "cleared"
             /\ sim' = IF quit THEN "ended" ELSE "acquire"
             /\ UNCHANGED <<lock, go, quit, lead, goal, messages, updates, viewVars>>

SimAcquire == /\ sim = "acquire" /\ ~lock
              /\ sim' = "run" /\ lock' = TRUE
              /\ UNCHANGED <<go, quit, lead, goal, messages, updates, viewVars>>

(* SimulatorRunUntil leaves the clock at the target; events of the model may  *)
(* have asked for a pause on the way, which does not stop the run.  A model   *)
(* that schedules a Simulator::Stop of its own, short of it, is left out.     *)
RunUntil == /\ sim = "run" /\ lock
            /\ sim' = "loop" /\ lock' = FALSE
            /\ lead' = goal
            /\ \E paused \in BOOLEAN : messages' = (messages \/ paused)
            /\ updates' = updates + 1
            /\ UNCHANGED <<go, quit, goal, viewVars>>

-----------------------------------------------------------------------------
(* The view thread. The main loop runs when no tick is in progress and while  *)
(* the innermost one waits for the lock. Once _quit has returned, the events  *)
(* a waiting tick's loop may still dispatch are left out.                     *)

Dispatching == main = "loop" /\ (stack # <<>> => Head(stack).stage = "waiting")

(* update_model, queued with a higher priority than the update timer.         *)
UpdateModel == /\ Dispatching /\ updates > 0 /\ ~lock
               /\ updates' = updates - 1
               /\ UNCHANGED <<sim, lock, go, quit, lead, goal, messages, viewVars>>

(* The timer is dispatched; a source is never dispatched inside itself.       *)
TickStart(t) ==
  /\ Dispatching /\ updates = 0
  /\ t \in live /\ Len(stack) < MaxDepth
  /\ \A i \in 1..Len(stack) : stack[i].id # t
  /\ stack' = <<[id |-> t, stage |-> "trying", messages |-> FALSE]>> \o stack
  /\ UNCHANGED <<simVars, go, quit, goal, main, active, timer, live>>

(* The lock is taken: the tick runs the main loop until it finds it free.     *)
TickWait ==
  /\ stack # <<>> /\ Head(stack).stage = "trying" /\ lock
  /\ stack' = [stack EXCEPT ![1].stage = "waiting"]
  /\ UNCHANGED <<simVars, go, quit, goal, main, active, timer, live>>

(* update_view_timeout up to the release of the lock.                         *)
TickUpdate(period) ==
  /\ stack # <<>> /\ Head(stack).stage \in {"trying", "waiting"}
  /\ main # "join" /\ ~lock
  /\ stack' = [stack EXCEPT ![1] = [@ EXCEPT !.stage = "updated", !.messages = messages]]
  /\ messages' = FALSE
  /\ lead' = 0 /\ goal' = period
  /\ UNCHANGED <<sim, lock, go, quit, updates, main, active, timer, live>>

(* Removing a source that is not installed does nothing.                      *)
Removed(t) == live \ {t}

(* The rest of it: a pause message releases the play button, whose handler    *)
(* removes the timer; a paused view removes the timer of this tick.           *)
TickReturn ==
  /\ stack # <<>> /\ Head(stack).stage = "updated"
  /\ stack' = Tail(stack)
  /\ active' = (active /\ ~Head(stack).messages)
  /\ IF active'
       THEN go' = TRUE /\ UNCHANGED <<timer, live>>
       ELSE /\ timer' = None
            /\ live' = (IF active THEN Removed(timer) ELSE live) \ {Head(stack).id}
            /\ UNCHANGED go
  /\ UNCHANGED <<simVars, quit, goal, main>>

(* _start_update_timer: the timer _update_timeout_id names is removed first.  *)
StartTimerOnce(t) ==                                   \* deviation: that timer is kept
  /\ t \notin live \cup {timer} /\ \A i \in 1..Len(stack) : stack[i].id # t
  /\ IF timer = None THEN timer' = t /\ live' = live \cup {t}
                     ELSE UNCHANGED <<timer, live>>

StartTimer(t) ==
  /\ t \notin live \cup {timer} /\ \A i \in 1..Len(stack) : stack[i].id # t
  /\ timer' = t
  /\ live' = Removed(timer) \cup {t}

Play(t) == /\ Dispatching /\ ~active
           /\ active' = TRUE
           /\ StartTimer(t)
           /\ UNCHANGED <<simVars, go, quit, goal, main, stack>>

Pause == /\ Dispatching /\ active
         /\ active' = FALSE
         /\ live' = Removed(timer)
         /\ UNCHANGED <<simVars, go, quit, goal, main, timer, stack>>

(* The speed spin button starts a timer whether the view plays or not.        *)
ChangeSpeed(t) == /\ Dispatching
                  /\ StartTimer(t)
                  /\ UNCHANGED <<simVars, go, quit, goal, main, active, stack>>

(* _quit up to the join, and the rest of it. *)
QuitWithoutGo == /\ Dispatching                        \* deviation: go is not set
                 /\ live' = Removed(timer) /\ timer' = None
                 /\ quit' = TRUE
                 /\ main' = "join"
                 /\ UNCHANGED <<simVars, go, goal, active, stack>>

Quit == /\ Dispatching
        /\ live' = Removed(timer) /\ timer' = None
        /\ quit' = TRUE /\ go' = TRUE
        /\ main' = "join"
        /\ UNCHANGED <<simVars, goal, active, stack>>

Joined == /\ main = "join" /\ sim = "ended"
          /\ main' = "over"
          /\ UNCHANGED <<simVars, go, quit, goal, active, timer, live, stack>>

-----------------------------------------------------------------------------
SimStep == Leave \/ Wake \/ Clear \/ CheckQuit \/ SimAcquire \/ RunUntil

ViewStep == \/ UpdateModel \/ TickWait \/ TickReturn \/ Joined
            \/ \E t \in Timers : TickStart(t)
            \/ \E period \in Periods : TickUpdate(period)

UserStep == Pause \/ Quit \/ \E t \in Timers : Play(t) \/ ChangeSpeed(t)

Next == SimStep \/ ViewStep \/ UserStep

Spec == Init /\ [][Next]_vars

(* Both threads are scheduled: the interpreter switches between them and the  *)
(* main loop dispatches a source that stays ready. The user does as he likes. *)
FairSpec ==
  /\ Spec
  /\ WF_vars(SimStep) /\ WF_vars(UpdateModel) /\ WF_vars(TickReturn) /\ WF_vars(Joined)
  /\ WF_vars(\E t \in Timers : TickStart(t))
  /\ WF_vars(\E period \in Periods : TickUpdate(period))

-----------------------------------------------------------------------------
(* However clicks and nested ticks interleave, a playing view has an update   *)
(* timer and remembers it, so that the next pause can remove it.              *)
PlayingHasTimer == main = "loop" /\ active => timer \in live

(* "If we're paused, stop the update timer": a view that is paused and has    *)
(* forgotten its timer has none installed, which the next Play would join     *)
(* with a second one.                                                         *)
PausedTimerStopped == main = "loop" /\ ~active /\ timer = None => live = {}

(* While the user leaves the play button pressed and the speed alone, the     *)
(* model keeps advancing: no order of ticks, locks and signals, and no timer  *)
(* left over, loses the wake-up for good.                                     *)
Advances ==
  (\E t \in Timers : <>[](active /\ main = "loop" /\ timer = t))
    => []<><<RunUntil /\ lead < goal>>_vars

(* Closing the window ends both threads, also when it is closed in the middle *)
(* of a tick or of a run of the model.                                        *)
Quits == quit ~> (sim = "ended" /\ main = "over" /\ stack = <<>>)

=============================================================================
