-------------------------- MODULE TestRunner_proofs --------------------------
(* Proofs about TestRunner, for any number of workers and jobs, any choice of *)
(* examples and skipped jobs, and any number of workers that die.             *)
EXTENDS TestRunner, TLAPS, FiniteSetTheorems, SequenceTheorems

LEMMA WorkersCounted == Cardinality(Worker) \in Nat
BY RunnerAssumption, FS_CardinalityType

(* What goes on the input queue, and what is taken from the output queue.     *)
LEMMA QueueTypes ==
  ASSUME TypeOK
  PROVE  /\ queued < Count + Cardinality(Worker) =>
              Append(input, IF queued < Count THEN queued + 1 ELSE Break) \in Seq(Job \cup {Break})
         /\ input # <<>> => Head(input) \in Job \cup {Break} /\ Tail(input) \in Seq(Job \cup {Break})
         /\ output # <<>> => Head(output) \in Job /\ Tail(output) \in Seq(Job)
<1>1. ASSUME queued < Count + Cardinality(Worker)
      PROVE  Append(input, IF queued < Count THEN queued + 1 ELSE Break) \in Seq(Job \cup {Break})
  <2>1. (IF queued < Count THEN queued + 1 ELSE Break) \in Job \cup {Break}
    BY WorkersCounted, RunnerAssumption DEF TypeOK, Job
  <2>. QED BY <2>1, AppendProperties DEF TypeOK
<1>2. ASSUME input # <<>>
      PROVE  Head(input) \in Job \cup {Break} /\ Tail(input) \in Seq(Job \cup {Break})
  BY <1>2, HeadTailProperties DEF TypeOK
<1>3. ASSUME output # <<>> PROVE Head(output) \in Job /\ Tail(output) \in Seq(Job)
  BY <1>3, HeadTailProperties DEF TypeOK
<1>. QED BY <1>1, <1>2, <1>3

LEMMA StatusTyped ==
  ASSUME NEW j \in Job, TypeOK
  PROVE  StatusOf(j) \in Status
BY DEF StatusOf, Status

LEMMA EntriesTyped ==
  ASSUME NEW j \in Job, TypeOK
  PROVE  Entries(j) \in Seq(Status)
<1>1. CASE j \in Example \cup Skip
  BY <1>1, StatusTyped DEF Entries
<1>2. CASE j \notin Example \cup Skip /\ code[j] \in {0, 1, 2}
  <2>1. Own(j) \in Status
    BY DEF Own, Status
  <2>. QED BY <1>2, <2>1 DEF Entries
<1>3. CASE j \notin Example \cup Skip /\ code[j] \notin {0, 1, 2}
  <2>1. Entries(j) = <<"CRASH">> \o <<>>
    BY <1>3 DEF Entries
  <2>2. <<"CRASH">> \in Seq(Status) /\ <<>> \in Seq(Status)
    BY DEF Status
  <2>. QED BY <2>1, <2>2, ConcatProperties
<1>. QED BY <1>1, <1>2, <1>3

LEMMA ReportTyped ==
  ASSUME NEW j \in Job, TypeOK, Report(j)
  PROVE  report' \in [Job -> Status \cup {None}] /\ xml' \in [Job -> Seq(Status)]
<1>1. CASE j \in aborted
  BY <1>1 DEF Report, TypeOK
<1>2. CASE j \notin aborted
  <2>1. xml[j] \o Entries(j) \in Seq(Status)
    BY EntriesTyped, ConcatProperties DEF TypeOK
  <2>. QED BY <1>2, <2>1, StatusTyped DEF Report, TypeOK
<1>. QED BY <1>1, <1>2

(* A worker has a job in hand from the check of thread_exit until it puts it  *)
(* back, and keeps it when it dies.                                           *)
Held == \A w \in Worker : at[w] \in {"check", "launch", "run", "dead"} <=> job[w] # None

LEMMA InitTyped == Init => TypeOK /\ Held
<1> SUFFICES ASSUME Init PROVE TypeOK /\ Held
  OBVIOUS
<1>1. /\ input \in Seq(Job \cup {Break}) /\ output \in Seq(Job)
      /\ xml \in [Job -> Seq(Status)]
  BY DEF Init
<1>2. queued \in 0 .. Count + Cardinality(Worker) /\ collected \in 0 .. Count
  BY WorkersCounted, RunnerAssumption DEF Init
<1>. QED BY <1>1, <1>2 DEF Init, TypeOK, Held

LEMMA GetTyped ==
  ASSUME TypeOK, Held, NEW w \in Worker, Get(w)
  PROVE  (TypeOK /\ Held)'
<1> USE DEF TypeOK, Held, results
<1>1. CASE Head(input) = Break
  BY <1>1, QueueTypes DEF Get
<1>2. CASE Head(input) # Break
  <2>1. Head(input) \in Job /\ Head(input) # None
    BY <1>2, QueueTypes, RunnerAssumption DEF Get
  <2>. QED BY <1>2, <2>1, QueueTypes DEF Get
<1>. QED BY <1>1, <1>2

LEMMA PutBackTyped ==
  ASSUME TypeOK, Held, NEW w \in Worker, at[w] \in {"check", "run"}, PutBack(w),
         aborted' \subseteq Job, code' \in [Job -> Code \cup {None}]
  PROVE  (TypeOK /\ Held)'
<1>1. job[w] \in Job
  BY DEF TypeOK, Held
<1>2. output' \in Seq(Job)
  BY <1>1, AppendProperties DEF PutBack, TypeOK
<1>3. Held'
  BY DEF PutBack, TypeOK, Held
<1>. QED BY <1>2, <1>3 DEF PutBack, TypeOK, results

(* Every step of a worker keeps the types.                                    *)
LEMMA WorkerTyped ==
  ASSUME TypeOK, Held, NEW w \in Worker, Run(w) \/ Die(w)
  PROVE  (TypeOK /\ Held)'
<1>1. CASE GiveUp(w)
  <2>1. aborted' \subseteq Job /\ code' \in [Job -> Code \cup {None}]
    BY <1>1 DEF GiveUp, TypeOK, Held
  <2>. QED BY <1>1, <2>1, PutBackTyped DEF GiveUp
<1>2. CASE HandBackSkipped(w)
  <2>1. aborted' \subseteq Job /\ code' \in [Job -> Code \cup {None}]
    BY <1>2 DEF HandBackSkipped, TypeOK
  <2>. QED BY <1>2, <2>1, PutBackTyped DEF HandBackSkipped
<1>3. CASE GoAhead(w) \/ Die(w)
  BY <1>3 DEF GoAhead, Die, TypeOK, Held, results
<1>4. CASE Launch(w)
  <2>1. late' \in [Worker -> Nat]
    BY <1>4 DEF Launch, TypeOK
  <2>. QED BY <1>4, <2>1 DEF Launch, TypeOK, Held, results
<1>5. ASSUME NEW c \in Code, FinishRun(w, c) PROVE (TypeOK /\ Held)'
  <2>1. aborted' \subseteq Job /\ code' \in [Job -> Code \cup {None}]
    BY <1>5 DEF FinishRun, TypeOK
  <2>. QED BY <1>5, <2>1, PutBackTyped DEF FinishRun
<1>. QED BY <1>1, <1>2, <1>3, <1>4, <1>5, GetTyped DEF Run

(* Every step of the main thread does.                                        *)
LEMMA MainTyped ==
  ASSUME TypeOK, Held, MainStep \/ sigint_hook
  PROVE  (TypeOK /\ Held)'
<1> USE DEF TypeOK, Held, workers, results
<1>1. CASE Dispatch
  <2>1. queued' \in 0 .. Count + Cardinality(Worker)
    BY <1>1, WorkersCounted, RunnerAssumption DEF Dispatch
  <2>. QED BY <1>1, <2>1, QueueTypes DEF Dispatch
<1>2. CASE Dispatched \/ Collected \/ sigint_hook
  BY <1>2 DEF Dispatched, Collected, sigint_hook
<1>3. CASE Collect
  <2>1. collected' \in 0 .. Count
    BY <1>3, RunnerAssumption DEF Collect
  <2>2. output' \in Seq(Job)
    BY <1>3, QueueTypes DEF Collect
  <2>3. report' \in [Job -> Status \cup {None}] /\ xml' \in [Job -> Seq(Status)]
    BY <1>3, QueueTypes, ReportTyped DEF Collect
  <2>. QED BY <1>3, <2>1, <2>2, <2>3 DEF Collect
<1>4. CASE Join
  BY <1>4 DEF Join
<1>. QED BY <1>1, <1>2, <1>3, <1>4 DEF MainStep

LEMMA TypeStep == TypeOK /\ Held /\ [Next]_vars => (TypeOK /\ Held)'
<1> SUFFICES ASSUME TypeOK, Held, [Next]_vars PROVE (TypeOK /\ Held)'
  OBVIOUS
<1>1. CASE UNCHANGED vars
  BY <1>1 DEF vars, workers, results, TypeOK, Held
<1>. QED BY <1>1, MainTyped, WorkerTyped DEF Next

(* The runner's queues, threads and results have the shapes TestRunner gives  *)
(* them.                                                                      *)
THEOREM TypeCorrect == Spec => []TypeOK
<1>. QED BY InitTyped, TypeStep, PTL DEF Spec

-----------------------------------------------------------------------------
(* A worker that may still launch a job has launched none since the           *)
(* interrupt.                                                                 *)
LateInv == \A w \in Worker :
  /\ late[w] =< 1
  /\ late[w] # 0 => thread_exit /\ at[w] # "launch"

LEMMA LateStep == TypeOK /\ LateInv /\ [Next]_vars => LateInv'
<1> SUFFICES ASSUME TypeOK, LateInv, [Next]_vars PROVE LateInv'
  OBVIOUS
<1> USE DEF LateInv, TypeOK
<1>1. CASE MainStep
  <2>1. UNCHANGED <<late, thread_exit, at>>
    BY <1>1 DEF MainStep, Dispatch, Dispatched, Collect, Collected, Join, workers
  <2>. QED BY <2>1
<1>2. CASE sigint_hook
  BY <1>2 DEF sigint_hook, workers
<1>3. ASSUME NEW w \in Worker, Get(w) \/ GiveUp(w) \/ HandBackSkipped(w) PROVE LateInv'
  <2>1. /\ UNCHANGED <<late, thread_exit>>
        /\ at' = [at EXCEPT ![w] = at'[w]] /\ at'[w] # "launch"
    BY <1>3 DEF Get, GiveUp, HandBackSkipped, PutBack
  <2>. QED BY <2>1
<1>4. ASSUME NEW w \in Worker, GoAhead(w) PROVE LateInv'
  BY <1>4 DEF GoAhead
<1>5. ASSUME NEW w \in Worker, Launch(w) PROVE LateInv'
  BY <1>5 DEF Launch
<1>6. ASSUME NEW w \in Worker, NEW c \in Code, FinishRun(w, c) PROVE LateInv'
  BY <1>6 DEF FinishRun, PutBack
<1>7. ASSUME NEW w \in Worker, Die(w) PROVE LateInv'
  BY <1>7 DEF Die
<1>8. CASE UNCHANGED vars
  BY <1>8 DEF vars, workers
<1>. QED BY <1>1, <1>2, <1>3, <1>4, <1>5, <1>6, <1>7, <1>8 DEF Next, Run

(* After an interrupt a worker starts at most the one job it had already      *)
(* decided to run, whatever the interleaving.                                 *)
THEOREM AtMostOneLateJob == Spec => []AtMostOneLate
<1>1. Init => LateInv
  BY DEF Init, LateInv
<1>2. LateInv => AtMostOneLate
  BY DEF LateInv, AtMostOneLate
<1>. QED BY <1>1, <1>2, LateStep, TypeCorrect, PTL DEF Spec
-----------------------------------------------------------------------------
(* Where the jobs are. The first Taken of them, in the order of dispatch,     *)
(* have left the input queue; those that are neither in hand nor on their way *)
(* back have been dealt with by the main thread.                              *)
Taken == queued - Len(input)
Handed(j) == \E w \in Worker : job[w] = j
Returned(j) == \E i \in 1 .. Len(output) : output[i] = j
Gone == {j \in Job : j =< Taken /\ ~ Handed(j) /\ ~ Returned(j)}

QueueInv ==
  /\ Len(input) =< queued
  /\ \A i \in 1 .. Len(input) :
       input[i] = IF Taken + i =< Count THEN Taken + i ELSE Break
  /\ \A w \in Worker : job[w] # None => job[w] =< Taken
  /\ \A v, w \in Worker : job[v] = job[w] /\ job[v] # None => v = w
  /\ \A i \in 1 .. Len(output) : output[i] =< Taken /\ ~ Handed(output[i])
  /\ \A i, k \in 1 .. Len(output) : output[i] = output[k] => i = k
  /\ (\E w \in Worker : at[w] = "exited") => Taken > Count

TInv == TypeOK /\ Held

LEMMA TakenTyped == TInv => Taken \in Int /\ Len(input) \in Nat /\ queued \in Nat /\ Count \in Nat
BY WorkersCounted, RunnerAssumption DEF TInv, TypeOK, Taken

LEMMA DispatchQueues ==
  ASSUME TInv, QueueInv, Dispatch
  PROVE  QueueInv' /\ Gone' = Gone
<1> DEFINE new == IF queued < Count THEN queued + 1 ELSE Break
<1>1. /\ input' = Append(input, new) /\ queued' = queued + 1
      /\ UNCHANGED <<output, job, at>>
  BY DEF Dispatch, workers
<1>2. /\ Len(input') = Len(input) + 1
      /\ \A i \in 1 .. Len(input) : input'[i] = input[i]
      /\ input'[Len(input) + 1] = new
  BY <1>1, AppendProperties DEF TInv, TypeOK, new
<1>3. Taken' = Taken
  BY <1>1, <1>2, TakenTyped DEF Taken
<1>4. Gone' = Gone
  BY <1>1, <1>3 DEF Gone, Handed, Returned
<1>5. \A i \in 1 .. Len(input') : input'[i] = IF Taken' + i =< Count THEN Taken' + i ELSE Break
  <2>1. new = IF Taken + (Len(input) + 1) =< Count THEN Taken + (Len(input) + 1) ELSE Break
    BY TakenTyped DEF Taken
  <2> HIDE DEF new
  <2>. QED BY <1>2, <1>3, <2>1, TakenTyped DEF QueueInv
<1>. QED BY <1>1, <1>2, <1>3, <1>4, <1>5, TakenTyped DEF QueueInv, Handed

LEMMA GetQueues ==
  ASSUME TInv, QueueInv, NEW w \in Worker, Get(w)
  PROVE  QueueInv' /\ Gone' = Gone
<1>1. /\ input # <<>> /\ input' = Tail(input) /\ UNCHANGED <<queued, output>>
      /\ job[w] = None
  BY DEF Get, TInv, Held
<1>2. /\ Len(input) \in Nat \ {0} /\ Len(input') = Len(input) - 1
      /\ \A i \in 1 .. Len(input') : input'[i] = input[i + 1]
      /\ Head(input) = input[1]
  BY <1>1, HeadTailProperties DEF TInv, TypeOK
<1>3. Taken' = Taken + 1
  BY <1>1, <1>2, TakenTyped DEF Taken
<1>4. /\ Len(input') =< queued'
      /\ \A i \in 1 .. Len(input') : input'[i] = IF Taken' + i =< Count THEN Taken' + i ELSE Break
  <2>1. Len(input') =< queued'
    BY <1>1, <1>2, TakenTyped DEF QueueInv
  <2>2. ASSUME NEW i \in 1 .. Len(input')
        PROVE  input'[i] = IF Taken' + i =< Count THEN Taken' + i ELSE Break
    <3>1. i + 1 \in 1 .. Len(input) /\ input'[i] = input[i + 1]
      BY <1>2
    <3>2. input[i + 1] = IF Taken + (i + 1) =< Count THEN Taken + (i + 1) ELSE Break
      BY <3>1 DEF QueueInv
    <3>3. Taken + (i + 1) = Taken' + i
      BY <1>3, TakenTyped
    <3>. QED BY <3>1, <3>2, <3>3
  <2>. QED BY <2>1, <2>2
<1>5. Head(input) = IF Taken + 1 =< Count THEN Taken + 1 ELSE Break
  BY <1>2, TakenTyped DEF QueueInv
<1>6. \A i \in 1 .. Len(output) : output[i] \in Job /\ output[i] =< Taken
  BY ElementOfSeq DEF TInv, TypeOK, QueueInv
<1>7. CASE Head(input) = Break
  <2>1. Taken + 1 > Count
    BY <1>5, <1>7, TakenTyped, RunnerAssumption DEF QueueInv, Job, Taken
  <2>2. UNCHANGED job
    BY <1>7 DEF Get
  <2>3. Gone' = Gone
    BY <1>1, <1>3, <2>1, <2>2, TakenTyped DEF Gone, Handed, Returned, Job
  <2>4. \A v \in Worker : job'[v] # None => job'[v] =< Taken'
    BY <2>2, <1>3, TakenTyped DEF QueueInv, TInv, TypeOK, Job
  <2>5. \A i \in 1 .. Len(output') : output'[i] =< Taken' /\ ~ Handed(output[i])'
    BY <1>1, <1>3, <1>6, <2>2, TakenTyped DEF QueueInv, Handed, Job
  <2>. QED BY <1>1, <1>3, <1>4, <2>1, <2>2, <2>3, <2>4, <2>5, TakenTyped DEF QueueInv
<1>8. CASE Head(input) # Break
  <2>1. Taken + 1 =< Count /\ Head(input) = Taken + 1
    BY <1>5, <1>8
  <2>2. job' = [job EXCEPT ![w] = Taken + 1] /\ at' = [at EXCEPT ![w] = "check"]
    BY <1>8, <2>1 DEF Get
  <2>3. \A v \in Worker : job'[v] = IF v = w THEN Taken + 1 ELSE job[v]
    BY <2>2 DEF TInv, TypeOK
  <2>4. Taken + 1 # None
    BY <1>8, <1>1, <2>1, QueueTypes, RunnerAssumption DEF TInv
  <2>5. \A j \in Job : Handed(j)' <=> (Handed(j) \/ j = Taken + 1)
    BY <1>1, <2>3, RunnerAssumption DEF Handed
  <2>6. Gone' = Gone
    BY <1>1, <1>3, <2>5, TakenTyped DEF Gone, Returned, Job
  <2>7. ASSUME NEW v \in Worker, job'[v] # None PROVE job'[v] =< Taken'
    <3>1. CASE v = w
      BY <3>1, <1>3, <2>3, TakenTyped
    <3>2. CASE v # w
      <4>1. job'[v] = job[v] /\ job[v] \in Job /\ job[v] =< Taken
        BY <2>3, <2>7, <3>2 DEF QueueInv, TInv, TypeOK
      <4>. QED BY <4>1, <1>3, TakenTyped DEF Job
    <3>. QED BY <3>1, <3>2
  <2>8. \A u, v \in Worker : job'[u] = job'[v] /\ job'[u] # None => u = v
    <3>1. \A v \in Worker : job[v] # Taken + 1
      BY <2>4, TakenTyped DEF QueueInv
    <3>. QED BY <2>3, <3>1 DEF QueueInv
  <2>9. \A i \in 1 .. Len(output') : output'[i] =< Taken' /\ ~ Handed(output[i])'
    <3> SUFFICES ASSUME NEW i \in 1 .. Len(output)
                 PROVE  output[i] =< Taken' /\ ~ Handed(output[i])'
      BY <1>1
    <3>1. output[i] \in Job /\ output[i] =< Taken /\ ~ Handed(output[i])
      BY <1>6 DEF QueueInv
    <3>2. ~ Handed(output[i])'
      BY <3>1, <1>1, <2>3, TakenTyped DEF Handed, Job
    <3>. QED BY <3>1, <3>2, <1>3, TakenTyped DEF Job
  <2>10. ~ (\E v \in Worker : at'[v] = "exited")
    <3>1. ~ (\E v \in Worker : at[v] = "exited")
      BY <2>1, TakenTyped DEF QueueInv
    <3>. QED BY <3>1, <2>2 DEF TInv, TypeOK
  <2>. QED BY <1>1, <1>4, <2>6, <2>7, <2>8, <2>9, <2>10 DEF QueueInv
<1>. QED BY <1>7, <1>8

LEMMA PutBackQueues ==
  ASSUME TInv, QueueInv, NEW w \in Worker, at[w] \in {"check", "run"}, PutBack(w)
  PROVE  QueueInv' /\ Gone' = Gone
<1>1. /\ output' = Append(output, job[w]) /\ UNCHANGED <<queued, input>>
      /\ \A v \in Worker : job'[v] = IF v = w THEN None ELSE job[v]
      /\ \A v \in Worker : at'[v] = IF v = w THEN "get" ELSE at[v]
  BY DEF PutBack, TInv, TypeOK
<1>2. job[w] \in Job /\ job[w] # None
  BY DEF TInv, TypeOK, Held
<1>3. /\ Len(output') = Len(output) + 1 /\ Len(output) \in Nat
      /\ \A i \in 1 .. Len(output) : output'[i] = output[i] /\ output[i] \in Job
      /\ output'[Len(output) + 1] = job[w]
  BY <1>1, <1>2, AppendProperties, ElementOfSeq DEF TInv, TypeOK
<1>4. Taken' = Taken
  BY <1>1 DEF Taken
<1>5. \A j \in Job : Handed(j)' <=> (Handed(j) /\ j # job[w])
  BY <1>1, <1>2, RunnerAssumption DEF Handed, QueueInv
<1>6. \A j \in Job : Returned(j)' <=> (Returned(j) \/ j = job[w])
  <2> SUFFICES ASSUME NEW j \in Job
               PROVE  Returned(j)' <=> (Returned(j) \/ j = job[w])
    OBVIOUS
  <2>1. Returned(j)' <=> \E i \in 1 .. Len(output) + 1 : output'[i] = j
    BY <1>3 DEF Returned
  <2>. QED BY <2>1, <1>3 DEF Returned
<1>7. Handed(job[w]) /\ job[w] =< Taken
  BY <1>2 DEF Handed, QueueInv
<1>8. Gone' = Gone
  BY <1>2, <1>4, <1>5, <1>6, <1>7 DEF Gone
<1>9. \A i \in 1 .. Len(output') : output'[i] =< Taken' /\ ~ Handed(output[i])'
  <2> SUFFICES ASSUME NEW i \in 1 .. Len(output) + 1
               PROVE  output'[i] =< Taken /\ ~ Handed(output[i])'
    BY <1>3, <1>4
  <2>1. CASE i \in 1 .. Len(output)
    BY <2>1, <1>1, <1>2, <1>3, RunnerAssumption DEF QueueInv, Handed
  <2>2. CASE i = Len(output) + 1
    BY <2>2, <1>1, <1>2, <1>3, <1>7 DEF QueueInv, Handed
  <2>. QED BY <2>1, <2>2
<1>10. \A i, k \in 1 .. Len(output') : output'[i] = output'[k] => i = k
  <2>1. \A i \in 1 .. Len(output) : output[i] # job[w]
    BY <1>7 DEF QueueInv
  <2> SUFFICES ASSUME NEW i \in 1 .. Len(output) + 1, NEW k \in 1 .. Len(output) + 1,
                      output'[i] = output'[k]
               PROVE  i = k
    BY <1>3
  <2>2. CASE i \in 1 .. Len(output) /\ k \in 1 .. Len(output)
    BY <2>2, <1>3 DEF QueueInv
  <2>3. CASE i = Len(output) + 1 \/ k = Len(output) + 1
    BY <2>1, <2>3, <1>3
  <2>. QED BY <2>2, <2>3, <1>3
<1>11. /\ \A v \in Worker : job'[v] # None => job'[v] =< Taken'
       /\ \A u, v \in Worker : job'[u] = job'[v] /\ job'[u] # None => u = v
  BY <1>1, <1>4 DEF QueueInv
<1>12. (\E v \in Worker : at'[v] = "exited") => Taken' > Count
  BY <1>1, <1>4 DEF QueueInv
<1>. QED BY <1>1, <1>4, <1>8, <1>9, <1>10, <1>11, <1>12 DEF QueueInv

LEMMA CollectQueues ==
  ASSUME TInv, QueueInv, Collect
  PROVE  /\ QueueInv'
         /\ Head(output) \in Job \ Gone
         /\ Gone' = Gone \cup {Head(output)}
<1>1. /\ output # <<>> /\ output' = Tail(output)
      /\ UNCHANGED <<queued, input, job, at>>
  BY DEF Collect, workers
<1>2. /\ Len(output) \in Nat \ {0} /\ Len(output') = Len(output) - 1
      /\ \A i \in 1 .. Len(output') : output'[i] = output[i + 1]
      /\ Head(output) = output[1] /\ Head(output) \in Job
  BY <1>1, HeadTailProperties DEF TInv, TypeOK
<1>3. Taken' = Taken /\ \A j : Handed(j)' <=> Handed(j)
  BY <1>1 DEF Taken, Handed
<1>4. \A j \in Job : Returned(j) <=> Returned(j)' \/ j = Head(output)
  <2> SUFFICES ASSUME NEW j \in Job
               PROVE  Returned(j) <=> Returned(j)' \/ j = Head(output)
    OBVIOUS
  <2>1. ASSUME NEW i \in 1 .. Len(output), output[i] = j, i # 1 PROVE Returned(j)'
    <3>1. i - 1 \in 1 .. Len(output') /\ output'[i - 1] = j
      BY <1>2, <2>1
    <3>. QED BY <3>1 DEF Returned
  <2>2. ASSUME NEW i \in 1 .. Len(output'), output'[i] = j PROVE Returned(j)
    BY <1>2, <2>2 DEF Returned
  <2>. QED BY <1>2, <2>1, <2>2 DEF Returned
<1>5. \A j \in Job : j = Head(output) => ~ Returned(j)'
  <2> SUFFICES ASSUME NEW j \in Job, j = output[1], NEW i \in 1 .. Len(output'), output'[i] = j
               PROVE  FALSE
    BY <1>2 DEF Returned
  <2>1. i + 1 \in 1 .. Len(output) /\ output[i + 1] = output[1] /\ 1 \in 1 .. Len(output)
    BY <1>2
  <2>. QED BY <2>1 DEF QueueInv
<1>6. Returned(Head(output)) /\ Head(output) =< Taken /\ ~ Handed(Head(output))
  BY <1>2 DEF Returned, QueueInv
<1>7. Gone' = Gone \cup {Head(output)} /\ Head(output) \in Job \ Gone
  BY <1>2, <1>3, <1>4, <1>5, <1>6 DEF Gone
<1>8. QueueInv'
  <2>1. /\ \A i \in 1 .. Len(output') : output'[i] =< Taken' /\ ~ Handed(output[i])'
        /\ \A i, k \in 1 .. Len(output') : output'[i] = output'[k] => i = k
    BY <1>1, <1>2, <1>3 DEF QueueInv, Handed
  <2>. QED BY <1>1, <1>3, <2>1 DEF QueueInv
<1>. QED BY <1>7, <1>8
(* A step of the main thread or the signal handler other than Dispatch and    *)
(* Collect leaves the jobs where they are, and so does a worker that moves on *)
(* with the one it has.                                                       *)
LEMMA OtherQueues ==
  ASSUME TInv, QueueInv, UNCHANGED <<queued, input, output, job>>,
         \A w \in Worker : at'[w] = "exited" => at[w] = "exited"
  PROVE  QueueInv' /\ Gone' = Gone
<1>1. Taken' = Taken /\ Gone' = Gone
  BY DEF Taken, Gone, Handed, Returned
<1>. QED BY <1>1 DEF QueueInv, Handed

LEMMA OtherSteps ==
  ASSUME TInv, NEW w \in Worker, GoAhead(w) \/ Launch(w) \/ Die(w)
  PROVE  /\ UNCHANGED <<queued, input, output, job, collected, main, aborted, code, results>>
         /\ \A v \in Worker : at'[v] = "exited" => at[v] = "exited"
BY DEF GoAhead, Launch, Die, TInv, TypeOK

LEMMA QueueStep == TInv /\ QueueInv /\ [Next]_vars => QueueInv'
<1> SUFFICES ASSUME TInv, QueueInv, [Next]_vars PROVE QueueInv'
  OBVIOUS
<1>1. CASE Dispatched \/ Collected \/ Join \/ sigint_hook \/ UNCHANGED vars
  BY <1>1, OtherQueues DEF Dispatched, Collected, Join, sigint_hook, vars, workers
<1>2. ASSUME NEW w \in Worker, GiveUp(w) \/ HandBackSkipped(w) PROVE QueueInv'
  BY <1>2, PutBackQueues DEF GiveUp, HandBackSkipped
<1>3. ASSUME NEW w \in Worker, NEW c \in Code, FinishRun(w, c) PROVE QueueInv'
  BY <1>3, PutBackQueues DEF FinishRun
<1>4. ASSUME NEW w \in Worker, GoAhead(w) \/ Launch(w) \/ Die(w) PROVE QueueInv'
  BY <1>4, OtherQueues, OtherSteps
<1>. QED
  BY <1>1, <1>2, <1>3, <1>4, DispatchQueues, CollectQueues, GetQueues DEF Next, MainStep, Run

-----------------------------------------------------------------------------
(* What has been reported is what was dealt with, job by job.                 *)
ResultInv ==
  /\ \A j \in Job \ Gone : report[j] = None /\ xml[j] = <<>>
  /\ \A j \in Gone : report[j] = IF j \in aborted THEN None ELSE StatusOf(j)
  /\ collected = Cardinality(Gone)
  /\ main \in {"join", "done"} => collected = Count
  /\ main = "done" => (exit = 0 <=>
       Cardinality(Reported({"PASS"})) + Cardinality(Reported({"SKIP"})) = Count)

(* Nothing happens any more to a job that has been dealt with.                *)
LEMMA SettledResults ==
  ASSUME ResultInv, Gone' = Gone, UNCHANGED <<results, collected>>,
         \A j \in Gone : (j \in aborted' <=> j \in aborted) /\ code'[j] = code[j],
         main' \in {"join", "done"} => main = main'
  PROVE  ResultInv'
<1>1. \A j \in Gone : StatusOf(j)' = StatusOf(j)
  BY DEF StatusOf
<1>2. UNCHANGED <<report, xml, exit>>
  BY DEF results
<1>. QED BY <1>1, <1>2 DEF ResultInv, Reported

LEMMA PutBackResults ==
  ASSUME TInv, QueueInv, ResultInv, NEW w \in Worker,
         GiveUp(w) \/ HandBackSkipped(w) \/ \E c \in Code : FinishRun(w, c)
  PROVE  ResultInv'
<1>1. PutBack(w) /\ at[w] \in {"check", "run"}
  BY DEF GiveUp, HandBackSkipped, FinishRun
<1>2. job[w] \in Job /\ job[w] \notin Gone
  <2>1. job[w] # None
    BY <1>1 DEF TInv, Held
  <2>. QED BY <2>1 DEF TInv, TypeOK, Gone, Handed
<1>3. \A j \in Gone : (j \in aborted' <=> j \in aborted) /\ code'[j] = code[j]
  <2> SUFFICES ASSUME NEW j \in Gone
               PROVE  (j \in aborted' <=> j \in aborted) /\ code'[j] = code[j]
    OBVIOUS
  <2>1. j \in Job /\ j # job[w]
    BY <1>2 DEF Gone
  <2>2. CASE GiveUp(w) \/ HandBackSkipped(w)
    BY <2>1, <2>2 DEF GiveUp, HandBackSkipped
  <2>3. ASSUME NEW c \in Code, FinishRun(w, c)
        PROVE  (j \in aborted' <=> j \in aborted) /\ code'[j] = code[j]
    BY <2>1, <2>3 DEF FinishRun, TInv, TypeOK
  <2>. QED BY <2>2, <2>3
<1>4. UNCHANGED <<results, collected, main>>
  BY <1>1 DEF PutBack
<1>5. Gone' = Gone
  BY <1>1, PutBackQueues
<1>. QED BY <1>3, <1>4, <1>5, SettledResults

LEMMA GoneFinite == Count \in Nat => IsFiniteSet(Gone) /\ IsFiniteSet(Job) /\ Cardinality(Job) = Count
<1> SUFFICES ASSUME Count \in Nat PROVE IsFiniteSet(Gone) /\ IsFiniteSet(Job) /\ Cardinality(Job) = Count
  OBVIOUS
<1>1. IsFiniteSet(Job) /\ Cardinality(Job) = Count
  BY FS_Interval DEF Job
<1>. QED BY <1>1, FS_Subset DEF Gone

LEMMA CollectResults ==
  ASSUME TInv, QueueInv, ResultInv, Collect
  PROVE  ResultInv'
<1> DEFINE j == Head(output)
<1>1. j \in Job \ Gone /\ Gone' = Gone \cup {j}
  BY CollectQueues
<1>2. /\ collected' = collected + 1 /\ Report(j) /\ main' = "collect"
      /\ UNCHANGED <<aborted, code>>
  BY DEF Collect, workers
<1> HIDE DEF j
<1>3. Cardinality(Gone') = Cardinality(Gone) + 1
  BY <1>1, GoneFinite, FS_AddElement, RunnerAssumption
<1>4. \A i \in Job : StatusOf(i)' = StatusOf(i)
  BY <1>2 DEF StatusOf
<1>5. /\ report'[j] = IF j \in aborted THEN report[j] ELSE StatusOf(j)
      /\ \A i \in Job \ {j} : report'[i] = report[i] /\ xml'[i] = xml[i]
  BY <1>1, <1>2 DEF Report, TInv, TypeOK
<1>6. report[j] = None
  BY <1>1 DEF ResultInv
<1>7. \A i \in Job \ Gone' : report'[i] = None /\ xml'[i] = <<>>
  BY <1>1, <1>5 DEF ResultInv
<1>8. \A i \in Gone' : report'[i] = IF i \in aborted' THEN None ELSE StatusOf(i)'
  <2> SUFFICES ASSUME NEW i \in Gone'
               PROVE  report'[i] = IF i \in aborted THEN None ELSE StatusOf(i)
    BY <1>1, <1>2, <1>4 DEF Gone
  <2>1. CASE i = j
    BY <2>1, <1>5, <1>6
  <2>2. CASE i # j
    <3>1. i \in Gone /\ i \in Job
      BY <2>2, <1>1 DEF Gone
    <3>. QED BY <3>1, <2>2, <1>5 DEF ResultInv
  <2>. QED BY <2>1, <2>2
<1>. QED BY <1>2, <1>3, <1>7, <1>8 DEF ResultInv

LEMMA JoinResults ==
  ASSUME TInv, ResultInv, Join
  PROVE  ResultInv'
<1>1. /\ main = "join" /\ main' = "done"
      /\ UNCHANGED <<queued, input, output, collected, job, aborted, code, report, xml>>
  BY DEF Join, workers
<1>2. exit' = 0 <=> Cardinality(Reported({"PASS"})) + Cardinality(Reported({"SKIP"})) = Count
  BY DEF Join
<1>3. Gone' = Gone /\ \A j \in Job : StatusOf(j)' = StatusOf(j)
  BY <1>1 DEF Gone, Taken, Handed, Returned, StatusOf
<1>4. \A S : Reported(S)' = Reported(S)
  BY <1>1 DEF Reported
<1>5. Gone \subseteq Job
  BY DEF Gone
<1>. QED BY <1>1, <1>2, <1>3, <1>4, <1>5 DEF ResultInv

LEMMA ResultStep == TInv /\ QueueInv /\ ResultInv /\ [Next]_vars => ResultInv'
<1> SUFFICES ASSUME TInv, QueueInv, ResultInv, [Next]_vars PROVE ResultInv'
  OBVIOUS
<1>1. CASE Dispatch
  BY <1>1, DispatchQueues, SettledResults DEF Dispatch, workers
<1>2. CASE Dispatched \/ sigint_hook \/ UNCHANGED vars
  <2>1. UNCHANGED <<queued, input, output, collected, job, aborted, code, results, at>>
    BY <1>2 DEF Dispatched, sigint_hook, vars, workers
  <2>2. Gone' = Gone
    BY <2>1, OtherQueues
  <2>3. main' \in {"join", "done"} => main = main'
    BY <1>2 DEF Dispatched, sigint_hook, vars
  <2>. QED BY <2>1, <2>2, <2>3, SettledResults
<1>3. CASE Collected
  <2>1. /\ UNCHANGED <<queued, input, output, collected, job, aborted, code, report, xml, at>>
        /\ collected = Count /\ main' = "join"
    BY <1>3 DEF Collected, workers, results
  <2>2. Gone' = Gone
    BY <2>1, OtherQueues
  <2>3. \A j \in Gone : StatusOf(j)' = StatusOf(j)
    BY <2>1 DEF StatusOf
  <2>. QED BY <2>1, <2>2, <2>3 DEF ResultInv
<1>4. ASSUME NEW w \in Worker, Get(w) PROVE ResultInv'
  BY <1>4, GetQueues, SettledResults DEF Get
<1>5. ASSUME NEW w \in Worker, GoAhead(w) \/ Launch(w) \/ Die(w) PROVE ResultInv'
  BY <1>5, OtherQueues, OtherSteps, SettledResults
<1>. QED
  BY <1>1, <1>2, <1>3, <1>4, <1>5, CollectResults, JoinResults, PutBackResults
     DEF Next, MainStep, Run

IInv == TInv /\ QueueInv /\ ResultInv

LEMMA Inductive == Spec => []IInv
<1>1. Init => IInv
  <2> SUFFICES ASSUME Init PROVE IInv
    OBVIOUS
  <2>1. TInv
    BY InitTyped DEF TInv
  <2>2. /\ Len(input) = 0 /\ Len(output) = 0 /\ queued = 0
        /\ \A w \in Worker : job[w] = None /\ at[w] = "get"
    BY DEF Init
  <2>3. Taken = 0
    BY <2>2 DEF Taken
  <2>4. Gone = {}
    BY <2>3, TakenTyped, <2>1 DEF Gone, Job
  <2>5. QueueInv
    BY <2>2, <2>3 DEF QueueInv
  <2>6. ResultInv
    BY <2>4, FS_EmptySet DEF Init, ResultInv
  <2>. QED BY <2>1, <2>5, <2>6 DEF IInv
<1>2. IInv /\ [Next]_vars => IInv'
  BY TypeStep, QueueStep, ResultStep DEF IInv, TInv
<1>. QED BY <1>1, <1>2, PTL DEF Spec

-----------------------------------------------------------------------------
LEMMA Subsingleton ==
  ASSUME NEW S, IsFiniteSet(S), \A x, y \in S : x = y
  PROVE  Cardinality(S) = IF S = {} THEN 0 ELSE 1
<1>1. CASE S = {}
  BY <1>1, FS_EmptySet
<1>2. ASSUME NEW x \in S PROVE Cardinality(S) = 1
  <2>1. S = {x}
    BY <1>2
  <2>. QED BY <2>1, FS_Singleton
<1>. QED BY <1>1, <1>2

(* The places of a job, as numbers.                                           *)
LEMMA PlacesCounted ==
  ASSUME IInv, NEW j \in Job
  PROVE  Places(j) = IF (j > Taken /\ j =< queued) \/ Handed(j) \/ Returned(j) THEN 1 ELSE 0
<1> DEFINE I == {i \in DOMAIN input : input[i] = j}
           O == {i \in DOMAIN output : output[i] = j}
<1>1. /\ DOMAIN input = 1 .. Len(input) /\ DOMAIN output = 1 .. Len(output)
      /\ Len(input) \in Nat /\ Len(output) \in Nat
  BY DEF IInv, TInv, TypeOK
<1>2. IsFiniteSet(I) /\ IsFiniteSet(O)
  <2>1. I \in SUBSET (1 .. Len(input)) /\ O \in SUBSET (1 .. Len(output))
    BY <1>1
  <2>2. IsFiniteSet(1 .. Len(input)) /\ IsFiniteSet(1 .. Len(output))
    BY <1>1, FS_Interval
  <2>. QED BY <2>1, <2>2, FS_Subset
<1>3. IsFiniteSet(InHand(j))
  BY RunnerAssumption, FS_Subset DEF InHand
<1>4. j \in Int /\ j # Break /\ j # None /\ j =< Count /\ j >= 1
  BY RunnerAssumption DEF Job
<1>5. I = IF j > Taken /\ j =< queued THEN {j - Taken} ELSE {}
  <2>1. \A i \in 1 .. Len(input) : input[i] = j <=> Taken + i = j
    BY <1>4, TakenTyped DEF IInv, QueueInv
  <2>2. j > Taken /\ j =< queued <=> j - Taken \in 1 .. Len(input)
    BY <1>4, TakenTyped DEF IInv, Taken
  <2>3. \A i \in 1 .. Len(input) : Taken + i = j <=> i = j - Taken
    BY <1>4, TakenTyped DEF IInv
  <2>. QED BY <1>1, <2>1, <2>2, <2>3
<1>6. Cardinality(I) = IF j > Taken /\ j =< queued THEN 1 ELSE 0
  BY <1>5, FS_EmptySet, FS_Singleton
<1>7. \A v, w \in InHand(j) : v = w
  BY <1>4 DEF InHand, IInv, QueueInv
<1>8. Cardinality(InHand(j)) = IF Handed(j) THEN 1 ELSE 0
  <2>1. InHand(j) = {} <=> ~ Handed(j)
    BY DEF InHand, Handed
  <2>. QED BY <1>3, <1>7, <2>1, Subsingleton
<1>9. \A i, k \in O : i = k
  BY <1>1 DEF IInv, QueueInv
<1>10. Cardinality(O) = IF Returned(j) THEN 1 ELSE 0
  <2>1. O = {} <=> ~ Returned(j)
    BY <1>1 DEF Returned
  <2> HIDE DEF O
  <2>. QED BY <1>2, <1>9, <2>1, Subsingleton
<1>11. (Handed(j) => j =< Taken) /\ (Returned(j) => j =< Taken /\ ~ Handed(j))
  BY <1>4 DEF IInv, QueueInv, Handed, Returned
<1>12. Places(j) = Cardinality(I) + Cardinality(InHand(j)) + Cardinality(O)
  BY DEF Places
<1>13. Taken \in Int /\ queued \in Nat
  BY TakenTyped DEF IInv
<1> HIDE DEF I, O
<1>. QED BY <1>4, <1>6, <1>8, <1>10, <1>11, <1>12, <1>13

LEMMA Conserved == IInv => JobsConserved
<1> SUFFICES ASSUME IInv, NEW j \in Job
             PROVE  /\ Places(j) =< 1
                    /\ Places(j) = 1 => j =< queued /\ report[j] = None /\ xml[j] = <<>>
                    /\ j =< queued /\ Places(j) = 0 => report[j] # None \/ j \in aborted
                    /\ (\E w \in Worker : at[w] = "exited") => \A i \in DOMAIN input : input[i] = Break
  BY DEF JobsConserved
<1>1. /\ Taken \in Int /\ queued \in Nat /\ Len(input) \in Nat /\ Count \in Nat
      /\ Taken =< queued /\ j \in Int
  BY TakenTyped DEF IInv, Taken, Job
<1>2. Places(j) = 1 => j =< queued /\ j \notin Gone
  <2>1. (Handed(j) \/ Returned(j)) => j =< Taken
    BY RunnerAssumption DEF IInv, QueueInv, Handed, Returned
  <2>. QED BY <1>1, <2>1, PlacesCounted DEF Gone
<1>3. j =< queued /\ Places(j) = 0 => j \in Gone
  BY <1>1, PlacesCounted DEF Gone
<1>4. StatusOf(j) # None
  BY StatusTyped, RunnerAssumption DEF IInv, TInv
<1>5. (\E w \in Worker : at[w] = "exited") => \A i \in DOMAIN input : input[i] = Break
  <2> SUFFICES ASSUME Taken > Count, NEW i \in 1 .. Len(input) PROVE input[i] = Break
    BY DEF IInv, QueueInv, TInv, TypeOK
  <2>. QED BY <1>1 DEF IInv, QueueInv
<1>. QED BY <1>2, <1>3, <1>4, <1>5, PlacesCounted DEF IInv, ResultInv

(* No job is lost, run twice or reported twice, and no worker exits before    *)
(* the last job is taken, however the workers interleave with the main        *)
(* thread, an interrupt and each other's deaths.                              *)
THEOREM EveryJobConserved == Spec => []JobsConserved
BY Inductive, Conserved, PTL

LEMMA Honest == IInv => ExitCodeHonest
<1> SUFFICES ASSUME IInv, main = "done"
             PROVE  exit = 0 <=> \A j \in Job : j \notin aborted /\ (j \in Skip \/ code[j] = 0)
  BY DEF ExitCodeHonest
<1> DEFINE P == Reported({"PASS"})
           K == Reported({"SKIP"})
<1>1. IsFiniteSet(Job) /\ Cardinality(Job) = Count /\ Count \in Nat
  BY GoneFinite, RunnerAssumption
<1>2. Gone = Job
  <2>1. Cardinality(Gone) = Cardinality(Job)
    BY <1>1 DEF IInv, ResultInv
  <2>2. Gone \in SUBSET Job
    BY DEF Gone
  <2>. QED BY <1>1, <2>1, <2>2, FS_Subset
<1>3. P \subseteq Job /\ K \subseteq Job /\ P \cap K = {}
  BY DEF Reported
<1>4. IsFiniteSet(P) /\ IsFiniteSet(K) /\ IsFiniteSet(P \cup K)
  <2>1. P \in SUBSET Job /\ K \in SUBSET Job /\ P \cup K \in SUBSET Job
    BY <1>3
  <2>. QED BY <1>1, <2>1, FS_Subset
<1>5. Cardinality(P) + Cardinality(K) = Cardinality(P \cup K)
  <2>1. Cardinality(P \cup K) = Cardinality(P) + Cardinality(K) - Cardinality(P \cap K)
    BY <1>4, FS_Union
  <2>2. Cardinality(P \cap K) = 0
    BY <1>3, FS_EmptySet
  <2>3. Cardinality(P) \in Nat /\ Cardinality(K) \in Nat
    BY <1>4, FS_CardinalityType
  <2>. QED BY <2>1, <2>2, <2>3
<1>6. Cardinality(P \cup K) = Count <=> P \cup K = Job
  <2>1. P \cup K \in SUBSET Job
    BY <1>3
  <2>. QED BY <1>1, <2>1, FS_Subset
<1>7. P \cup K = Job <=> \A j \in Job : report[j] \in {"PASS", "SKIP"}
  BY DEF Reported
<1>8. \A j \in Job : report[j] \in {"PASS", "SKIP"} <=> j \notin aborted /\ (j \in Skip \/ code[j] = 0)
  <2> SUFFICES ASSUME NEW j \in Job
               PROVE  report[j] \in {"PASS", "SKIP"} <=> j \notin aborted /\ (j \in Skip \/ code[j] = 0)
    OBVIOUS
  <2>1. report[j] = IF j \in aborted THEN None ELSE StatusOf(j)
    BY <1>2 DEF IInv, ResultInv
  <2>2. None \notin {"PASS", "SKIP"}
    BY RunnerAssumption DEF Status
  <2>3. StatusOf(j) \in {"PASS", "SKIP"} <=> j \in Skip \/ code[j] = 0
    BY DEF StatusOf
  <2>. QED BY <2>1, <2>2, <2>3
<1>9. exit = 0 <=> Cardinality(P) + Cardinality(K) = Count
  BY DEF IInv, ResultInv
<1>. QED BY <1>5, <1>6, <1>7, <1>8, <1>9

(* The exit code is 0 exactly when every job was skipped or ran with return   *)
(* code 0 and none was given up.                                              *)
THEOREM ExitCodeIsHonest == Spec => []ExitCodeHonest
BY Inductive, Honest, PTL
=============================================================================
