----------------------------- MODULE TestRunner -----------------------------
(***************************************************************************)
(* test.py, the regression runner of the simulator: run_tests in the main   *)
(* thread dispatches the suites and examples to one worker_thread per       *)
(* processor over an input queue, then one break job per worker, collects   *)
(* as many jobs as it dispatched from the output queue, writes the results  *)
(* and joins the workers.  An interrupt only sets thread_exit; the workers  *)
(* then hand their jobs back unrun.                                         *)
(***************************************************************************)
EXTENDS Integers, Sequences, FiniteSets

CONSTANTS
  Worker,     \* the worker threads, one per processor
  Count,      \* jobs: the tests and examples queued, in this order
  Example,    \* the jobs that are examples; the others are test suites
  Skip,       \* the jobs queued with is_skip
  MaxDead,    \* bound: workers that die of an exception in run_job_synchronously
  Break,      \* a job with nothing to do, is_break set
  None        \* no job, no report

Job == 1 .. Count
Code == {0, 1, 2, 139}    \* passed, failed, valgrind error, anything else
Status == {"PASS", "FAIL", "VALGR", "CRASH", "SKIP"}

ASSUME RunnerAssumption ==
  /\ IsFiniteSet(Worker) /\ Worker # {}
  /\ Count \in Nat /\ MaxDead \in Nat
  /\ Example \subseteq Job /\ Skip \subseteq Job
  /\ Break \notin Job /\ None \notin Job /\ None \notin Code /\ None \notin Status

VARIABLES
  main,        \* where run_tests is: dispatch, collect, join, done
  queued,      \* jobs and break jobs put on input_queue so far
  input,       \* input_queue
  output,      \* output_queue
  collected,   \* jobs the main thread has taken from it
  at,          \* where each worker is
  job,         \* the job it has in hand
  thread_exit, \* set by sigint_hook
  aborted,     \* the jobs a worker has set is_break on
  code,        \* job.returncode; None for its initial False, which only an
               \* aborted job still has when it is collected
  report,      \* the status printed and counted for a job
  xml,         \* the entries written for it to the results file
  exit,        \* the value run_tests returns
  late         \* launches of a worker since thread_exit was set

workers == <<at, job, aborted, code, late>>
results == <<report, xml, exit>>
vars == <<main, queued, input, output, collected, workers, thread_exit, results>>

Init ==
  /\ main = "dispatch"
  /\ queued = 0
  /\ input = <<>> /\ output = <<>>
  /\ collected = 0
  /\ at = [w \in Worker |-> "get"]
  /\ job = [w \in Worker |-> None]
  /\ thread_exit = FALSE
  /\ aborted = {}
  /\ code = [j \in Job |-> None]
  /\ report = [j \in Job |-> None]
  /\ xml = [j \in Job |-> <<>>]
  /\ exit = None
  /\ late = [w \in Worker |-> 0]

-----------------------------------------------------------------------------
(* The worker thread *)

Get(w) ==
  /\ at[w] = "get"
  /\ input # <<>>
  /\ input' = Tail(input)
  /\ IF Head(input) = Break
       THEN at' = [at EXCEPT ![w] = "exited"] /\ UNCHANGED job
       ELSE at' = [at EXCEPT ![w] = "check"] /\ job' = [job EXCEPT ![w] = Head(input)]
  /\ UNCHANGED <<main, queued, output, collected, thread_exit, aborted, code, late, results>>

(* Whatever becomes of it, the job goes back to the main thread.           *)
PutBack(w) ==
  /\ output' = Append(output, job[w])
  /\ at' = [at EXCEPT ![w] = "get"]
  /\ job' = [job EXCEPT ![w] = None]
  /\ UNCHANGED <<main, queued, input, collected, thread_exit, late, results>>

GiveUpAndRun(w) ==                                     \* deviation: no continue
  /\ at[w] = "check"
  /\ thread_exit
  /\ aborted' = aborted \cup {job[w]}
  /\ output' = Append(output, job[w])
  /\ at' = [at EXCEPT ![w] = "launch"]
  /\ UNCHANGED <<main, queued, input, collected, job, code, late, thread_exit, results>>

GiveUp(w) ==
  /\ at[w] = "check"
  /\ thread_exit
  /\ aborted' = aborted \cup {job[w]}
  /\ PutBack(w)
  /\ UNCHANGED code

HandBackSkipped(w) ==
  /\ at[w] = "check"
  /\ ~ thread_exit /\ job[w] \in Skip
  /\ PutBack(w)
  /\ UNCHANGED <<aborted, code>>

(* thread_exit was still FALSE when it was read.                           *)
GoAheadAnyway(w) ==                                    \* deviation: thread_exit is not read
  /\ at[w] = "check"
  /\ job[w] \notin Skip
  /\ at' = [at EXCEPT ![w] = "launch"]
  /\ UNCHANGED <<main, queued, input, output, collected, job, aborted, code, late, thread_exit, results>>

GoAhead(w) ==
  /\ at[w] = "check"
  /\ ~ thread_exit /\ job[w] \notin Skip
  /\ at' = [at EXCEPT ![w] = "launch"]
  /\ UNCHANGED <<main, queued, input, output, collected, job, aborted, code, late, thread_exit, results>>

Launch(w) ==
  /\ at[w] = "launch"
  /\ at' = [at EXCEPT ![w] = "run"]
  /\ late' = IF thread_exit THEN [late EXCEPT ![w] = @ + 1] ELSE late
  /\ UNCHANGED <<main, queued, input, output, collected, job, aborted, code, thread_exit, results>>

FinishRun(w, c) ==
  /\ at[w] = "run"
  /\ code' = [code EXCEPT ![job[w]] = c]
  /\ PutBack(w)
  /\ UNCHANGED aborted

(* subprocess.Popen raises in the worker: the thread ends with its job.    *)
Dead == {w \in Worker : at[w] = "dead"}

Die(w) ==
  /\ at[w] = "launch"
  /\ Cardinality(Dead) < MaxDead
  /\ at' = [at EXCEPT ![w] = "dead"]
  /\ UNCHANGED <<main, queued, input, output, collected, job, aborted, code, late, thread_exit, results>>

-----------------------------------------------------------------------------
(* The main thread *)

DispatchOneMore ==                                     \* deviation: one break job too many
  /\ main = "dispatch"
  /\ queued =< Count + Cardinality(Worker)
  /\ queued' = queued + 1
  /\ input' = Append(input, IF queued < Count THEN queued + 1 ELSE Break)
  /\ UNCHANGED <<main, output, collected, workers, thread_exit, results>>

Dispatch ==
  /\ main = "dispatch"
  /\ queued < Count + Cardinality(Worker)
  /\ queued' = queued + 1
  /\ input' = Append(input, IF queued < Count THEN queued + 1 ELSE Break)
  /\ UNCHANGED <<main, output, collected, workers, thread_exit, results>>

Dispatched ==
  /\ main = "dispatch"
  /\ queued = Count + Cardinality(Worker)
  /\ main' = "collect"
  /\ UNCHANGED <<queued, input, output, collected, workers, thread_exit, results>>

StatusOf(j) ==
  CASE j \in Skip -> "SKIP"
    [] j \notin Skip /\ code[j] = 0 -> "PASS"
    [] j \notin Skip /\ code[j] = 1 -> "FAIL"
    [] j \notin Skip /\ code[j] = 2 -> "VALGR"
    [] OTHER -> "CRASH"

(* An example gets an entry with its status.  A suite that ran to its end  *)
(* wrote its own, of which only the verdict matters here; it is copied (a  *)
(* suite that left no file is not followed: open raises in run_tests).     *)
(* The entry for a valgrind error comes after the one for a crash, in the  *)
(* branch for the other return codes.                                      *)
Own(j) == IF code[j] = 1 THEN "FAIL" ELSE "PASS"
Entries(j) ==
  CASE j \in Example \cup Skip -> <<StatusOf(j)>>
    [] j \notin Example \cup Skip /\ code[j] \in {0, 1, 2} -> <<Own(j)>>
    [] OTHER -> <<"CRASH">> \o (IF code[j] = 2 THEN <<"VALGR">> ELSE <<>>)

ReportAll(j) ==                                        \* deviation: is_break is not asked
  /\ report' = [report EXCEPT ![j] = StatusOf(j)]
  /\ xml' = [xml EXCEPT ![j] = @ \o Entries(j)]

Report(j) ==
  IF j \in aborted THEN UNCHANGED <<report, xml>>
  ELSE /\ report' = [report EXCEPT ![j] = StatusOf(j)]
       /\ xml' = [xml EXCEPT ![j] = @ \o Entries(j)]

CollectUncounted ==                                    \* deviation: until Count real results
  /\ main = "collect"
  /\ collected < Count
  /\ output # <<>>
  /\ output' = Tail(output)
  /\ collected' = IF Head(output) \in aborted THEN collected ELSE collected + 1
  /\ Report(Head(output))
  /\ UNCHANGED <<main, queued, input, workers, thread_exit, exit>>

Collect ==
  /\ main = "collect"
  /\ collected < Count
  /\ output # <<>>
  /\ output' = Tail(output)
  /\ collected' = collected + 1
  /\ Report(Head(output))
  /\ UNCHANGED <<main, queued, input, workers, thread_exit, exit>>

Collected ==
  /\ main = "collect"
  /\ collected = Count
  /\ main' = "join"
  /\ UNCHANGED <<queued, input, output, collected, workers, thread_exit, results>>

(* All threads have ended, of a break job or of an exception.              *)
Reported(S) == {j \in Job : report[j] \in S}

Join ==
  /\ main = "join"
  /\ \A w \in Worker : at[w] \in {"exited", "dead"}
  /\ main' = "done"
  /\ exit' = IF Cardinality(Reported({"PASS"})) + Cardinality(Reported({"SKIP"})) = Count
               THEN 0 ELSE 1
  /\ UNCHANGED <<queued, input, output, collected, workers, thread_exit, report, xml>>

(* The signal handler runs in the main thread, which a get on an empty     *)
(* queue or a join of a live thread keeps from running it.                 *)
Blocked == \/ main = "collect" /\ collected < Count /\ output = <<>>
           \/ main = "join" /\ \E w \in Worker : at[w] \notin {"exited", "dead"}

sigint_hook ==
  /\ main # "done" /\ ~ Blocked
  /\ thread_exit' = TRUE
  /\ UNCHANGED <<main, queued, input, output, collected, workers, results>>

MainStep == Dispatch \/ Dispatched \/ Collect \/ Collected \/ Join
Run(w) == \/ Get(w) \/ GiveUp(w) \/ HandBackSkipped(w) \/ GoAhead(w) \/ Launch(w)
          \/ \E c \in Code : FinishRun(w, c)

Next ==
  \/ MainStep \/ sigint_hook
  \/ \E w \in Worker : Run(w) \/ Die(w)

Spec == Init /\ [][Next]_vars

(* Every thread that can run does, and every test program ends.            *)
Fairness == WF_vars(MainStep) /\ \A w \in Worker : WF_vars(Run(w))

FairSpec == Spec /\ Fairness

-----------------------------------------------------------------------------
TypeOK ==
  /\ main \in {"dispatch", "collect", "join", "done"}
  /\ queued \in 0 .. Count + Cardinality(Worker)
  /\ input \in Seq(Job \cup {Break}) /\ output \in Seq(Job)
  /\ collected \in 0 .. Count
  /\ at \in [Worker -> {"get", "check", "launch", "run", "dead", "exited"}]
  /\ job \in [Worker -> Job \cup {None}]
  /\ thread_exit \in BOOLEAN
  /\ aborted \subseteq Job
  /\ code \in [Job -> Code \cup {None}]
  /\ report \in [Job -> Status \cup {None}]
  /\ xml \in [Job -> Seq(Status)]
  /\ exit \in {0, 1, None}
  /\ late \in [Worker -> Nat]

(* A job is in one place: queued, in a worker's hands or on its way back;   *)
(* none is run or reported twice, however the workers interleave, and the   *)
(* break jobs come after every other.                                       *)
InHand(j) == {w \in Worker : job[w] = j}
Places(j) ==
  Cardinality({i \in DOMAIN input : input[i] = j})
  + Cardinality(InHand(j))
  + Cardinality({i \in DOMAIN output : output[i] = j})

JobsConserved ==
  \A j \in Job :
    /\ Places(j) =< 1
    /\ Places(j) = 1 => j =< queued /\ report[j] = None /\ xml[j] = <<>>
    /\ j =< queued /\ Places(j) = 0 => report[j] # None \/ j \in aborted
    /\ (\E w \in Worker : at[w] = "exited") => \A i \in DOMAIN input : input[i] = Break

(* After an interrupt a worker starts at most the one job it had already    *)
(* decided to run.                                                          *)
AtMostOneLate == \A w \in Worker : late[w] =< 1

(* The exit code is honest: success means that every job was either skipped *)
(* or run with return code 0, and an interrupted run that gave up a job is  *)
(* never a success.                                                         *)
ExitCodeHonest ==
  main = "done" => (exit = 0 <=> \A j \in Job : j \notin aborted /\ (j \in Skip \/ code[j] = 0))

(* The runner always ends, interrupted or not, unless a worker died: then   *)
(* its job never comes back and the main thread waits for it for ever.      *)
Ends == <>(main = "done" \/ Dead # {})

(* What test.py says of the results file: a suite with a valgrind error has *)
(* its own entry "followed by a VALGR failing test suite of the same name". *)
ValgrindErrorsListed ==
  \A j \in Job \ (Example \cup Skip) :
    report[j] = "VALGR" => \E i \in DOMAIN xml[j] : xml[j][i] = "VALGR"
=============================================================================
