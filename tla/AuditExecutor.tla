---------------------------- MODULE AuditExecutor ----------------------------
(***************************************************************************)
(* BoundedAuditExecutor._run (data/t25_bounded_executor.py): a process     *)
(* takes the global lock file, runs a plan of HTTP requests in worker      *)
(* processes and reports on them.  Several executors may be started.       *)
(*                                                                         *)
(* The loop reads the clock into a local (seen) and acts on it later; time *)
(* and workers go on between any two of its steps.  What a worker answers  *)
(* is abstracted to whether _validate_response and the checks around it    *)
(* accept it; error codes are abstracted to whether one is set.            *)
(***************************************************************************)
EXTENDS AuditPlan

CONSTANTS Executor,     \* processes that call _run
          Plan,         \* the plan they run
          Deadline,     \* deadline of the batch
          MaxClock,     \* bound of the model: the clock stops there
          SubmitFails,  \* whether pool.submit may raise
          NoExecutor, NoJob

ASSUME ExecutorAssumption ==
  /\ Plan \in [deps : [Job -> SUBSET Job], host : [Job -> Host], release : [Job -> Int]]
  /\ ValidPlan(Plan)
  /\ Deadline \in Nat /\ MaxClock \in Nat
  /\ SubmitFails \in BOOLEAN
  /\ NoExecutor \notin Executor /\ NoJob \notin Job

VARIABLES clock,
          lock,       \* the lock file: the executor that created it, or none
          worker,     \* [Executor -> [Job -> the state of its worker process]]
          pc,
          seen,       \* local now
          pending, running, completed,
          reported,   \* local results: jobs with a row, and whether it is ok
          failure,    \* local failure: whether a reason is set
          timedOut,   \* jobs whose row has REQUEST_DEADLINE_EXCEEDED
          started, lastHost,
          todo,       \* what is left to visit of list(running) or list(pending)
          spawned     \* the job whose process has started but is not in running

locals == <<pc, seen, pending, running, completed, reported, failure, timedOut,
            started, lastHost, todo, spawned>>
vars   == <<clock, lock, worker, locals>>

Looping == {"loop", "poll", "scan", "spawned", "launched"}
Holding == Looping \union {"cleanup", "unlink", "raise", "unlink_raise"}
Ended   == {"refused", "done", "raised", "dead"}

Init == /\ clock = 0
        /\ lock = NoExecutor
        /\ worker = [e \in Executor |-> [j \in Job |-> "none"]]
        /\ pc = [e \in Executor |-> "idle"]
        /\ seen = [e \in Executor |-> 0]
        /\ pending = [e \in Executor |-> Job]
        /\ running = [e \in Executor |-> {}]
        /\ completed = [e \in Executor |-> {}]
        /\ reported = [e \in Executor |-> [j \in Job |-> "none"]]
        /\ failure = [e \in Executor |-> FALSE]
        /\ timedOut = [e \in Executor |-> {}]
        /\ started = [e \in Executor |-> [j \in Job |-> Never]]
        /\ lastHost = [e \in Executor |-> [h \in Host |-> Never]]
        /\ todo = [e \in Executor |-> {}]
        /\ spawned = [e \in Executor |-> NoJob]

Goto(e, label) == pc' = [pc EXCEPT ![e] = label]
Fail(e) == failure' = [failure EXCEPT ![e] = TRUE]

\* future.done(): the process has ended and its pipes are drained.
Drained(e, j) == worker[e][j] \in {"answered", "failed"}
-----------------------------------------------------------------------------
(* Start.                                                                  *)

\* The whole batch does not fit any more: no lock is taken.
Begin(e) == /\ pc[e] = "idle"
            /\ Goto(e, IF Deadline - clock < RequiredDispatchBudget THEN "refused" ELSE "lock")
            /\ UNCHANGED <<clock, lock, worker, seen, pending, running, completed, reported,
                           failure, timedOut, started, lastHost, todo, spawned>>

\* os.open with O_CREAT | O_EXCL
TakeLock(e) == /\ pc[e] = "lock"
               /\ IF lock = NoExecutor THEN lock' = e /\ Goto(e, "loop")
                                       ELSE Goto(e, "refused") /\ UNCHANGED lock
               /\ UNCHANGED <<clock, worker, seen, pending, running, completed, reported,
                              failure, timedOut, started, lastHost, todo, spawned>>
-----------------------------------------------------------------------------
(* One iteration of the loop: poll the workers, then scan the pending jobs.*)

\* Mutant: the deadline of the batch is not looked at.
IterateOn(e) ==
  /\ pc[e] = "loop"
  /\ pending[e] \union running[e] # {}
  /\ seen' = [seen EXCEPT ![e] = clock]
  /\ todo' = [todo EXCEPT ![e] = running[e]]
  /\ Goto(e, "poll")
  /\ UNCHANGED <<clock, lock, worker, pending, running, completed, reported, failure, timedOut,
                 started, lastHost, spawned>>

Iterate(e) ==
  /\ pc[e] = "loop"
  /\ pending[e] \union running[e] # {}
  /\ seen' = [seen EXCEPT ![e] = clock]
  /\ failure' = [failure EXCEPT ![e] = @ \/ clock >= Deadline - FREEZE]
  /\ todo' = [todo EXCEPT ![e] = running[e]]
  /\ Goto(e, "poll")
  /\ UNCHANGED <<clock, lock, worker, pending, running, completed, reported, timedOut,
                 started, lastHost, spawned>>

Overdue(e, j) == seen[e] - started[e][j] >= REQUEST

\* The worker may still answer between future.done() and the kill.
TimeOut(e, j) ==
  /\ pc[e] = "poll" /\ j \in todo[e] \ timedOut[e]
  /\ ~Drained(e, j) /\ Overdue(e, j)
  /\ timedOut' = [timedOut EXCEPT ![e] = @ \union {j}]
  /\ \E end \in {"answered", "failed", "killed"} : worker' = [worker EXCEPT ![e][j] = end]
  /\ Fail(e)
  /\ UNCHANGED <<clock, lock, pc, seen, pending, running, completed, reported, started,
                 lastHost, todo, spawned>>

PassOver(e, j) ==
  /\ pc[e] = "poll" /\ j \in todo[e]
  /\ ~Drained(e, j) /\ (Overdue(e, j) => j \in timedOut[e])
  /\ todo' = [todo EXCEPT ![e] = @ \ {j}]
  /\ UNCHANGED <<clock, lock, worker, pc, seen, pending, running, completed, reported,
                 failure, timedOut, started, lastHost, spawned>>

\* What the worker wrote passes _validate_response and the checks around it.
ResponseValid(e, j) == worker[e][j] = "answered"

\* Mutant: a row already marked as timed out is accepted.
AcceptedLate(e, j) == ResponseValid(e, j) /\ clock - started[e][j] <= REQUEST

Accepted(e, j) == /\ ResponseValid(e, j)
                  /\ clock - started[e][j] <= REQUEST
                  /\ j \notin timedOut[e]

Harvest(e, j) ==
  /\ pc[e] = "poll" /\ j \in todo[e] /\ Drained(e, j)
  /\ reported' = [reported EXCEPT ![e][j] = IF Accepted(e, j) THEN "ok" ELSE "failed"]
  /\ IF Accepted(e, j)
       THEN completed' = [completed EXCEPT ![e] = @ \union {j}] /\ UNCHANGED failure
       ELSE Fail(e) /\ UNCHANGED completed
  /\ running' = [running EXCEPT ![e] = @ \ {j}]
  /\ todo' = [todo EXCEPT ![e] = @ \ {j}]
  /\ UNCHANGED <<clock, lock, worker, pc, seen, pending, timedOut, started, lastHost, spawned>>

\* A failure ends the batch: what still runs is killed and reaped.
Cancel(e) ==
  /\ pc[e] = "poll" /\ todo[e] = {} /\ failure[e]
  /\ worker' = [worker EXCEPT ![e] = [j \in Job |-> IF j \in running[e] THEN "failed" ELSE @[j]]]
  /\ reported' = [reported EXCEPT ![e] = [j \in Job |-> IF j \in running[e] THEN "failed" ELSE @[j]]]
  /\ running' = [running EXCEPT ![e] = {}]
  /\ Goto(e, "cleanup")
  /\ UNCHANGED <<clock, lock, seen, pending, completed, failure, timedOut, started, lastHost,
                 todo, spawned>>

Polled(e) ==
  /\ pc[e] = "poll" /\ todo[e] = {} /\ ~failure[e]
  /\ seen' = [seen EXCEPT ![e] = clock]
  /\ todo' = [todo EXCEPT ![e] = pending[e]]
  /\ Goto(e, "scan")
  /\ UNCHANGED <<clock, lock, worker, pending, running, completed, reported, failure,
                 timedOut, started, lastHost, spawned>>

\* The jobs of the rest of the scan that it would not pass over.
Offers(e) == {j \in todo[e] : Dispatchable(Plan, j, seen[e], completed[e], lastHost[e])}

ScanGoesOn(e) == Cardinality(running[e]) < MAX_WORKERS /\ Offers(e) # {}

ScanEnds(e) ==
  /\ pc[e] = "scan" /\ ~ScanGoesOn(e)
  /\ Goto(e, "loop")
  /\ UNCHANGED <<clock, lock, worker, seen, pending, running, completed, reported, failure,
                 timedOut, started, lastHost, todo, spawned>>

OutOfBudget(e) ==
  /\ pc[e] = "scan" /\ ScanGoesOn(e)
  /\ Deadline - seen[e] < RequiredDispatchBudget
  /\ Fail(e)
  /\ Goto(e, "loop")
  /\ UNCHANGED <<clock, lock, worker, seen, pending, running, completed, reported, timedOut,
                 started, lastHost, todo, spawned>>

\* Mutant: the host's last start is the time the scan read before it.
AdmittedAsSeen(e, j) ==
  /\ pc[e] = "scan" /\ ScanGoesOn(e) /\ j \in Least(Offers(e))
  /\ Deadline - seen[e] >= RequiredDispatchBudget
  /\ started' = [started EXCEPT ![e][j] = clock]
  /\ lastHost' = [lastHost EXCEPT ![e][Plan.host[j]] = seen[e]]

Admitted(e, j) ==
  /\ pc[e] = "scan" /\ ScanGoesOn(e) /\ j \in Least(Offers(e))
  /\ Deadline - seen[e] >= RequiredDispatchBudget
  /\ started' = [started EXCEPT ![e][j] = clock]
  /\ lastHost' = [lastHost EXCEPT ![e][Plan.host[j]] = clock]

Spawn(e, j) ==
  /\ Admitted(e, j)
  /\ worker' = [worker EXCEPT ![e][j] = "alive"]
  /\ spawned' = [spawned EXCEPT ![e] = j]
  /\ Goto(e, "spawned")
  /\ UNCHANGED <<clock, lock, seen, pending, running, completed, reported, failure, timedOut, todo>>

SpawnFails(e, j) ==
  /\ Admitted(e, j)
  /\ reported' = [reported EXCEPT ![e][j] = "failed"]
  /\ pending' = [pending EXCEPT ![e] = @ \ {j}]
  /\ Fail(e)
  /\ Goto(e, "loop")
  /\ UNCHANGED <<clock, lock, worker, seen, running, completed, timedOut, todo, spawned>>

\* pool.submit succeeded: the process is entered in running.
Register(e) ==
  /\ pc[e] = "spawned"
  /\ running' = [running EXCEPT ![e] = @ \union {spawned[e]}]
  /\ pending' = [pending EXCEPT ![e] = @ \ {spawned[e]}]
  /\ todo' = [todo EXCEPT ![e] = {j \in @ : j > spawned[e]}]
  /\ spawned' = [spawned EXCEPT ![e] = NoJob]
  /\ Goto(e, "launched")
  /\ UNCHANGED <<clock, lock, worker, seen, completed, reported, failure, timedOut, started, lastHost>>

Reread(e) ==
  /\ pc[e] = "launched"
  /\ seen' = [seen EXCEPT ![e] = clock]
  /\ Goto(e, "scan")
  /\ UNCHANGED <<clock, lock, worker, pending, running, completed, reported, failure,
                 timedOut, started, lastHost, todo, spawned>>
-----------------------------------------------------------------------------
(* The end.                                                                *)

LoopEnds(e) ==
  /\ pc[e] = "loop" /\ pending[e] \union running[e] = {}
  /\ Goto(e, "cleanup")
  /\ UNCHANGED <<clock, lock, worker, seen, pending, running, completed, reported, failure,
                 timedOut, started, lastHost, todo, spawned>>

\* An exception leaves the loop: an interrupt, a response of an unexpected
\* shape, a pool that has no thread for the worker just started.
Interrupt(e) ==
  /\ pc[e] \in Looping /\ (pc[e] = "spawned" => SubmitFails)
  /\ Goto(e, "raise")
  /\ UNCHANGED <<clock, lock, worker, seen, pending, running, completed, reported, failure,
                 timedOut, started, lastHost, todo, spawned>>

\* Mutant: finally only removes the lock.
CleanUpNothing(e) ==
  /\ pc[e] \in {"cleanup", "raise"}
  /\ Goto(e, IF pc[e] = "raise" THEN "unlink_raise" ELSE "unlink")
  /\ UNCHANGED <<clock, lock, worker, seen, pending, running, completed, reported, failure,
                 timedOut, started, lastHost, todo, spawned>>

\* finally: end and reap what is in running
CleanUp(e) ==
  /\ pc[e] \in {"cleanup", "raise"}
  /\ worker' = [worker EXCEPT ![e] = [j \in Job |-> IF j \in running[e] THEN "failed" ELSE @[j]]]
  /\ Goto(e, IF pc[e] = "raise" THEN "unlink_raise" ELSE "unlink")
  /\ UNCHANGED <<clock, lock, seen, pending, running, completed, reported, failure,
                 timedOut, started, lastHost, todo, spawned>>

\* finally: remove the lock file, then report or let the exception go on
Unlink(e) ==
  /\ pc[e] \in {"unlink", "unlink_raise"}
  /\ lock' = NoExecutor
  /\ Goto(e, IF pc[e] = "unlink" THEN "done" ELSE "raised")
  /\ UNCHANGED <<clock, worker, seen, pending, running, completed, reported, failure,
                 timedOut, started, lastHost, todo, spawned>>
-----------------------------------------------------------------------------
(* The environment.                                                        *)

Tick == /\ clock < MaxClock
        /\ clock' = clock + 1
        /\ UNCHANGED <<lock, worker, locals>>

\* A worker process answers, ends without an answer, or a killed one's
\* pipes are drained.
WorkerEnds(e, j) ==
  /\ worker[e][j] \in {"alive", "killed"}
  /\ \E end \in IF worker[e][j] = "alive" THEN {"answered", "failed"} ELSE {"failed"} :
       worker' = [worker EXCEPT ![e][j] = end]
  /\ UNCHANGED <<clock, lock, locals>>

\* The executor dies: its lock file and its workers stay.
Crash(e) == /\ pc[e] \notin Ended \union {"idle"}
            /\ Goto(e, "dead")
            /\ UNCHANGED <<clock, lock, worker, seen, pending, running, completed, reported,
                           failure, timedOut, started, lastHost, todo, spawned>>
-----------------------------------------------------------------------------
Step(e) == \/ Begin(e) \/ TakeLock(e) \/ Iterate(e) \/ Cancel(e) \/ Polled(e)
           \/ \E j \in Job : TimeOut(e, j) \/ PassOver(e, j) \/ Harvest(e, j)
           \/ ScanEnds(e) \/ OutOfBudget(e)
           \/ \E j \in Job : Spawn(e, j) \/ SpawnFails(e, j)
           \/ Register(e) \/ Reread(e) \/ LoopEnds(e) \/ CleanUp(e) \/ Unlink(e)

Next == \/ Tick
        \/ \E e \in Executor : \/ Step(e) \/ Interrupt(e) \/ Crash(e)
                               \/ \E j \in Job : WorkerEnds(e, j)

Spec == Init /\ [][Next]_vars

\* A live executor keeps going, time passes and the pipes of a killed worker
\* are drained; a worker that is not killed may never end.
Fairness == /\ WF_vars(Tick)
            /\ \A e \in Executor :
                 /\ WF_vars(Step(e))
                 /\ \A j \in Job : WF_vars(worker[e][j] = "killed" /\ WorkerEnds(e, j))

FairSpec == Spec /\ Fairness
-----------------------------------------------------------------------------
WorkerStates == {"none", "alive", "killed", "answered", "failed"}

TypeOK ==
  /\ clock \in Nat
  /\ lock \in Executor \union {NoExecutor}
  /\ worker \in [Executor -> [Job -> WorkerStates]]
  /\ pc \in [Executor -> {"idle", "lock"} \union Holding \union Ended]
  /\ seen \in [Executor -> Nat]
  /\ pending \in [Executor -> SUBSET Job]
  /\ running \in [Executor -> SUBSET Job]
  /\ \A e \in Executor : Cardinality(running[e]) <= MAX_WORKERS
  /\ completed \in [Executor -> SUBSET Job]
  /\ reported \in [Executor -> [Job -> {"none", "ok", "failed"}]]
  /\ failure \in [Executor -> BOOLEAN]
  /\ timedOut \in [Executor -> SUBSET Job]
  /\ started \in [Executor -> [Job -> Nat \union {Never}]]
  /\ lastHost \in [Executor -> [Host -> Nat \union {Never}]]
  /\ todo \in [Executor -> SUBSET Job]
  /\ spawned \in [Executor -> Job \union {NoJob}]

Live == {w \in Executor \X Job : worker[w[1]][w[2]] \in {"alive", "killed"}}

(* "Global" means every executor on the machine: whoever starts, fails or  *)
(* dies, at most MAX_WORKERS worker processes exist at any time, because   *)
(* the lock is only removed once its holder's workers are reaped and a     *)
(* dead holder's lock stays.                                               *)
GlobalLimit == Cardinality(Live) <= MAX_WORKERS

(* An executor that is done, with a report or with an exception, leaves no *)
(* worker behind, but for the one it had started and could not hand to the *)
(* pool.                                                                   *)
NoResidualWorker ==
  \A w \in Live : pc[w[1]] \in {"done", "raised"} => w[2] = spawned[w[1]]

(* The order of the plan survives the races of the loop: a worker is only  *)
(* started for a job when every job it depends on has a row that says ok,  *)
(* from an answer that was not timed out.                                  *)
DependenciesFirst ==
  \A e \in Executor, j \in Job : worker[e][j] # "none" =>
    \A d \in Plan.deps[j] :
      reported[e][d] = "ok" /\ worker[e][d] = "answered" /\ d \notin timedOut[e]

(* Two starts on one host are HOST_INTERVAL apart in real time, though the *)
(* scan compares a time it read before the start with one recorded at it.  *)
HostSpaced ==
  \A e \in Executor : \A i, j \in Job :
    i # j /\ Plan.host[i] = Plan.host[j] /\ started[e][i] # Never /\ started[e][j] # Never =>
      \/ started[e][i] - started[e][j] >= HOST_INTERVAL
      \/ started[e][j] - started[e][i] >= HOST_INTERVAL

(* A report accounts for every job exactly once, as a row or as unstarted, *)
(* calls no job ok whose worker was timed out or failed, and claims        *)
(* success only for a plan that was answered as a whole.                   *)
ReportComplete ==
  \A e \in Executor : pc[e] = "done" =>
    /\ \A j \in Job : (reported[e][j] = "none") <=> (j \in pending[e])
    /\ \A j \in Job : reported[e][j] = "ok" => worker[e][j] = "answered" /\ j \notin timedOut[e]
    /\ ~failure[e] => \A j \in Job : reported[e][j] = "ok"

(* Once a request or the batch has failed, its executor starts no further  *)
(* request.                                                                *)
NoStartAfterFailure ==
  [][\A e \in Executor : failure[e] =>
       \A j \in Job : started'[e][j] = started[e][j]]_vars

(* Every batch comes to an end, also when a worker never answers and when  *)
(* a job is only released after the deadline.                              *)
BatchEnds == \A e \in Executor : pc[e] \in Holding ~> pc[e] \in Ended
=============================================================================
