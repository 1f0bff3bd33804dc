----------------------------- MODULE AuditBudget -----------------------------
(***************************************************************************)
(* schedule_budget (data/t25_bounded_executor.py): an event simulation of  *)
(* a plan in which every request takes its full REQUEST time, and the      *)
(* batch it stands for, in which the same loop runs with the times the     *)
(* requests really take.                                                   *)
(*                                                                         *)
(* A scan of the pending jobs is one Launch per job it starts: the cursor  *)
(* does not move during a scan, so a job it passes over cannot become      *)
(* dispatchable before the scan ends.                                      *)
(***************************************************************************)
EXTENDS AuditPlan

CONSTANTS Plans,      \* plans to simulate
          Durations   \* ticks a request may really take

ASSUME DurationAssumption == Durations \subseteq 1..REQUEST

VARIABLES phase,      \* "budget", then "batch", then "end"
          plan, duration,
          cursor, waiting, inFlight, finished,   \* pending, running, completed
          hostStart,                             \* last_host
          startedAt, endAt,   \* the trace
          worst       \* the completion time the budget reports

loop == <<cursor, waiting, inFlight, finished, hostStart, startedAt, endAt>>
budgetVars == <<phase, plan, duration, loop, worst>>

BudgetInit == /\ phase = "budget"
              /\ plan \in {p \in Plans : ValidPlan(p)}
              /\ duration = [j \in Job |-> REQUEST]
              /\ cursor = 0 /\ waiting = Job /\ inFlight = {} /\ finished = {}
              /\ hostStart = [h \in Host |-> Never]
              /\ startedAt = [j \in Job |-> Never]
              /\ endAt = [j \in Job |-> Never]
              /\ worst = Never

Ready == {j \in waiting : Dispatchable(plan, j, cursor, finished, hostStart)}

Launching == Cardinality(inFlight) < MAX_WORKERS /\ Ready # {}

Launch == /\ phase # "end" /\ Launching
          /\ \E j \in Least(Ready) :
               /\ startedAt' = [startedAt EXCEPT ![j] = cursor]
               /\ endAt' = [endAt EXCEPT ![j] = cursor + duration[j]]
               /\ hostStart' = [hostStart EXCEPT ![plan.host[j]] = cursor]
               /\ inFlight' = inFlight \union {j}
               /\ waiting' = waiting \ {j}
          /\ UNCHANGED <<phase, plan, duration, cursor, finished, worst>>

\* Times at which the simulation may have something new to do.  A host without
\* a start yet counts from the cursor: that only adds a stop on the way.
HostFreeAt(j) ==
  LET last == hostStart[plan.host[j]] IN (IF last = Never THEN cursor ELSE last) + HOST_INTERVAL

Events ==
  {t \in {endAt[j] : j \in inFlight}
      \union UNION {{plan.release[j], HostFreeAt(j)} :
                      j \in {i \in waiting : plan.deps[i] \subseteq finished}} : t > cursor}

\* With no event and nothing launched, AUDIT_SCHEDULE_DEADLOCK is raised.
Advance == /\ phase # "end" /\ ~Launching
           /\ waiting \union inFlight # {}
           /\ cursor' \in Least(Events)
           /\ LET over == {j \in inFlight : endAt[j] <= cursor'} IN
                /\ finished' = finished \union over
                /\ inFlight' = inFlight \ over
           /\ UNCHANGED <<phase, plan, duration, waiting, hostStart, startedAt, endAt, worst>>

\* The budget is reported; the batch starts over with the real times.
Reported == /\ phase = "budget" /\ waiting \union inFlight = {}
            /\ phase' = "batch"
            /\ worst' = cursor
            /\ duration' \in [Job -> Durations]
            /\ cursor' = 0 /\ waiting' = Job /\ inFlight' = {} /\ finished' = {}
            /\ hostStart' = [h \in Host |-> Never]
            /\ startedAt' = [j \in Job |-> Never]
            /\ endAt' = [j \in Job |-> Never]
            /\ UNCHANGED plan

EndBatch == /\ phase = "batch" /\ waiting \union inFlight = {}
             /\ phase' = "end"
             /\ UNCHANGED <<plan, duration, loop, worst>>

BudgetNext == Launch \/ Advance \/ Reported \/ EndBatch

BudgetSpec == BudgetInit /\ [][BudgetNext]_budgetVars
-----------------------------------------------------------------------------
Times == Nat \union {Never}

BudgetTypeOK == /\ phase \in {"budget", "batch", "end"}
                /\ plan \in Plans
                /\ duration \in [Job -> 1..REQUEST]
                /\ cursor \in Nat
                /\ waiting \in SUBSET Job /\ inFlight \in SUBSET Job /\ finished \in SUBSET Job
                /\ hostStart \in [Host -> Times]
                /\ startedAt \in [Job -> Times] /\ endAt \in [Job -> Times]
                /\ worst \in Times

(* Every valid plan is simulated to its end: while a job is not done there *)
(* is something to launch or a time to move to, so the simulation never    *)
(* raises AUDIT_SCHEDULE_DEADLOCK.                                         *)
NeverStuck ==
  phase # "end" /\ waiting \union inFlight # {} => Launching \/ Events # {}

(* The trace respects the limits the executor enforces: at every start at  *)
(* most MAX_WORKERS requests are under way, two starts on one host are     *)
(* HOST_INTERVAL apart and what a job depends on has ended before it.      *)
Started == {j \in Job : startedAt[j] # Never}

TraceLegal ==
  /\ \A j \in Started :
       /\ Cardinality({i \in Started : startedAt[i] <= startedAt[j] /\ startedAt[j] < endAt[i]})
            <= MAX_WORKERS
       /\ \A d \in plan.deps[j] : d \in Started /\ endAt[d] <= startedAt[j]
       /\ plan.release[j] <= startedAt[j]
  /\ \A i, j \in Started :
       i # j /\ plan.host[i] = plan.host[j] =>
         \/ startedAt[i] - startedAt[j] >= HOST_INTERVAL
         \/ startedAt[j] - startedAt[i] >= HOST_INTERVAL

\* Mutant: the requests shared out between the workers.
BoundByWorkers == (Cardinality(Job) * REQUEST) \div MAX_WORKERS

\* Every request after the other, with a host interval in between.
ConservativeBound == Cardinality(Job) * REQUEST + (Cardinality(Job) - 1) * HOST_INTERVAL

(* The time that the budget reports as the worst completion is no bound,   *)
(* since a request that returns early can make a greedy schedule longer.   *)
(* The one complete_industry_candidate.py computes instead does hold:      *)
(* when all jobs are released from the start, neither the budget nor a     *)
(* batch ever goes on beyond the sum of all requests and host intervals.   *)
SerialIsWorst ==
  (\A j \in Job : plan.release[j] = NoRelease) => cursor <= ConservativeBound
=============================================================================
