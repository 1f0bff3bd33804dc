------------------------------ MODULE AuditPlan ------------------------------
(***************************************************************************)
(* The request plans of data/t25_bounded_executor.py and the dispatch rule *)
(* that its budget simulation and its executor share.                      *)
(*                                                                         *)
(* A job is a number, in the order of its request_id.  A plan gives every  *)
(* job its dependencies, its host and its release time (NoRelease when it  *)
(* has none).  Times are ticks; URLs, parameters and hashes are left out.  *)
(***************************************************************************)
EXTENDS Integers, FiniteSets

CONSTANTS
  Job,            \* the jobs of a plan, numbered in the order of their ids
  Host,           \* HOSTS
  MAX_WORKERS,    \* worker processes in flight
  HOST_INTERVAL,  \* ticks between two starts on one host
  REQUEST,        \* ticks one request may take
  FREEZE,         \* ticks reserved to freeze the result
  CLEANUP         \* ticks reserved to end the workers

ASSUME JobAssumption == Job \subseteq Nat /\ IsFiniteSet(Job)

ASSUME LimitAssumption ==
  /\ MAX_WORKERS \in Nat \ {0} /\ REQUEST \in Nat \ {0}
  /\ HOST_INTERVAL \in Nat /\ FREEZE \in Nat /\ CLEANUP \in Nat

NoRelease == -1
Never == -1       \* no start recorded

\* validate_plan's loop: the dependencies have no cycle when every set of
\* jobs that are not done yet has one whose dependencies are all done.
Acyclic(deps) ==
  \A rest \in (SUBSET Job) \ {{}} : \E j \in rest : deps[j] \cap rest = {}

ValidPlan(plan) ==
  /\ Job # {}
  /\ \A j \in Job : plan.deps[j] \subseteq Job \ {j}
  /\ Acyclic(plan.deps)

\* Ticks that must be left when a job is dispatched.
RequiredDispatchBudget == REQUEST + FREEZE + CLEANUP

Released(plan, j, now) == plan.release[j] = NoRelease \/ plan.release[j] <= now

\* The last start on a host may be recorded later than "now" was read.
HostRested(plan, j, now, lastHost) ==
  LET last == lastHost[plan.host[j]] IN last = Never \/ now - last >= HOST_INTERVAL

Dispatchable(plan, j, now, completed, lastHost) ==
  /\ plan.deps[j] \subseteq completed
  /\ Released(plan, j, now)
  /\ HostRested(plan, j, now, lastHost)

\* The least member of S, as a set: jobs are scanned in the order of their ids.
Least(S) == {x \in S : \A y \in S : x <= y}
=============================================================================
