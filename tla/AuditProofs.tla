----------------------------- MODULE AuditProofs -----------------------------
(***************************************************************************)
(* Theorems about data/t25_bounded_executor.py.  AuditExecutor: for any    *)
(* plan, any number of executors and any limits, as long as pool.submit    *)
(* does not raise.  AuditBudget, which has variables of its own: for any   *)
(* set of plans and any limits.                                            *)
(***************************************************************************)
EXTENDS AuditExecutor, AuditBudget, FiniteSetTheorems, TLAPS

Unregistered(e) == {spawned[e]} \ {NoJob}

(* A live worker belongs to the holder of the lock, which still has it in  *)
(* running or is just about to enter it there; or the holder is dead.      *)
WorkersOwned(e) ==
  /\ pc[e] \in Holding => lock = e
  /\ spawned[e] # NoJob => pc[e] \in {"spawned", "dead"} /\ spawned[e] \in pending[e]
  /\ pc[e] = "spawned" => spawned[e] # NoJob
  /\ \A j \in Job : worker[e][j] \in {"alive", "killed"} =>
       /\ lock = e
       /\ pc[e] \in Looping \union {"cleanup", "raise", "dead"}
       /\ j \in running[e] \union Unregistered(e)

InFlightBounded(e) ==
  Cardinality(running[e] \union Unregistered(e)) <= MAX_WORKERS

(* What the rows say agrees with where each job is.                        *)
RowsAgree(e) ==
  /\ pending[e] \intersect running[e] = {}
  /\ \A j \in Job : /\ reported[e][j] = "none" <=> j \in pending[e] \union running[e]
                    /\ reported[e][j] = "ok" <=> j \in completed[e]
                    /\ reported[e][j] = "ok" =>
                         worker[e][j] = "answered" /\ j \notin timedOut[e]
                    /\ reported[e][j] = "failed" => failure[e]
  /\ pc[e] = "poll" => todo[e] \subseteq running[e]
  /\ pc[e] \in {"scan", "spawned", "launched"} => todo[e] \subseteq pending[e]
  /\ pc[e] \in {"cleanup", "unlink", "done"} =>
       running[e] = {} /\ (failure[e] \/ pending[e] = {})

DependenciesKept(e) ==
  /\ \A j \in Job : worker[e][j] # "none" => Plan.deps[j] \subseteq completed[e]
  /\ \A j \in running[e] \union Unregistered(e) : worker[e][j] # "none"

(* A scan only starts and goes on without a failure.                       *)
ScanWithoutFailure(e) == pc[e] \in {"scan", "spawned", "launched"} => ~failure[e]

(* The last start kept for a host is the latest, and not in the future.    *)
StartsKept(e) ==
  /\ seen[e] <= clock
  /\ \A j \in Job : started[e][j] # Never =>
       /\ lastHost[e][Plan.host[j]] # Never
       /\ started[e][j] <= lastHost[e][Plan.host[j]]
  /\ \A h \in Host : lastHost[e][h] <= clock

StartsSpaced(e) ==
  \A i, j \in Job :
    i # j /\ Plan.host[i] = Plan.host[j] /\ started[e][i] # Never /\ started[e][j] # Never =>
      \/ started[e][i] - started[e][j] >= HOST_INTERVAL
      \/ started[e][j] - started[e][i] >= HOST_INTERVAL

ExecInv(e) ==
  /\ WorkersOwned(e) /\ InFlightBounded(e) /\ RowsAgree(e) /\ DependenciesKept(e)
  /\ ScanWithoutFailure(e) /\ StartsKept(e) /\ StartsSpaced(e)

IInv == TypeOK /\ \A e \in Executor : ExecInv(e)
-----------------------------------------------------------------------------
(* A set of jobs is finite.                                                *)
LEMMA FiniteJobs == \A S \in SUBSET Job : IsFiniteSet(S) /\ Cardinality(S) \in Nat
BY JobAssumption, FS_Subset, FS_CardinalityType

(* The invariant holds when no executor has started. *)
LEMMA Initially == Init => IInv
<1> SUFFICES ASSUME Init PROVE IInv
  OBVIOUS
<1> USE JobAssumption, LimitAssumption, ExecutorAssumption, FS_EmptySet
    DEF Init, Never, Holding, Looping, Ended, WorkerStates
<1>1. TypeOK
  BY DEF TypeOK
<1>2. ASSUME NEW e \in Executor PROVE ExecInv(e)
  <2>1. running[e] \union Unregistered(e) = {}
    BY DEF Unregistered
  <2>2. InFlightBounded(e)
    BY ONLY <2>1, FS_EmptySet, LimitAssumption DEF InFlightBounded
  <2>3. WorkersOwned(e) /\ RowsAgree(e) /\ DependenciesKept(e)
    BY <2>1 DEF WorkersOwned, RowsAgree, DependenciesKept
  <2>4. ScanWithoutFailure(e) /\ StartsKept(e) /\ StartsSpaced(e)
    BY DEF ScanWithoutFailure, StartsKept, StartsSpaced
  <2> QED
    BY <2>2, <2>3, <2>4 DEF ExecInv
<1> QED
  BY <1>1, <1>2 DEF IInv

(* Begin keeps every part of the invariant but the bound, see BoundKept. *)
LEMMA BeginKeeps ==
  ASSUME IInv, ~SubmitFails, NEW e \in Executor, Begin(e),
         NEW f \in Executor
  PROVE  /\ WorkersOwned(f)'
         /\ RowsAgree(f)'
         /\ DependenciesKept(f)'
         /\ ScanWithoutFailure(f)'
         /\ StartsKept(f)'
         /\ StartsSpaced(f)'
<1> USE ExecutorAssumption, LimitAssumption
    DEF Goto, Fail, Never, Holding, Looping, Ended, WorkerStates
<1>0. TypeOK /\ ExecInv(e) /\ ExecInv(f)
  BY DEF IInv
<1>1. WorkersOwned(f)'
  BY <1>0 DEF TypeOK, ExecInv, WorkersOwned, RowsAgree, DependenciesKept, ScanWithoutFailure,
     StartsKept, StartsSpaced, Unregistered, Begin
<1>2. RowsAgree(f)'
  BY <1>0 DEF TypeOK, ExecInv, WorkersOwned, RowsAgree, DependenciesKept, ScanWithoutFailure,
     StartsKept, StartsSpaced, Unregistered, Begin
<1>3. DependenciesKept(f)'
  BY <1>0 DEF TypeOK, ExecInv, WorkersOwned, RowsAgree, DependenciesKept, ScanWithoutFailure,
     StartsKept, StartsSpaced, Unregistered, Begin
<1>4. ScanWithoutFailure(f)'
  BY <1>0 DEF TypeOK, ExecInv, ScanWithoutFailure, Unregistered, Begin
<1>5. StartsKept(f)'
  BY <1>0 DEF TypeOK, ExecInv, StartsKept, StartsSpaced, Unregistered, Begin
<1>6. StartsSpaced(f)'
  BY <1>0 DEF TypeOK, ExecInv, StartsKept, StartsSpaced, Unregistered, Begin
<1> QED
  BY <1>1, <1>2, <1>3, <1>4, <1>5, <1>6

(* TakeLock keeps every part of the invariant but the bound, see BoundKept. *)
LEMMA TakeLockKeeps ==
  ASSUME IInv, ~SubmitFails, NEW e \in Executor, TakeLock(e),
         NEW f \in Executor
  PROVE  /\ WorkersOwned(f)'
         /\ RowsAgree(f)'
         /\ DependenciesKept(f)'
         /\ ScanWithoutFailure(f)'
         /\ StartsKept(f)'
         /\ StartsSpaced(f)'
<1> USE ExecutorAssumption, LimitAssumption
    DEF Goto, Fail, Never, Holding, Looping, Ended, WorkerStates
<1>0. TypeOK /\ ExecInv(e) /\ ExecInv(f)
  BY DEF IInv
<1>1. WorkersOwned(f)'
  BY <1>0 DEF TypeOK, ExecInv, WorkersOwned, RowsAgree, DependenciesKept, ScanWithoutFailure,
     StartsKept, StartsSpaced, Unregistered, TakeLock
<1>2. RowsAgree(f)'
  BY <1>0 DEF TypeOK, ExecInv, WorkersOwned, RowsAgree, DependenciesKept, ScanWithoutFailure,
     StartsKept, StartsSpaced, Unregistered, TakeLock
<1>3. DependenciesKept(f)'
  BY <1>0 DEF TypeOK, ExecInv, WorkersOwned, RowsAgree, DependenciesKept, ScanWithoutFailure,
     StartsKept, StartsSpaced, Unregistered, TakeLock
<1>4. ScanWithoutFailure(f)'
  BY <1>0 DEF TypeOK, ExecInv, ScanWithoutFailure, Unregistered, TakeLock
<1>5. StartsKept(f)'
  BY <1>0 DEF TypeOK, ExecInv, StartsKept, StartsSpaced, Unregistered, TakeLock
<1>6. StartsSpaced(f)'
  BY <1>0 DEF TypeOK, ExecInv, StartsKept, StartsSpaced, Unregistered, TakeLock
<1> QED
  BY <1>1, <1>2, <1>3, <1>4, <1>5, <1>6

(* Iterate keeps every part of the invariant but the bound, see BoundKept. *)
LEMMA IterateKeeps ==
  ASSUME IInv, ~SubmitFails, NEW e \in Executor, Iterate(e),
         NEW f \in Executor
  PROVE  /\ WorkersOwned(f)'
         /\ RowsAgree(f)'
         /\ DependenciesKept(f)'
         /\ ScanWithoutFailure(f)'
         /\ StartsKept(f)'
         /\ StartsSpaced(f)'
<1> USE ExecutorAssumption, LimitAssumption
    DEF Goto, Fail, Never, Holding, Looping, Ended, WorkerStates
<1>0. TypeOK /\ ExecInv(e) /\ ExecInv(f)
  BY DEF IInv
<1>1. WorkersOwned(f)'
  BY <1>0 DEF TypeOK, ExecInv, WorkersOwned, RowsAgree, DependenciesKept, ScanWithoutFailure,
     StartsKept, StartsSpaced, Unregistered, Iterate
<1>2. RowsAgree(f)'
  BY <1>0 DEF TypeOK, ExecInv, WorkersOwned, RowsAgree, DependenciesKept, ScanWithoutFailure,
     StartsKept, StartsSpaced, Unregistered, Iterate
<1>3. DependenciesKept(f)'
  BY <1>0 DEF TypeOK, ExecInv, WorkersOwned, RowsAgree, DependenciesKept, ScanWithoutFailure,
     StartsKept, StartsSpaced, Unregistered, Iterate
<1>4. ScanWithoutFailure(f)'
  BY <1>0 DEF TypeOK, ExecInv, ScanWithoutFailure, Unregistered, Iterate
<1>5. StartsKept(f)'
  BY <1>0 DEF TypeOK, ExecInv, StartsKept, StartsSpaced, Unregistered, Iterate
<1>6. StartsSpaced(f)'
  BY <1>0 DEF TypeOK, ExecInv, StartsKept, StartsSpaced, Unregistered, Iterate
<1> QED
  BY <1>1, <1>2, <1>3, <1>4, <1>5, <1>6

(* Cancel keeps every part of the invariant but the bound, see BoundKept. *)
LEMMA CancelKeeps ==
  ASSUME IInv, ~SubmitFails, NEW e \in Executor, Cancel(e),
         NEW f \in Executor
  PROVE  /\ WorkersOwned(f)'
         /\ RowsAgree(f)'
         /\ DependenciesKept(f)'
         /\ ScanWithoutFailure(f)'
         /\ StartsKept(f)'
         /\ StartsSpaced(f)'
<1> USE ExecutorAssumption, LimitAssumption
    DEF Goto, Fail, Never, Holding, Looping, Ended, WorkerStates
<1>0. TypeOK /\ ExecInv(e) /\ ExecInv(f)
  BY DEF IInv
<1>1. WorkersOwned(f)'
  <2>1. CASE f = e
    BY <1>0, <2>1 DEF TypeOK, ExecInv, WorkersOwned, RowsAgree, DependenciesKept,
       ScanWithoutFailure, Unregistered, Cancel
  <2>2. CASE f # e
    BY <1>0, <2>2 DEF TypeOK, ExecInv, WorkersOwned, RowsAgree, DependenciesKept,
       ScanWithoutFailure, Unregistered, Cancel
  <2> QED
    BY <2>1, <2>2
<1>2. RowsAgree(f)'
  <2>1. CASE f = e
    BY <1>0, <2>1 DEF TypeOK, ExecInv, WorkersOwned, RowsAgree, DependenciesKept,
       ScanWithoutFailure, Unregistered, Cancel
  <2>2. CASE f # e
    BY <1>0, <2>2 DEF TypeOK, ExecInv, WorkersOwned, RowsAgree, DependenciesKept,
       ScanWithoutFailure, Unregistered, Cancel
  <2> QED
    BY <2>1, <2>2
<1>3. DependenciesKept(f)'
  <2>1. CASE f = e
    BY <1>0, <2>1 DEF TypeOK, ExecInv, WorkersOwned, RowsAgree, DependenciesKept,
       ScanWithoutFailure, Unregistered, Cancel
  <2>2. CASE f # e
    BY <1>0, <2>2 DEF TypeOK, ExecInv, WorkersOwned, RowsAgree, DependenciesKept,
       ScanWithoutFailure, Unregistered, Cancel
  <2> QED
    BY <2>1, <2>2
<1>4. ScanWithoutFailure(f)'
  BY <1>0 DEF TypeOK, ExecInv, ScanWithoutFailure, Unregistered, Cancel
<1>5. StartsKept(f)'
  BY <1>0 DEF TypeOK, ExecInv, StartsKept, StartsSpaced, Unregistered, Cancel
<1>6. StartsSpaced(f)'
  BY <1>0 DEF TypeOK, ExecInv, StartsKept, StartsSpaced, Unregistered, Cancel
<1> QED
  BY <1>1, <1>2, <1>3, <1>4, <1>5, <1>6

(* Polled keeps every part of the invariant but the bound, see BoundKept. *)
LEMMA PolledKeeps ==
  ASSUME IInv, ~SubmitFails, NEW e \in Executor, Polled(e),
         NEW f \in Executor
  PROVE  /\ WorkersOwned(f)'
         /\ RowsAgree(f)'
         /\ DependenciesKept(f)'
         /\ ScanWithoutFailure(f)'
         /\ StartsKept(f)'
         /\ StartsSpaced(f)'
<1> USE ExecutorAssumption, LimitAssumption
    DEF Goto, Fail, Never, Holding, Looping, Ended, WorkerStates
<1>0. TypeOK /\ ExecInv(e) /\ ExecInv(f)
  BY DEF IInv
<1>1. WorkersOwned(f)'
  BY <1>0 DEF TypeOK, ExecInv, WorkersOwned, RowsAgree, DependenciesKept, ScanWithoutFailure,
     StartsKept, StartsSpaced, Unregistered, Polled
<1>2. RowsAgree(f)'
  BY <1>0 DEF TypeOK, ExecInv, WorkersOwned, RowsAgree, DependenciesKept, ScanWithoutFailure,
     StartsKept, StartsSpaced, Unregistered, Polled
<1>3. DependenciesKept(f)'
  BY <1>0 DEF TypeOK, ExecInv, WorkersOwned, RowsAgree, DependenciesKept, ScanWithoutFailure,
     StartsKept, StartsSpaced, Unregistered, Polled
<1>4. ScanWithoutFailure(f)'
  BY <1>0 DEF TypeOK, ExecInv, ScanWithoutFailure, Unregistered, Polled
<1>5. StartsKept(f)'
  BY <1>0 DEF TypeOK, ExecInv, StartsKept, StartsSpaced, Unregistered, Polled
<1>6. StartsSpaced(f)'
  BY <1>0 DEF TypeOK, ExecInv, StartsKept, StartsSpaced, Unregistered, Polled
<1> QED
  BY <1>1, <1>2, <1>3, <1>4, <1>5, <1>6

(* ScanEnds keeps every part of the invariant but the bound, see BoundKept. *)
LEMMA ScanEndsKeeps ==
  ASSUME IInv, ~SubmitFails, NEW e \in Executor, ScanEnds(e),
         NEW f \in Executor
  PROVE  /\ WorkersOwned(f)'
         /\ RowsAgree(f)'
         /\ DependenciesKept(f)'
         /\ ScanWithoutFailure(f)'
         /\ StartsKept(f)'
         /\ StartsSpaced(f)'
<1> USE ExecutorAssumption, LimitAssumption
    DEF Goto, Fail, Never, Holding, Looping, Ended, WorkerStates
<1>0. TypeOK /\ ExecInv(e) /\ ExecInv(f)
  BY DEF IInv
<1>1. WorkersOwned(f)'
  BY <1>0 DEF TypeOK, ExecInv, WorkersOwned, RowsAgree, DependenciesKept, ScanWithoutFailure,
     StartsKept, StartsSpaced, Unregistered, ScanEnds, ScanGoesOn
<1>2. RowsAgree(f)'
  BY <1>0 DEF TypeOK, ExecInv, WorkersOwned, RowsAgree, DependenciesKept, ScanWithoutFailure,
     StartsKept, StartsSpaced, Unregistered, ScanEnds, ScanGoesOn
<1>3. DependenciesKept(f)'
  BY <1>0 DEF TypeOK, ExecInv, WorkersOwned, RowsAgree, DependenciesKept, ScanWithoutFailure,
     StartsKept, StartsSpaced, Unregistered, ScanEnds, ScanGoesOn
<1>4. ScanWithoutFailure(f)'
  BY <1>0 DEF TypeOK, ExecInv, ScanWithoutFailure, Unregistered, ScanEnds, ScanGoesOn
<1>5. StartsKept(f)'
  BY <1>0 DEF TypeOK, ExecInv, StartsKept, StartsSpaced, Unregistered, ScanEnds, ScanGoesOn
<1>6. StartsSpaced(f)'
  BY <1>0 DEF TypeOK, ExecInv, StartsKept, StartsSpaced, Unregistered, ScanEnds, ScanGoesOn
<1> QED
  BY <1>1, <1>2, <1>3, <1>4, <1>5, <1>6

(* OutOfBudget keeps every part of the invariant but the bound, see BoundKept. *)
LEMMA OutOfBudgetKeeps ==
  ASSUME IInv, ~SubmitFails, NEW e \in Executor, OutOfBudget(e),
         NEW f \in Executor
  PROVE  /\ WorkersOwned(f)'
         /\ RowsAgree(f)'
         /\ DependenciesKept(f)'
         /\ ScanWithoutFailure(f)'
         /\ StartsKept(f)'
         /\ StartsSpaced(f)'
<1> USE ExecutorAssumption, LimitAssumption
    DEF Goto, Fail, Never, Holding, Looping, Ended, WorkerStates
<1>0. TypeOK /\ ExecInv(e) /\ ExecInv(f)
  BY DEF IInv
<1>1. WorkersOwned(f)'
  BY <1>0 DEF TypeOK, ExecInv, WorkersOwned, RowsAgree, DependenciesKept, ScanWithoutFailure,
     StartsKept, StartsSpaced, Unregistered, OutOfBudget, ScanGoesOn
<1>2. RowsAgree(f)'
  BY <1>0 DEF TypeOK, ExecInv, WorkersOwned, RowsAgree, DependenciesKept, ScanWithoutFailure,
     StartsKept, StartsSpaced, Unregistered, OutOfBudget, ScanGoesOn
<1>3. DependenciesKept(f)'
  BY <1>0 DEF TypeOK, ExecInv, WorkersOwned, RowsAgree, DependenciesKept, ScanWithoutFailure,
     StartsKept, StartsSpaced, Unregistered, OutOfBudget, ScanGoesOn
<1>4. ScanWithoutFailure(f)'
  BY <1>0 DEF TypeOK, ExecInv, ScanWithoutFailure, Unregistered, OutOfBudget, ScanGoesOn
<1>5. StartsKept(f)'
  BY <1>0 DEF TypeOK, ExecInv, StartsKept, StartsSpaced, Unregistered, OutOfBudget, ScanGoesOn
<1>6. StartsSpaced(f)'
  BY <1>0 DEF TypeOK, ExecInv, StartsKept, StartsSpaced, Unregistered, OutOfBudget, ScanGoesOn
<1> QED
  BY <1>1, <1>2, <1>3, <1>4, <1>5, <1>6

(* Register keeps every part of the invariant but the bound, see BoundKept. *)
LEMMA RegisterKeeps ==
  ASSUME IInv, ~SubmitFails, NEW e \in Executor, Register(e),
         NEW f \in Executor
  PROVE  /\ WorkersOwned(f)'
         /\ RowsAgree(f)'
         /\ DependenciesKept(f)'
         /\ ScanWithoutFailure(f)'
         /\ StartsKept(f)'
         /\ StartsSpaced(f)'
<1> USE ExecutorAssumption, LimitAssumption
    DEF Goto, Fail, Never, Holding, Looping, Ended, WorkerStates
<1>0. TypeOK /\ ExecInv(e) /\ ExecInv(f)
  BY DEF IInv
<1>1. WorkersOwned(f)'
  <2>1. CASE f = e
    <3>1. /\ spawned'[e] = NoJob /\ pc'[e] = "launched" /\ lock' = lock /\ worker' = worker
          /\ running'[e] = running[e] \union {spawned[e]}
      BY <1>0 DEF TypeOK, Register
    <3>2. Unregistered(e) \subseteq {spawned[e]} /\ Unregistered(e)' = {}
      BY <3>1 DEF Unregistered
    <3> QED
      BY <1>0, <2>1, <3>1, <3>2 DEF ExecInv, WorkersOwned, Register
  <2>2. CASE f # e
    BY <1>0, <2>2 DEF TypeOK, ExecInv, WorkersOwned, RowsAgree, DependenciesKept,
       ScanWithoutFailure, Unregistered, Register
  <2> QED
    BY <2>1, <2>2
<1>2. RowsAgree(f)'
  <2>1. CASE f = e
    <3>1. /\ running'[e] = running[e] \union {spawned[e]} /\ pending'[e] = pending[e] \ {spawned[e]}
          /\ todo'[e] = {j \in todo[e] : j > spawned[e]}
          /\ reported' = reported /\ worker' = worker /\ timedOut' = timedOut
          /\ completed' = completed /\ failure' = failure /\ pc'[e] = "launched"
      BY <1>0 DEF TypeOK, Register
    <3>2. spawned[e] \in pending[e] /\ pc[e] = "spawned" /\ spawned[e] \in Job
      BY <1>0 DEF TypeOK, ExecInv, WorkersOwned, Register
    <3>a. todo[e] \subseteq pending[e] /\ todo[e] \subseteq Job
      BY <1>0, <3>2 DEF TypeOK, ExecInv, RowsAgree
    <3>b. \A i \in todo[e] : i > spawned[e] => i # spawned[e]
      <4>1. todo[e] \subseteq Nat /\ spawned[e] \in Nat
        BY ONLY <3>a, <3>2, JobAssumption
      <4>2. \A x, y \in Nat : x > y => x # y
        BY ONLY SMT
      <4> QED
        BY ONLY <4>1, <4>2
    <3>3. todo'[e] \subseteq pending'[e]
      BY <3>1, <3>a, <3>b
    <3> QED
      BY <1>0, <2>1, <3>1, <3>2, <3>3 DEF TypeOK, ExecInv, RowsAgree
  <2>2. CASE f # e
    BY <1>0, <2>2 DEF TypeOK, ExecInv, WorkersOwned, RowsAgree, DependenciesKept,
       ScanWithoutFailure, Unregistered, Register
  <2> QED
    BY <2>1, <2>2
<1>3. DependenciesKept(f)'
  BY <1>0 DEF TypeOK, ExecInv, WorkersOwned, RowsAgree, DependenciesKept, ScanWithoutFailure,
     StartsKept, StartsSpaced, Unregistered, Register
<1>4. ScanWithoutFailure(f)'
  BY <1>0 DEF TypeOK, ExecInv, ScanWithoutFailure, Unregistered, Register
<1>5. StartsKept(f)'
  BY <1>0 DEF TypeOK, ExecInv, StartsKept, StartsSpaced, Unregistered, Register
<1>6. StartsSpaced(f)'
  BY <1>0 DEF TypeOK, ExecInv, StartsKept, StartsSpaced, Unregistered, Register
<1> QED
  BY <1>1, <1>2, <1>3, <1>4, <1>5, <1>6

(* Reread keeps every part of the invariant but the bound, see BoundKept. *)
LEMMA RereadKeeps ==
  ASSUME IInv, ~SubmitFails, NEW e \in Executor, Reread(e),
         NEW f \in Executor
  PROVE  /\ WorkersOwned(f)'
         /\ RowsAgree(f)'
         /\ DependenciesKept(f)'
         /\ ScanWithoutFailure(f)'
         /\ StartsKept(f)'
         /\ StartsSpaced(f)'
<1> USE ExecutorAssumption, LimitAssumption
    DEF Goto, Fail, Never, Holding, Looping, Ended, WorkerStates
<1>0. TypeOK /\ ExecInv(e) /\ ExecInv(f)
  BY DEF IInv
<1>1. WorkersOwned(f)'
  BY <1>0 DEF TypeOK, ExecInv, WorkersOwned, RowsAgree, DependenciesKept, ScanWithoutFailure,
     StartsKept, StartsSpaced, Unregistered, Reread
<1>2. RowsAgree(f)'
  BY <1>0 DEF TypeOK, ExecInv, WorkersOwned, RowsAgree, DependenciesKept, ScanWithoutFailure,
     StartsKept, StartsSpaced, Unregistered, Reread
<1>3. DependenciesKept(f)'
  BY <1>0 DEF TypeOK, ExecInv, WorkersOwned, RowsAgree, DependenciesKept, ScanWithoutFailure,
     StartsKept, StartsSpaced, Unregistered, Reread
<1>4. ScanWithoutFailure(f)'
  BY <1>0 DEF TypeOK, ExecInv, ScanWithoutFailure, Unregistered, Reread
<1>5. StartsKept(f)'
  BY <1>0 DEF TypeOK, ExecInv, StartsKept, StartsSpaced, Unregistered, Reread
<1>6. StartsSpaced(f)'
  BY <1>0 DEF TypeOK, ExecInv, StartsKept, StartsSpaced, Unregistered, Reread
<1> QED
  BY <1>1, <1>2, <1>3, <1>4, <1>5, <1>6

(* LoopEnds keeps every part of the invariant but the bound, see BoundKept. *)
LEMMA LoopEndsKeeps ==
  ASSUME IInv, ~SubmitFails, NEW e \in Executor, LoopEnds(e),
         NEW f \in Executor
  PROVE  /\ WorkersOwned(f)'
         /\ RowsAgree(f)'
         /\ DependenciesKept(f)'
         /\ ScanWithoutFailure(f)'
         /\ StartsKept(f)'
         /\ StartsSpaced(f)'
<1> USE ExecutorAssumption, LimitAssumption
    DEF Goto, Fail, Never, Holding, Looping, Ended, WorkerStates
<1>0. TypeOK /\ ExecInv(e) /\ ExecInv(f)
  BY DEF IInv
<1>1. WorkersOwned(f)'
  BY <1>0 DEF TypeOK, ExecInv, WorkersOwned, RowsAgree, DependenciesKept, ScanWithoutFailure,
     StartsKept, StartsSpaced, Unregistered, LoopEnds
<1>2. RowsAgree(f)'
  BY <1>0 DEF TypeOK, ExecInv, WorkersOwned, RowsAgree, DependenciesKept, ScanWithoutFailure,
     StartsKept, StartsSpaced, Unregistered, LoopEnds
<1>3. DependenciesKept(f)'
  BY <1>0 DEF TypeOK, ExecInv, WorkersOwned, RowsAgree, DependenciesKept, ScanWithoutFailure,
     StartsKept, StartsSpaced, Unregistered, LoopEnds
<1>4. ScanWithoutFailure(f)'
  BY <1>0 DEF TypeOK, ExecInv, ScanWithoutFailure, Unregistered, LoopEnds
<1>5. StartsKept(f)'
  BY <1>0 DEF TypeOK, ExecInv, StartsKept, StartsSpaced, Unregistered, LoopEnds
<1>6. StartsSpaced(f)'
  BY <1>0 DEF TypeOK, ExecInv, StartsKept, StartsSpaced, Unregistered, LoopEnds
<1> QED
  BY <1>1, <1>2, <1>3, <1>4, <1>5, <1>6

(* CleanUp keeps every part of the invariant but the bound, see BoundKept. *)
LEMMA CleanUpKeeps ==
  ASSUME IInv, ~SubmitFails, NEW e \in Executor, CleanUp(e),
         NEW f \in Executor
  PROVE  /\ WorkersOwned(f)'
         /\ RowsAgree(f)'
         /\ DependenciesKept(f)'
         /\ ScanWithoutFailure(f)'
         /\ StartsKept(f)'
         /\ StartsSpaced(f)'
<1> USE ExecutorAssumption, LimitAssumption
    DEF Goto, Fail, Never, Holding, Looping, Ended, WorkerStates
<1>0. TypeOK /\ ExecInv(e) /\ ExecInv(f)
  BY DEF IInv
<1>1. WorkersOwned(f)'
  <2>1. CASE f = e
    BY <1>0, <2>1 DEF TypeOK, ExecInv, WorkersOwned, RowsAgree, DependenciesKept,
       ScanWithoutFailure, Unregistered, CleanUp
  <2>2. CASE f # e
    BY <1>0, <2>2 DEF TypeOK, ExecInv, WorkersOwned, RowsAgree, DependenciesKept,
       ScanWithoutFailure, Unregistered, CleanUp
  <2> QED
    BY <2>1, <2>2
<1>2. RowsAgree(f)'
  <2>1. CASE f = e
    BY <1>0, <2>1 DEF TypeOK, ExecInv, WorkersOwned, RowsAgree, DependenciesKept,
       ScanWithoutFailure, Unregistered, CleanUp
  <2>2. CASE f # e
    BY <1>0, <2>2 DEF TypeOK, ExecInv, WorkersOwned, RowsAgree, DependenciesKept,
       ScanWithoutFailure, Unregistered, CleanUp
  <2> QED
    BY <2>1, <2>2
<1>3. DependenciesKept(f)'
  <2>1. CASE f = e
    BY <1>0, <2>1 DEF TypeOK, ExecInv, WorkersOwned, RowsAgree, DependenciesKept,
       ScanWithoutFailure, Unregistered, CleanUp
  <2>2. CASE f # e
    BY <1>0, <2>2 DEF TypeOK, ExecInv, WorkersOwned, RowsAgree, DependenciesKept,
       ScanWithoutFailure, Unregistered, CleanUp
  <2> QED
    BY <2>1, <2>2
<1>4. ScanWithoutFailure(f)'
  BY <1>0 DEF TypeOK, ExecInv, ScanWithoutFailure, Unregistered, CleanUp
<1>5. StartsKept(f)'
  BY <1>0 DEF TypeOK, ExecInv, StartsKept, StartsSpaced, Unregistered, CleanUp
<1>6. StartsSpaced(f)'
  BY <1>0 DEF TypeOK, ExecInv, StartsKept, StartsSpaced, Unregistered, CleanUp
<1> QED
  BY <1>1, <1>2, <1>3, <1>4, <1>5, <1>6

(* Unlink keeps every part of the invariant but the bound, see BoundKept. *)
LEMMA UnlinkKeeps ==
  ASSUME IInv, ~SubmitFails, NEW e \in Executor, Unlink(e),
         NEW f \in Executor
  PROVE  /\ WorkersOwned(f)'
         /\ RowsAgree(f)'
         /\ DependenciesKept(f)'
         /\ ScanWithoutFailure(f)'
         /\ StartsKept(f)'
         /\ StartsSpaced(f)'
<1> USE ExecutorAssumption, LimitAssumption
    DEF Goto, Fail, Never, Holding, Looping, Ended, WorkerStates
<1>0. TypeOK /\ ExecInv(e) /\ ExecInv(f)
  BY DEF IInv
<1>1. WorkersOwned(f)'
  BY <1>0 DEF TypeOK, ExecInv, WorkersOwned, RowsAgree, DependenciesKept, ScanWithoutFailure,
     StartsKept, StartsSpaced, Unregistered, Unlink
<1>2. RowsAgree(f)'
  BY <1>0 DEF TypeOK, ExecInv, WorkersOwned, RowsAgree, DependenciesKept, ScanWithoutFailure,
     StartsKept, StartsSpaced, Unregistered, Unlink
<1>3. DependenciesKept(f)'
  BY <1>0 DEF TypeOK, ExecInv, WorkersOwned, RowsAgree, DependenciesKept, ScanWithoutFailure,
     StartsKept, StartsSpaced, Unregistered, Unlink
<1>4. ScanWithoutFailure(f)'
  BY <1>0 DEF TypeOK, ExecInv, ScanWithoutFailure, Unregistered, Unlink
<1>5. StartsKept(f)'
  BY <1>0 DEF TypeOK, ExecInv, StartsKept, StartsSpaced, Unregistered, Unlink
<1>6. StartsSpaced(f)'
  BY <1>0 DEF TypeOK, ExecInv, StartsKept, StartsSpaced, Unregistered, Unlink
<1> QED
  BY <1>1, <1>2, <1>3, <1>4, <1>5, <1>6

(* Interrupt keeps every part of the invariant but the bound, see BoundKept. *)
LEMMA InterruptKeeps ==
  ASSUME IInv, ~SubmitFails, NEW e \in Executor, Interrupt(e),
         NEW f \in Executor
  PROVE  /\ WorkersOwned(f)'
         /\ RowsAgree(f)'
         /\ DependenciesKept(f)'
         /\ ScanWithoutFailure(f)'
         /\ StartsKept(f)'
         /\ StartsSpaced(f)'
<1> USE ExecutorAssumption, LimitAssumption
    DEF Goto, Fail, Never, Holding, Looping, Ended, WorkerStates
<1>0. TypeOK /\ ExecInv(e) /\ ExecInv(f)
  BY DEF IInv
<1>1. WorkersOwned(f)'
  BY <1>0 DEF TypeOK, ExecInv, WorkersOwned, RowsAgree, DependenciesKept, ScanWithoutFailure,
     StartsKept, StartsSpaced, Unregistered, Interrupt
<1>2. RowsAgree(f)'
  BY <1>0 DEF TypeOK, ExecInv, WorkersOwned, RowsAgree, DependenciesKept, ScanWithoutFailure,
     StartsKept, StartsSpaced, Unregistered, Interrupt
<1>3. DependenciesKept(f)'
  BY <1>0 DEF TypeOK, ExecInv, WorkersOwned, RowsAgree, DependenciesKept, ScanWithoutFailure,
     StartsKept, StartsSpaced, Unregistered, Interrupt
<1>4. ScanWithoutFailure(f)'
  BY <1>0 DEF TypeOK, ExecInv, ScanWithoutFailure, Unregistered, Interrupt
<1>5. StartsKept(f)'
  BY <1>0 DEF TypeOK, ExecInv, StartsKept, StartsSpaced, Unregistered, Interrupt
<1>6. StartsSpaced(f)'
  BY <1>0 DEF TypeOK, ExecInv, StartsKept, StartsSpaced, Unregistered, Interrupt
<1> QED
  BY <1>1, <1>2, <1>3, <1>4, <1>5, <1>6

(* Crash keeps every part of the invariant but the bound, see BoundKept. *)
LEMMA CrashKeeps ==
  ASSUME IInv, ~SubmitFails, NEW e \in Executor, Crash(e),
         NEW f \in Executor
  PROVE  /\ WorkersOwned(f)'
         /\ RowsAgree(f)'
         /\ DependenciesKept(f)'
         /\ ScanWithoutFailure(f)'
         /\ StartsKept(f)'
         /\ StartsSpaced(f)'
<1> USE ExecutorAssumption, LimitAssumption
    DEF Goto, Fail, Never, Holding, Looping, Ended, WorkerStates
<1>0. TypeOK /\ ExecInv(e) /\ ExecInv(f)
  BY DEF IInv
<1>1. WorkersOwned(f)'
  BY <1>0 DEF TypeOK, ExecInv, WorkersOwned, RowsAgree, DependenciesKept, ScanWithoutFailure,
     StartsKept, StartsSpaced, Unregistered, Crash
<1>2. RowsAgree(f)'
  BY <1>0 DEF TypeOK, ExecInv, WorkersOwned, RowsAgree, DependenciesKept, ScanWithoutFailure,
     StartsKept, StartsSpaced, Unregistered, Crash
<1>3. DependenciesKept(f)'
  BY <1>0 DEF TypeOK, ExecInv, WorkersOwned, RowsAgree, DependenciesKept, ScanWithoutFailure,
     StartsKept, StartsSpaced, Unregistered, Crash
<1>4. ScanWithoutFailure(f)'
  BY <1>0 DEF TypeOK, ExecInv, ScanWithoutFailure, Unregistered, Crash
<1>5. StartsKept(f)'
  BY <1>0 DEF TypeOK, ExecInv, StartsKept, StartsSpaced, Unregistered, Crash
<1>6. StartsSpaced(f)'
  BY <1>0 DEF TypeOK, ExecInv, StartsKept, StartsSpaced, Unregistered, Crash
<1> QED
  BY <1>1, <1>2, <1>3, <1>4, <1>5, <1>6

(* TimeOut keeps every part of the invariant but the bound, see BoundKept. *)
LEMMA TimeOutKeeps ==
  ASSUME IInv, ~SubmitFails, NEW e \in Executor, NEW j \in Job, TimeOut(e, j),
         NEW f \in Executor
  PROVE  /\ WorkersOwned(f)'
         /\ RowsAgree(f)'
         /\ DependenciesKept(f)'
         /\ ScanWithoutFailure(f)'
         /\ StartsKept(f)'
         /\ StartsSpaced(f)'
<1> USE ExecutorAssumption, LimitAssumption
    DEF Goto, Fail, Never, Holding, Looping, Ended, WorkerStates
<1>0. TypeOK /\ ExecInv(e) /\ ExecInv(f)
  BY DEF IInv
<1>1. WorkersOwned(f)'
  <2>1. CASE f = e
    BY <1>0, <2>1 DEF TypeOK, ExecInv, WorkersOwned, RowsAgree, DependenciesKept,
       ScanWithoutFailure, Unregistered, TimeOut, Overdue, Drained
  <2>2. CASE f # e
    BY <1>0, <2>2 DEF TypeOK, ExecInv, WorkersOwned, RowsAgree, DependenciesKept,
       ScanWithoutFailure, Unregistered, TimeOut, Overdue, Drained
  <2> QED
    BY <2>1, <2>2
<1>2. RowsAgree(f)'
  <2>1. CASE f = e
    BY <1>0, <2>1 DEF TypeOK, ExecInv, WorkersOwned, RowsAgree, DependenciesKept,
       ScanWithoutFailure, Unregistered, TimeOut, Overdue, Drained
  <2>2. CASE f # e
    BY <1>0, <2>2 DEF TypeOK, ExecInv, WorkersOwned, RowsAgree, DependenciesKept,
       ScanWithoutFailure, Unregistered, TimeOut, Overdue, Drained
  <2> QED
    BY <2>1, <2>2
<1>3. DependenciesKept(f)'
  <2>1. CASE f = e
    BY <1>0, <2>1 DEF TypeOK, ExecInv, WorkersOwned, RowsAgree, DependenciesKept,
       ScanWithoutFailure, Unregistered, TimeOut, Overdue, Drained
  <2>2. CASE f # e
    BY <1>0, <2>2 DEF TypeOK, ExecInv, WorkersOwned, RowsAgree, DependenciesKept,
       ScanWithoutFailure, Unregistered, TimeOut, Overdue, Drained
  <2> QED
    BY <2>1, <2>2
<1>4. ScanWithoutFailure(f)'
  BY <1>0 DEF TypeOK, ExecInv, ScanWithoutFailure, Unregistered, TimeOut, Overdue, Drained
<1>5. StartsKept(f)'
  BY <1>0 DEF TypeOK, ExecInv, StartsKept, StartsSpaced, Unregistered, TimeOut, Overdue, Drained
<1>6. StartsSpaced(f)'
  BY <1>0 DEF TypeOK, ExecInv, StartsKept, StartsSpaced, Unregistered, TimeOut, Overdue, Drained
<1> QED
  BY <1>1, <1>2, <1>3, <1>4, <1>5, <1>6

(* PassOver keeps every part of the invariant but the bound, see BoundKept. *)
LEMMA PassOverKeeps ==
  ASSUME IInv, ~SubmitFails, NEW e \in Executor, NEW j \in Job, PassOver(e, j),
         NEW f \in Executor
  PROVE  /\ WorkersOwned(f)'
         /\ RowsAgree(f)'
         /\ DependenciesKept(f)'
         /\ ScanWithoutFailure(f)'
         /\ StartsKept(f)'
         /\ StartsSpaced(f)'
<1> USE ExecutorAssumption, LimitAssumption
    DEF Goto, Fail, Never, Holding, Looping, Ended, WorkerStates
<1>0. TypeOK /\ ExecInv(e) /\ ExecInv(f)
  BY DEF IInv
<1>1. WorkersOwned(f)'
  BY <1>0 DEF TypeOK, ExecInv, WorkersOwned, RowsAgree, DependenciesKept, ScanWithoutFailure,
     StartsKept, StartsSpaced, Unregistered, PassOver, Overdue, Drained
<1>2. RowsAgree(f)'
  BY <1>0 DEF TypeOK, ExecInv, WorkersOwned, RowsAgree, DependenciesKept, ScanWithoutFailure,
     StartsKept, StartsSpaced, Unregistered, PassOver, Overdue, Drained
<1>3. DependenciesKept(f)'
  BY <1>0 DEF TypeOK, ExecInv, WorkersOwned, RowsAgree, DependenciesKept, ScanWithoutFailure,
     StartsKept, StartsSpaced, Unregistered, PassOver, Overdue, Drained
<1>4. ScanWithoutFailure(f)'
  BY <1>0 DEF TypeOK, ExecInv, ScanWithoutFailure, Unregistered, PassOver, Overdue, Drained
<1>5. StartsKept(f)'
  BY <1>0 DEF TypeOK, ExecInv, StartsKept, StartsSpaced, Unregistered, PassOver, Overdue,
     Drained
<1>6. StartsSpaced(f)'
  BY <1>0 DEF TypeOK, ExecInv, StartsKept, StartsSpaced, Unregistered, PassOver, Overdue,
     Drained
<1> QED
  BY <1>1, <1>2, <1>3, <1>4, <1>5, <1>6

(* Harvest keeps every part of the invariant but the bound, see BoundKept. *)
LEMMA HarvestKeeps ==
  ASSUME IInv, ~SubmitFails, NEW e \in Executor, NEW j \in Job, Harvest(e, j),
         NEW f \in Executor
  PROVE  /\ WorkersOwned(f)'
         /\ RowsAgree(f)'
         /\ DependenciesKept(f)'
         /\ ScanWithoutFailure(f)'
         /\ StartsKept(f)'
         /\ StartsSpaced(f)'
<1> USE ExecutorAssumption, LimitAssumption
    DEF Goto, Fail, Never, Holding, Looping, Ended, WorkerStates
<1>0. TypeOK /\ ExecInv(e) /\ ExecInv(f)
  BY DEF IInv
<1>1. WorkersOwned(f)'
  <2>1. CASE f = e
    BY <1>0, <2>1 DEF TypeOK, ExecInv, WorkersOwned, RowsAgree, DependenciesKept,
       ScanWithoutFailure, Unregistered, Harvest, Accepted, ResponseValid, Overdue, Drained
  <2>2. CASE f # e
    BY <1>0, <2>2 DEF TypeOK, ExecInv, WorkersOwned, RowsAgree, DependenciesKept,
       ScanWithoutFailure, Unregistered, Harvest, Accepted, ResponseValid, Overdue, Drained
  <2> QED
    BY <2>1, <2>2
<1>2. RowsAgree(f)'
  <2>1. CASE f = e
    BY <1>0, <2>1 DEF TypeOK, ExecInv, WorkersOwned, RowsAgree, DependenciesKept,
       ScanWithoutFailure, Unregistered, Harvest, Accepted, ResponseValid, Overdue, Drained
  <2>2. CASE f # e
    BY <1>0, <2>2 DEF TypeOK, ExecInv, WorkersOwned, RowsAgree, DependenciesKept,
       ScanWithoutFailure, Unregistered, Harvest, Accepted, ResponseValid, Overdue, Drained
  <2> QED
    BY <2>1, <2>2
<1>3. DependenciesKept(f)'
  <2>1. CASE f = e
    BY <1>0, <2>1 DEF TypeOK, ExecInv, WorkersOwned, RowsAgree, DependenciesKept,
       ScanWithoutFailure, Unregistered, Harvest, Accepted, ResponseValid, Overdue, Drained
  <2>2. CASE f # e
    BY <1>0, <2>2 DEF TypeOK, ExecInv, WorkersOwned, RowsAgree, DependenciesKept,
       ScanWithoutFailure, Unregistered, Harvest, Accepted, ResponseValid, Overdue, Drained
  <2> QED
    BY <2>1, <2>2
<1>4. ScanWithoutFailure(f)'
  BY <1>0 DEF TypeOK, ExecInv, ScanWithoutFailure, Unregistered, Harvest, Accepted, Overdue,
     Drained
<1>5. StartsKept(f)'
  BY <1>0 DEF TypeOK, ExecInv, StartsKept, StartsSpaced, Unregistered, Harvest, Accepted,
     Overdue, Drained
<1>6. StartsSpaced(f)'
  BY <1>0 DEF TypeOK, ExecInv, StartsKept, StartsSpaced, Unregistered, Harvest, Accepted,
     Overdue, Drained
<1> QED
  BY <1>1, <1>2, <1>3, <1>4, <1>5, <1>6

(* Spawn keeps every part of the invariant but the bound, see BoundKept. *)
LEMMA SpawnKeeps ==
  ASSUME IInv, ~SubmitFails, NEW e \in Executor, NEW j \in Job, Spawn(e, j),
         NEW f \in Executor
  PROVE  /\ WorkersOwned(f)'
         /\ RowsAgree(f)'
         /\ DependenciesKept(f)'
         /\ ScanWithoutFailure(f)'
         /\ StartsKept(f)'
         /\ StartsSpaced(f)'
<1> USE ExecutorAssumption, LimitAssumption
    DEF Goto, Fail, Never, Holding, Looping, Ended, WorkerStates
<1>0. TypeOK /\ ExecInv(e) /\ ExecInv(f)
  BY DEF IInv
<1>1. WorkersOwned(f)'
  BY <1>0 DEF TypeOK, ExecInv, WorkersOwned, RowsAgree, DependenciesKept, ScanWithoutFailure,
     StartsKept, StartsSpaced, Unregistered, Spawn, Admitted, ScanGoesOn, Offers,
     Dispatchable, HostRested, Least
<1>2. RowsAgree(f)'
  BY <1>0 DEF TypeOK, ExecInv, WorkersOwned, RowsAgree, DependenciesKept, ScanWithoutFailure,
     StartsKept, StartsSpaced, Unregistered, Spawn, Admitted, ScanGoesOn, Offers,
     Dispatchable, HostRested, Least
<1>3. DependenciesKept(f)'
  BY <1>0 DEF TypeOK, ExecInv, WorkersOwned, RowsAgree, DependenciesKept, ScanWithoutFailure,
     StartsKept, StartsSpaced, Unregistered, Spawn, Admitted, ScanGoesOn, Offers,
     Dispatchable, HostRested, Least
<1>4. ScanWithoutFailure(f)'
  BY <1>0 DEF TypeOK, ExecInv, ScanWithoutFailure, Unregistered, Spawn, Admitted, ScanGoesOn,
     Offers, Dispatchable, HostRested, Least
<1>5. StartsKept(f)'
  BY <1>0 DEF TypeOK, ExecInv, StartsKept, StartsSpaced, Unregistered, Spawn, Admitted,
     ScanGoesOn, Offers, Dispatchable, HostRested, Least
<1>6. StartsSpaced(f)'
  BY <1>0 DEF TypeOK, ExecInv, StartsKept, StartsSpaced, Unregistered, Spawn, Admitted,
     ScanGoesOn, Offers, Dispatchable, HostRested, Least
<1> QED
  BY <1>1, <1>2, <1>3, <1>4, <1>5, <1>6

(* SpawnFails keeps every part of the invariant but the bound, see BoundKept. *)
LEMMA SpawnFailsKeeps ==
  ASSUME IInv, ~SubmitFails, NEW e \in Executor, NEW j \in Job, SpawnFails(e, j),
         NEW f \in Executor
  PROVE  /\ WorkersOwned(f)'
         /\ RowsAgree(f)'
         /\ DependenciesKept(f)'
         /\ ScanWithoutFailure(f)'
         /\ StartsKept(f)'
         /\ StartsSpaced(f)'
<1> USE ExecutorAssumption, LimitAssumption
    DEF Goto, Fail, Never, Holding, Looping, Ended, WorkerStates
<1>0. TypeOK /\ ExecInv(e) /\ ExecInv(f)
  BY DEF IInv
<1>1. WorkersOwned(f)'
  BY <1>0 DEF TypeOK, ExecInv, WorkersOwned, RowsAgree, DependenciesKept, ScanWithoutFailure,
     StartsKept, StartsSpaced, Unregistered, SpawnFails, Admitted, ScanGoesOn, Offers,
     Dispatchable, HostRested, Least
<1>2. RowsAgree(f)'
  BY <1>0 DEF TypeOK, ExecInv, WorkersOwned, RowsAgree, DependenciesKept, ScanWithoutFailure,
     StartsKept, StartsSpaced, Unregistered, SpawnFails, Admitted, ScanGoesOn, Offers,
     Dispatchable, HostRested, Least
<1>3. DependenciesKept(f)'
  BY <1>0 DEF TypeOK, ExecInv, WorkersOwned, RowsAgree, DependenciesKept, ScanWithoutFailure,
     StartsKept, StartsSpaced, Unregistered, SpawnFails, Admitted, ScanGoesOn, Offers,
     Dispatchable, HostRested, Least
<1>4. ScanWithoutFailure(f)'
  BY <1>0 DEF TypeOK, ExecInv, ScanWithoutFailure, Unregistered, SpawnFails, Admitted,
     ScanGoesOn, Offers, Dispatchable, HostRested, Least
<1>5. StartsKept(f)'
  BY <1>0 DEF TypeOK, ExecInv, StartsKept, StartsSpaced, Unregistered, SpawnFails, Admitted,
     ScanGoesOn, Offers, Dispatchable, HostRested, Least
<1>6. StartsSpaced(f)'
  BY <1>0 DEF TypeOK, ExecInv, StartsKept, StartsSpaced, Unregistered, SpawnFails, Admitted,
     ScanGoesOn, Offers, Dispatchable, HostRested, Least
<1> QED
  BY <1>1, <1>2, <1>3, <1>4, <1>5, <1>6

(* WorkerEnds keeps every part of the invariant but the bound, see BoundKept. *)
LEMMA WorkerEndsKeeps ==
  ASSUME IInv, ~SubmitFails, NEW e \in Executor, NEW j \in Job, WorkerEnds(e, j),
         NEW f \in Executor
  PROVE  /\ WorkersOwned(f)'
         /\ RowsAgree(f)'
         /\ DependenciesKept(f)'
         /\ ScanWithoutFailure(f)'
         /\ StartsKept(f)'
         /\ StartsSpaced(f)'
<1> USE ExecutorAssumption, LimitAssumption
    DEF Goto, Fail, Never, Holding, Looping, Ended, WorkerStates
<1>0. TypeOK /\ ExecInv(e) /\ ExecInv(f)
  BY DEF IInv
<1>1. WorkersOwned(f)'
  BY <1>0 DEF TypeOK, ExecInv, WorkersOwned, RowsAgree, DependenciesKept, ScanWithoutFailure,
     StartsKept, StartsSpaced, Unregistered, WorkerEnds, locals
<1>2. RowsAgree(f)'
  BY <1>0 DEF TypeOK, ExecInv, WorkersOwned, RowsAgree, DependenciesKept, ScanWithoutFailure,
     StartsKept, StartsSpaced, Unregistered, WorkerEnds, locals
<1>3. DependenciesKept(f)'
  BY <1>0 DEF TypeOK, ExecInv, WorkersOwned, RowsAgree, DependenciesKept, ScanWithoutFailure,
     StartsKept, StartsSpaced, Unregistered, WorkerEnds, locals
<1>4. ScanWithoutFailure(f)'
  BY <1>0 DEF TypeOK, ExecInv, ScanWithoutFailure, Unregistered, WorkerEnds, locals
<1>5. StartsKept(f)'
  BY <1>0 DEF TypeOK, ExecInv, StartsKept, StartsSpaced, Unregistered, WorkerEnds, locals
<1>6. StartsSpaced(f)'
  BY <1>0 DEF TypeOK, ExecInv, StartsKept, StartsSpaced, Unregistered, WorkerEnds, locals
<1> QED
  BY <1>1, <1>2, <1>3, <1>4, <1>5, <1>6

(* The passing of time keeps every part. *)
LEMMA TickKeeps ==
  ASSUME IInv, Tick, NEW f \in Executor
  PROVE  ExecInv(f)'
<1> USE ExecutorAssumption, LimitAssumption
    DEF Goto, Fail, Never, Holding, Looping, Ended, WorkerStates
<1>0. TypeOK /\ ExecInv(f)
  BY DEF IInv
<1>1. InFlightBounded(f)'
  BY <1>0 DEF ExecInv, InFlightBounded, Unregistered, Tick, locals
<1>2. (WorkersOwned(f) /\ RowsAgree(f) /\ DependenciesKept(f))'
  BY <1>0 DEF ExecInv, WorkersOwned, RowsAgree, DependenciesKept, Unregistered, Tick, locals
<1>3. ScanWithoutFailure(f)' /\ StartsSpaced(f)'
  BY <1>0 DEF TypeOK, ExecInv, ScanWithoutFailure, StartsSpaced, Tick, locals
<1>4. clock' = clock + 1 /\ clock \in Nat /\ seen[f] \in Nat
      /\ \A h \in Host : lastHost[f][h] \in Nat \union {-1}
  BY <1>0 DEF TypeOK, Tick
<1>5. StartsKept(f)'
  BY <1>0, <1>4 DEF ExecInv, StartsKept, Tick, locals
<1> QED
  BY <1>1, <1>2, <1>3, <1>5 DEF ExecInv

(* A step after which no worker is in flight that was not before.          *)
LEMMA NoneAdded ==
  ASSUME TypeOK, NEW f \in Executor, InFlightBounded(f),
         (running[f] \union Unregistered(f))' \subseteq running[f] \union Unregistered(f)
  PROVE  InFlightBounded(f)'
<1> DEFINE S == running[f] \union Unregistered(f)
<1>1. S \in SUBSET Job
  BY DEF TypeOK, Unregistered
<1>2. IsFiniteSet(S) /\ Cardinality(S) \in Nat /\ S' \in SUBSET Job
  BY <1>1, FiniteJobs
<1>3. Cardinality(S') \in Nat /\ Cardinality(S') <= Cardinality(S)
  BY <1>2, FiniteJobs, FS_Subset
<1> QED
  BY <1>2, <1>3, LimitAssumption DEF InFlightBounded

(* Only Spawn puts a worker in flight, and it saw room for one. *)
LEMMA BoundKept ==
  ASSUME IInv, ~SubmitFails, NEW e \in Executor, NEW f \in Executor,
         Step(e) \/ Interrupt(e) \/ Crash(e) \/ \E j \in Job : WorkerEnds(e, j)
  PROVE  InFlightBounded(f)'
<1>0. TypeOK /\ ExecInv(f) /\ ExecInv(e) /\ InFlightBounded(f)
  BY DEF IInv, ExecInv
<1>1. ASSUME NEW j \in Job, Spawn(e, j) PROVE InFlightBounded(f)'
  <2>1. CASE f = e
    <3>1. spawned[e] = NoJob /\ running'[e] = running[e] /\ spawned'[e] = j
      BY <1>0, <1>1 DEF TypeOK, ExecInv, WorkersOwned, Spawn, Admitted
    <3>2. (running[e] \union Unregistered(e))' = running[e] \union {j}
      BY <3>1, ExecutorAssumption DEF Unregistered
    <3>3. Cardinality(running[e]) < MAX_WORKERS
      BY <1>1 DEF Spawn, Admitted, ScanGoesOn
    <3>4. running[e] \in SUBSET Job
      BY <1>0 DEF TypeOK
    <3>5. IsFiniteSet(running[e]) /\ Cardinality(running[e]) \in Nat
      BY <3>4, FiniteJobs
    <3>6. Cardinality(running[e] \union {j}) = IF j \in running[e] THEN Cardinality(running[e])
                                              ELSE Cardinality(running[e]) + 1
      BY <3>5, FS_AddElement, ZenonT(20)
    <3>7. Cardinality(running[e] \union {j}) <= MAX_WORKERS
      BY <3>3, <3>5, <3>6, LimitAssumption
    <3> QED
      BY <2>1, <3>2, <3>7 DEF InFlightBounded
  <2>2. CASE f # e
    BY <1>0, <1>1, <2>2, NoneAdded DEF TypeOK, Spawn, Admitted, Unregistered, Goto
  <2> QED
    BY <2>1, <2>2
<1>2. ASSUME NEW j \in Job, TimeOut(e, j) \/ PassOver(e, j) \/ Harvest(e, j)
             \/ SpawnFails(e, j) \/ WorkerEnds(e, j)
      PROVE InFlightBounded(f)'
  <2>1. (running[f] \union Unregistered(f))' \subseteq running[f] \union Unregistered(f)
    <3>1. running' = running \/ (running'[e] \subseteq running[e] /\ (f # e => running'[f] = running[f]))
      BY <1>0, <1>2 DEF TypeOK, TimeOut, PassOver, Harvest, SpawnFails, WorkerEnds, locals
    <3>2. spawned' = spawned
      BY <1>2 DEF TimeOut, PassOver, Harvest, SpawnFails, WorkerEnds, locals
    <3> QED
      BY <3>1, <3>2 DEF Unregistered
  <2> QED
    BY <1>0, <2>1, NoneAdded
<1>3. CASE Begin(e) \/ TakeLock(e) \/ Iterate(e) \/ Cancel(e) \/ Polled(e) \/ ScanEnds(e)
           \/ OutOfBudget(e) \/ Reread(e) \/ LoopEnds(e) \/ CleanUp(e) \/ Unlink(e)
           \/ Interrupt(e) \/ Crash(e)
  <2>1. (running[f] \union Unregistered(f))' \subseteq running[f] \union Unregistered(f)
    BY <1>0, <1>3 DEF TypeOK, Begin, TakeLock, Iterate, Cancel, Polled, ScanEnds, OutOfBudget,
       Reread, LoopEnds, CleanUp, Unlink, Interrupt, Crash, Unregistered
  <2> QED
    BY <1>0, <2>1, NoneAdded
<1>4. CASE Register(e)
  <2>1. (running[f] \union Unregistered(f))' \subseteq running[f] \union Unregistered(f)
    BY <1>0, <1>4, ExecutorAssumption DEF TypeOK, Register, Unregistered, ExecInv, WorkersOwned
  <2> QED
    BY <1>0, <2>1, NoneAdded
<1> QED
  BY <1>1, <1>2, <1>3, <1>4 DEF Step

(* Types are kept; the bound in TypeOK follows from InFlightBounded. *)
LEMMA TypesKept == ASSUME IInv, ~SubmitFails, Next PROVE TypeOK'
<1> USE ExecutorAssumption, LimitAssumption
    DEF Goto, Fail, Never, Holding, Looping, Ended, WorkerStates
<1>0. TypeOK
  BY DEF IInv
<1> DEFINE Types == /\ clock \in Nat
                    /\ lock \in Executor \union {NoExecutor}
                    /\ worker \in [Executor -> [Job -> WorkerStates]]
                    /\ pc \in [Executor -> {"idle", "lock"} \union Holding \union Ended]
                    /\ seen \in [Executor -> Nat]
                    /\ pending \in [Executor -> SUBSET Job]
                    /\ running \in [Executor -> SUBSET Job]
                    /\ completed \in [Executor -> SUBSET Job]
                    /\ reported \in [Executor -> [Job -> {"none", "ok", "failed"}]]
                    /\ failure \in [Executor -> BOOLEAN]
                    /\ timedOut \in [Executor -> SUBSET Job]
                    /\ started \in [Executor -> [Job -> Nat \union {Never}]]
                    /\ lastHost \in [Executor -> [Host -> Nat \union {Never}]]
                    /\ todo \in [Executor -> SUBSET Job]
                    /\ spawned \in [Executor -> Job \union {NoJob}]
<1>1. Types
  BY <1>0 DEF TypeOK
<1> HIDE DEF Types
<1>2. ASSUME Tick PROVE Types'
  <2>1. clock' \in Nat
    BY <1>1, <1>2 DEF Types, Tick
  <2>2. /\ lock' = lock /\ worker' = worker /\ pc' = pc /\ seen' = seen /\ pending' = pending
        /\ running' = running /\ completed' = completed /\ reported' = reported
        /\ failure' = failure /\ timedOut' = timedOut /\ started' = started
        /\ lastHost' = lastHost /\ todo' = todo /\ spawned' = spawned
    BY <1>2 DEF Tick, locals
  <2> QED
    BY ONLY <1>1, <2>1, <2>2 DEF Types
<1>3. ASSUME NEW e \in Executor, Begin(e) PROVE Types'
  BY <1>1, <1>3 DEF Types, Begin
<1>4. ASSUME NEW e \in Executor, TakeLock(e) PROVE Types'
  BY <1>1, <1>4 DEF Types, TakeLock
<1>5. ASSUME NEW e \in Executor, Iterate(e) PROVE Types'
  BY <1>1, <1>5 DEF Types, Iterate
<1>6. ASSUME NEW e \in Executor, Cancel(e) PROVE Types'
  BY <1>1, <1>6 DEF Types, Cancel
<1>7. ASSUME NEW e \in Executor, Polled(e) PROVE Types'
  BY <1>1, <1>7 DEF Types, Polled
<1>8. ASSUME NEW e \in Executor, ScanEnds(e) PROVE Types'
  BY <1>1, <1>8 DEF Types, ScanEnds
<1>9. ASSUME NEW e \in Executor, OutOfBudget(e) PROVE Types'
  BY <1>1, <1>9 DEF Types, OutOfBudget
<1>10. ASSUME NEW e \in Executor, Register(e) PROVE Types'
  <2>1. spawned[e] \in Job
    BY <1>0, <1>10 DEF IInv, TypeOK, ExecInv, WorkersOwned, Register
  <2> QED
    BY <1>1, <1>10, <2>1 DEF Types, Register
<1>11. ASSUME NEW e \in Executor, Reread(e) PROVE Types'
  BY <1>1, <1>11 DEF Types, Reread
<1>12. ASSUME NEW e \in Executor, LoopEnds(e) PROVE Types'
  BY <1>1, <1>12 DEF Types, LoopEnds
<1>13. ASSUME NEW e \in Executor, CleanUp(e) PROVE Types'
  BY <1>1, <1>13 DEF Types, CleanUp
<1>14. ASSUME NEW e \in Executor, Unlink(e) PROVE Types'
  BY <1>1, <1>14 DEF Types, Unlink
<1>15. ASSUME NEW e \in Executor, Interrupt(e) PROVE Types'
  BY <1>1, <1>15 DEF Types, Interrupt
<1>16. ASSUME NEW e \in Executor, Crash(e) PROVE Types'
  BY <1>1, <1>16 DEF Types, Crash
<1>17. ASSUME NEW e \in Executor, NEW j \in Job, TimeOut(e, j) PROVE Types'
  BY <1>1, <1>17 DEF Types, TimeOut
<1>18. ASSUME NEW e \in Executor, NEW j \in Job, PassOver(e, j) PROVE Types'
  BY <1>1, <1>18 DEF Types, PassOver
<1>19. ASSUME NEW e \in Executor, NEW j \in Job, Harvest(e, j) PROVE Types'
  <2>1. reported' \in [Executor -> [Job -> {"none", "ok", "failed"}]]
    BY <1>1, <1>19 DEF Types, Harvest
  <2>4. completed' \in [Executor -> SUBSET Job]
    <3>1. completed' \in {completed, [completed EXCEPT ![e] = @ \union {j}]}
      BY <1>19 DEF Harvest
    <3>2. completed \in [Executor -> SUBSET Job]
      BY <1>1 DEF Types
    <3> QED
      BY ONLY <3>1, <3>2, <1>19
  <2>2. failure' \in [Executor -> BOOLEAN]
    BY <1>1, <1>19 DEF Types, Harvest
  <2>3. /\ running' \in [Executor -> SUBSET Job] /\ todo' \in [Executor -> SUBSET Job]
    BY <1>1, <1>19 DEF Types, Harvest
  <2> QED
    BY ONLY <1>1, <1>19, <2>1, <2>2, <2>3, <2>4 DEF Types, Harvest
<1>20. ASSUME NEW e \in Executor, NEW j \in Job, Spawn(e, j) PROVE Types'
  BY <1>1, <1>20 DEF Types, Spawn, Admitted
<1>21. ASSUME NEW e \in Executor, NEW j \in Job, SpawnFails(e, j) PROVE Types'
  BY <1>1, <1>21 DEF Types, SpawnFails, Admitted
<1>22. ASSUME NEW e \in Executor, NEW j \in Job, WorkerEnds(e, j) PROVE Types'
  BY <1>1, <1>22 DEF Types, WorkerEnds, locals
<1>23. Types'
  <2>1. ASSUME NEW e \in Executor, Step(e) PROVE Types'
    BY ONLY <2>1, <1>3, <1>4, <1>5, <1>6, <1>7, <1>8, <1>9, <1>10, <1>11, <1>12, <1>13, <1>14,
       <1>15, <1>16, <1>17, <1>18, <1>19, <1>20, <1>21, <1>22 DEF Step
  <2>2. ASSUME NEW e \in Executor, Interrupt(e) \/ Crash(e) \/ \E j \in Job : WorkerEnds(e, j) PROVE Types'
    BY ONLY <2>2, <1>15, <1>16, <1>22
  <2> QED
    BY <1>2, <2>1, <2>2 DEF Next
<1>24. ASSUME NEW f \in Executor PROVE Cardinality(running'[f]) <= MAX_WORKERS
  <2>1. InFlightBounded(f)'
    BY <1>24, BoundKept, TickKeeps DEF Next, ExecInv
  <2>2. running'[f] \in SUBSET Job /\ (running[f] \union Unregistered(f))' \in SUBSET Job
    BY <1>23 DEF Types, Unregistered
  <2>3. IsFiniteSet((running[f] \union Unregistered(f))')
        /\ Cardinality((running[f] \union Unregistered(f))') \in Nat /\ Cardinality(running'[f]) \in Nat
    BY <2>2, FiniteJobs
  <2>4. Cardinality(running'[f]) <= Cardinality((running[f] \union Unregistered(f))')
    BY <2>3, FS_Subset
  <2> QED
    BY <2>1, <2>3, <2>4 DEF InFlightBounded
<1> QED
  BY <1>23, <1>24 DEF Types, TypeOK

(* Every step keeps the invariant. *)
LEMMA InvariantKept == ASSUME IInv, ~SubmitFails, [Next]_vars PROVE IInv'
<1>1. CASE Next
  <2>1. TypeOK'
    BY <1>1, TypesKept
  <2>2. ASSUME NEW f \in Executor PROVE ExecInv(f)'
    <3>1. CASE Tick
      BY <3>1, TickKeeps
    <3>2. ASSUME NEW e \in Executor, Begin(e) PROVE ExecInv(f)'
      BY <3>2, BeginKeeps, BoundKept DEF ExecInv, Step
    <3>3. ASSUME NEW e \in Executor, TakeLock(e) PROVE ExecInv(f)'
      BY <3>3, TakeLockKeeps, BoundKept DEF ExecInv, Step
    <3>4. ASSUME NEW e \in Executor, Iterate(e) PROVE ExecInv(f)'
      BY <3>4, IterateKeeps, BoundKept DEF ExecInv, Step
    <3>5. ASSUME NEW e \in Executor, Cancel(e) PROVE ExecInv(f)'
      BY <3>5, CancelKeeps, BoundKept DEF ExecInv, Step
    <3>6. ASSUME NEW e \in Executor, Polled(e) PROVE ExecInv(f)'
      BY <3>6, PolledKeeps, BoundKept DEF ExecInv, Step
    <3>7. ASSUME NEW e \in Executor, ScanEnds(e) PROVE ExecInv(f)'
      BY <3>7, ScanEndsKeeps, BoundKept DEF ExecInv, Step
    <3>8. ASSUME NEW e \in Executor, OutOfBudget(e) PROVE ExecInv(f)'
      BY <3>8, OutOfBudgetKeeps, BoundKept DEF ExecInv, Step
    <3>9. ASSUME NEW e \in Executor, Register(e) PROVE ExecInv(f)'
      BY <3>9, RegisterKeeps, BoundKept DEF ExecInv, Step
    <3>10. ASSUME NEW e \in Executor, Reread(e) PROVE ExecInv(f)'
      BY <3>10, RereadKeeps, BoundKept DEF ExecInv, Step
    <3>11. ASSUME NEW e \in Executor, LoopEnds(e) PROVE ExecInv(f)'
      BY <3>11, LoopEndsKeeps, BoundKept DEF ExecInv, Step
    <3>12. ASSUME NEW e \in Executor, CleanUp(e) PROVE ExecInv(f)'
      BY <3>12, CleanUpKeeps, BoundKept DEF ExecInv, Step
    <3>13. ASSUME NEW e \in Executor, Unlink(e) PROVE ExecInv(f)'
      BY <3>13, UnlinkKeeps, BoundKept DEF ExecInv, Step
    <3>14. ASSUME NEW e \in Executor, Interrupt(e) PROVE ExecInv(f)'
      BY <3>14, InterruptKeeps, BoundKept DEF ExecInv, Step
    <3>15. ASSUME NEW e \in Executor, Crash(e) PROVE ExecInv(f)'
      BY <3>15, CrashKeeps, BoundKept DEF ExecInv, Step
    <3>16. ASSUME NEW e \in Executor, NEW j \in Job, TimeOut(e, j) PROVE ExecInv(f)'
      BY <3>16, TimeOutKeeps, BoundKept DEF ExecInv, Step
    <3>17. ASSUME NEW e \in Executor, NEW j \in Job, PassOver(e, j) PROVE ExecInv(f)'
      BY <3>17, PassOverKeeps, BoundKept DEF ExecInv, Step
    <3>18. ASSUME NEW e \in Executor, NEW j \in Job, Harvest(e, j) PROVE ExecInv(f)'
      BY <3>18, HarvestKeeps, BoundKept DEF ExecInv, Step
    <3>19. ASSUME NEW e \in Executor, NEW j \in Job, Spawn(e, j) PROVE ExecInv(f)'
      BY <3>19, SpawnKeeps, BoundKept DEF ExecInv, Step
    <3>20. ASSUME NEW e \in Executor, NEW j \in Job, SpawnFails(e, j) PROVE ExecInv(f)'
      BY <3>20, SpawnFailsKeeps, BoundKept DEF ExecInv, Step
    <3>21. ASSUME NEW e \in Executor, NEW j \in Job, WorkerEnds(e, j) PROVE ExecInv(f)'
      BY <3>21, WorkerEndsKeeps, BoundKept DEF ExecInv, Step
    <3> QED
      BY <1>1, <3>1, <3>2, <3>3, <3>4, <3>5, <3>6, <3>7, <3>8, <3>9, <3>10, <3>11, <3>12,
         <3>13, <3>14, <3>15, <3>16, <3>17, <3>18, <3>19, <3>20, <3>21 DEF Next, Step
  <2> QED
    BY <2>1, <2>2 DEF IInv
<1>2. CASE UNCHANGED vars
  <2>1. TypeOK'
    BY <1>2 DEF IInv, TypeOK, vars, locals
  <2>2. ASSUME NEW f \in Executor PROVE ExecInv(f)'
    <3>1. ExecInv(f)
      BY DEF IInv
    <3>2. (WorkersOwned(f) /\ InFlightBounded(f) /\ DependenciesKept(f))'
      BY <1>2, <3>1 DEF ExecInv, WorkersOwned, InFlightBounded, DependenciesKept,
         Unregistered, vars, locals
    <3>3. (RowsAgree(f) /\ ScanWithoutFailure(f))'
      BY <1>2, <3>1 DEF ExecInv, RowsAgree, ScanWithoutFailure, vars, locals
    <3>4. (StartsKept(f) /\ StartsSpaced(f))'
      BY <1>2, <3>1 DEF ExecInv, StartsKept, StartsSpaced, vars, locals
    <3> QED
      BY <3>2, <3>3, <3>4 DEF ExecInv
  <2> QED
    BY <2>1, <2>2 DEF IInv
<1> QED
  BY <1>1, <1>2

(* The parts above, together with the types, always hold. *)
THEOREM Invariance == ~SubmitFails => (Spec => []IInv)
<1> SUFFICES ASSUME ~SubmitFails PROVE Spec => []IInv
  OBVIOUS
<1>1. Init => IInv
  BY Initially
<1>2. IInv /\ [Next]_vars => IInv'
  BY InvariantKept
<1> QED
  BY <1>1, <1>2, PTL DEF Spec

(* Types are kept for any plan, any limits and any number of executors.    *)
THEOREM TypeCorrect == ~SubmitFails => (Spec => []TypeOK)
<1>1. IInv => TypeOK
  BY DEF IInv
<1> QED
  BY <1>1, Invariance, PTL

(* At most MAX_WORKERS worker processes exist, however many executors are  *)
(* started and whichever of them die.                                      *)
THEOREM LimitIsGlobal == ~SubmitFails => (Spec => []GlobalLimit)
<1>1. ASSUME IInv PROVE GlobalLimit
  <2>1. CASE Live = {}
    BY <2>1, FS_EmptySet, LimitAssumption DEF GlobalLimit
  <2>2. CASE Live # {}
    <3>1. PICK w \in Live : TRUE
      BY <2>2
    <3>2. lock = w[1] /\ w[1] \in Executor
      BY <1>1, <3>1 DEF IInv, ExecInv, WorkersOwned, Live
    <3> DEFINE S == running[lock] \union Unregistered(lock)
    <3>3. IsFiniteSet(S) /\ Cardinality(S) \in Nat /\ Cardinality(S) <= MAX_WORKERS
      <4>1. S \in SUBSET Job
        BY <1>1, <3>2 DEF IInv, TypeOK, Unregistered
      <4> QED
        BY <1>1, <3>2, <4>1, FiniteJobs DEF IInv, ExecInv, InFlightBounded
    <3>4. \A v \in Live : v = <<lock, v[2]>> /\ v[2] \in S
      BY <1>1 DEF IInv, ExecInv, WorkersOwned, Live
    <3> DEFINE f == [v \in Live |-> v[2]]
    <3>5. f \in Injection(Live, S)
      BY <3>4 DEF Injection, IsInjective
    <3>6. IsFiniteSet(Live) /\ Cardinality(Live) <= Cardinality(S)
      BY <3>3, <3>5, FS_Injection
    <3> QED
      BY <3>3, <3>6, FS_CardinalityType, LimitAssumption DEF GlobalLimit
  <2> QED
    BY <2>1, <2>2
<1> QED
  BY <1>1, Invariance, PTL

(* An executor that has ended with a report or an exception has reaped all *)
(* its workers.                                                            *)
THEOREM NothingLeftBehind == ~SubmitFails => (Spec => []NoResidualWorker)
<1>1. IInv => NoResidualWorker
  BY DEF IInv, ExecInv, WorkersOwned, NoResidualWorker, Live, Looping
<1> QED
  BY <1>1, Invariance, PTL

(* A request is only started when all it depends on was answered in time.  *)
THEOREM DependenciesAnswered == ~SubmitFails => (Spec => []DependenciesFirst)
<1>1. IInv => DependenciesFirst
  BY ExecutorAssumption DEF IInv, TypeOK, ExecInv, DependenciesKept, RowsAgree,
     DependenciesFirst
<1> QED
  BY <1>1, Invariance, PTL

(* Starts on one host are spaced, whatever time passes inside a scan.      *)
THEOREM StartsAreSpaced == ~SubmitFails => (Spec => []HostSpaced)
<1>1. IInv => HostSpaced
  BY DEF IInv, ExecInv, StartsSpaced, HostSpaced
<1> QED
  BY <1>1, Invariance, PTL

(* A report accounts for every job, and success means every job.           *)
THEOREM ReportsComplete == ~SubmitFails => (Spec => []ReportComplete)
<1>1. IInv => ReportComplete
  BY DEF IInv, TypeOK, ExecInv, RowsAgree, ReportComplete
<1> QED
  BY <1>1, Invariance, PTL

(* After a failure nothing more is started.                                *)
THEOREM NothingStartedAfterFailure == ~SubmitFails => (Spec => NoStartAfterFailure)
<1> SUFFICES ASSUME ~SubmitFails PROVE Spec => NoStartAfterFailure
  OBVIOUS
<1>1. ASSUME IInv, ~SubmitFails, [Next]_vars, NEW e \in Executor, failure[e], NEW j \in Job
      PROVE started'[e][j] = started[e][j]
  <2>1. ASSUME NEW f \in Executor, NEW i \in Job, Admitted(f, i) PROVE started'[e][j] = started[e][j]
    BY <1>1, <2>1 DEF IInv, TypeOK, ExecInv, ScanWithoutFailure, Admitted
  <2>2. CASE started' = started
    BY <2>2
  <2> QED
    BY <1>1, <2>1, <2>2 DEF Next, Step, vars, locals, Tick, Begin, TakeLock, Iterate, Cancel,
       Polled, TimeOut, PassOver, Harvest, ScanEnds, OutOfBudget, Spawn, SpawnFails, Register,
       Reread, LoopEnds, CleanUp, Unlink, Interrupt, Crash, WorkerEnds
<1>2. IInv /\ [Next]_vars =>
        [\A e \in Executor : failure[e] => \A j \in Job : started'[e][j] = started[e][j]]_vars
  BY <1>1
<1>3. Spec => []IInv
  BY Invariance
<1> QED
  BY <1>2, <1>3, PTL DEF Spec, NoStartAfterFailure
-----------------------------------------------------------------------------
(* The budget simulation.                                                  *)

(* The hosts and dependencies of a plan are hosts and jobs.                *)
PlansAreTyped ==
  Plans \subseteq [deps : [Job -> SUBSET Job], host : [Job -> Host], release : [Job -> Int]]

(* Each job is pending, running or completed, the plan is valid, and what  *)
(* runs ends later than the cursor.                                        *)
LoopInv == /\ BudgetTypeOK
           /\ ValidPlan(plan)
           /\ waiting \union inFlight \union finished = Job
           /\ \A j \in inFlight : endAt[j] > cursor

(* The loop starts with every job pending.                                 *)
LEMMA BudgetStarts == ASSUME PlansAreTyped, BudgetInit PROVE LoopInv
BY LimitAssumption DEF PlansAreTyped, BudgetInit, LoopInv, BudgetTypeOK, Times, Never

(* What Launch does, with the job it starts.                               *)
Launches(j) ==
  /\ startedAt' = [startedAt EXCEPT ![j] = cursor]
  /\ endAt' = [endAt EXCEPT ![j] = cursor + duration[j]]
  /\ hostStart' = [hostStart EXCEPT ![plan.host[j]] = cursor]
  /\ inFlight' = inFlight \union {j}
  /\ waiting' = waiting \ {j}
  /\ UNCHANGED <<phase, plan, duration, cursor, finished, worst>>

LEMMA LaunchStarts ==
  ASSUME LoopInv, Launch PROVE \E j \in Ready : j \in Job /\ j \in waiting /\ Launches(j)
<1>1. PICK j \in Least(Ready) :
        /\ startedAt' = [startedAt EXCEPT ![j] = cursor]
        /\ endAt' = [endAt EXCEPT ![j] = cursor + duration[j]]
        /\ hostStart' = [hostStart EXCEPT ![plan.host[j]] = cursor]
        /\ inFlight' = inFlight \union {j}
        /\ waiting' = waiting \ {j}
  BY DEF Launch
<1>2. j \in Ready /\ j \in waiting /\ j \in Job
  BY <1>1 DEF Least, Ready, LoopInv, BudgetTypeOK
<1>3. UNCHANGED <<phase, plan, duration, cursor, finished, worst>>
  BY DEF Launch
<1> QED
  BY <1>1, <1>2, <1>3 DEF Launches

(* Advance moves to a time to come, and never beyond the end of a request. *)
LEMMA AdvanceMoves ==
  ASSUME PlansAreTyped, LoopInv, Advance
  PROVE  /\ cursor' \in Events /\ cursor' \in Nat /\ cursor' > cursor
         /\ \A j \in inFlight : cursor' <= endAt[j]
         /\ finished' = finished \union {j \in inFlight : endAt[j] <= cursor'}
         /\ inFlight' = inFlight \ {j \in inFlight : endAt[j] <= cursor'}
         /\ UNCHANGED <<phase, plan, duration, waiting, hostStart, startedAt, endAt, worst>>
<1> USE LimitAssumption DEF PlansAreTyped, BudgetTypeOK, Times, Never, LoopInv
<1>1. cursor' \in Events /\ \A t \in Events : cursor' <= t
  BY DEF Advance, Least
<1>2. \A t \in Events : t > cursor /\ t \in Int
  BY DEF Events, HostFreeAt
<1>3. \A j \in inFlight : endAt[j] \in Events
  BY DEF Events
<1>4. cursor' \in Nat /\ cursor' > cursor
  BY <1>1, <1>2
<1>5. /\ finished' = finished \union {j \in inFlight : endAt[j] <= cursor'}
      /\ inFlight' = inFlight \ {j \in inFlight : endAt[j] <= cursor'}
      /\ UNCHANGED <<phase, plan, duration, waiting, hostStart, startedAt, endAt, worst>>
  BY DEF Advance
<1> QED
  BY <1>1, <1>3, <1>4, <1>5

(* Launch, Advance, and starting over keep the invariant.                  *)
LEMMA BudgetKeeps == ASSUME PlansAreTyped, LoopInv, [BudgetNext]_budgetVars PROVE LoopInv'
<1> USE LimitAssumption DEF PlansAreTyped, BudgetTypeOK, Times, Never, LoopInv
<1>1. ASSUME Launch PROVE LoopInv'
  <2>1. PICK j \in Ready : j \in Job /\ j \in waiting /\ Launches(j)
    BY <1>1, LaunchStarts
  <2> USE <2>1 DEF Launches
  <2>2. cursor + duration[j] \in Nat /\ cursor + duration[j] > cursor
    OBVIOUS
  <2>3. BudgetTypeOK'
    BY <2>2
  <2>4. (\A i \in inFlight : endAt[i] > cursor)'
    BY <2>2
  <2> QED
    BY <2>3, <2>4 DEF ValidPlan
<1>2. ASSUME Advance PROVE LoopInv'
  <2>1. /\ cursor' \in Nat
        /\ finished' = finished \union {j \in inFlight : endAt[j] <= cursor'}
        /\ inFlight' = inFlight \ {j \in inFlight : endAt[j] <= cursor'}
        /\ UNCHANGED <<phase, plan, duration, waiting, hostStart, startedAt, endAt, worst>>
    BY <1>2, AdvanceMoves
  <2> QED
    BY <2>1 DEF ValidPlan
<1>3. ASSUME Reported PROVE LoopInv'
  BY <1>3, DurationAssumption DEF Reported, ValidPlan
<1>4. ASSUME EndBatch PROVE LoopInv'
  BY <1>4 DEF EndBatch, loop, ValidPlan
<1>5. ASSUME UNCHANGED budgetVars PROVE LoopInv'
  BY <1>5 DEF budgetVars, loop, ValidPlan
<1> QED
  BY <1>1, <1>2, <1>3, <1>4, <1>5 DEF BudgetNext

(* Each job is in one place and the plan stays valid, for any plans.       *)
THEOREM LoopInvariance == PlansAreTyped => (BudgetSpec => []LoopInv)
<1> SUFFICES ASSUME PlansAreTyped PROVE BudgetSpec => []LoopInv
  OBVIOUS
<1>1. BudgetInit => LoopInv
  BY BudgetStarts
<1>2. LoopInv /\ [BudgetNext]_budgetVars => LoopInv'
  BY BudgetKeeps
<1> QED
  BY <1>1, <1>2, PTL DEF BudgetSpec

(* Types are kept for any plans and limits.                                *)
THEOREM BudgetTypeCorrect == PlansAreTyped => (BudgetSpec => []BudgetTypeOK)
<1>1. LoopInv => BudgetTypeOK
  BY DEF LoopInv
<1> QED
  BY <1>1, LoopInvariance, PTL

(* When all that runs has ended, some pending job waits for no other.      *)
LEMMA SomeJobIsNext ==
  ASSUME LoopInv, inFlight = {}, waiting # {}
  PROVE  \E j \in waiting : j \in Job /\ plan.deps[j] \subseteq finished
<1> USE DEF LoopInv, BudgetTypeOK
<1>1. PICK j \in waiting : plan.deps[j] \intersect waiting = {}
  BY DEF ValidPlan, Acyclic
<1> QED
  BY <1>1 DEF ValidPlan

(* With nothing running, nothing but the time stops what could be started. *)
LEMMA RoomToLaunch ==
  ASSUME inFlight = {}, ~Launching PROVE Ready = {}
<1>1. Cardinality(inFlight) = 0 /\ 0 < MAX_WORKERS
  BY FS_EmptySet, LimitAssumption
<1> QED
  BY <1>1 DEF Launching

(* schedule_budget never raises AUDIT_SCHEDULE_DEADLOCK for a plan that    *)
(* validate_plan accepts: with nothing running, some pending job has all   *)
(* its dependencies done, and what keeps it waiting is a time to come.     *)
THEOREM BudgetNeverStuck == PlansAreTyped => (BudgetSpec => []NeverStuck)
<1> SUFFICES ASSUME PlansAreTyped PROVE BudgetSpec => []NeverStuck
  OBVIOUS
<1>1. ASSUME LoopInv, waiting \union inFlight # {}, ~Launching, Events = {}
      PROVE FALSE
  <2> USE DEF LoopInv, BudgetTypeOK, Times, Never, PlansAreTyped
  <2>1. inFlight = {}
    BY <1>1 DEF Events
  <2>2. PICK j \in waiting : j \in Job /\ plan.deps[j] \subseteq finished
    BY <1>1, <2>1, SomeJobIsNext
  <2>3. Ready = {}
    BY <1>1, <2>1, RoomToLaunch
  <2>4. plan.release[j] > cursor \/ HostFreeAt(j) > cursor
    <3>1. ~Released(plan, j, cursor) \/ ~HostRested(plan, j, cursor, hostStart)
      BY <2>2, <2>3 DEF Ready, Dispatchable
    <3>2. plan.release[j] \in Int /\ hostStart[plan.host[j]] \in Int /\ cursor \in Int
      BY <1>1, <2>2
    <3>3. ~Released(plan, j, cursor) => plan.release[j] > cursor
      BY <3>2 DEF Released
    <3>4. ~HostRested(plan, j, cursor, hostStart) => HostFreeAt(j) > cursor
      BY <3>2, LimitAssumption DEF HostRested, HostFreeAt
    <3> QED
      BY <3>1, <3>3, <3>4
  <2> QED
    BY <1>1, <2>2, <2>4 DEF Events
<1>2. LoopInv => NeverStuck
  BY <1>1 DEF NeverStuck
<1>3. BudgetSpec => []LoopInv
  BY LoopInvariance
<1> QED
  BY <1>2, <1>3, PTL
-----------------------------------------------------------------------------
(* The serial bound.                                                       *)

(* A request and the host interval after it.                               *)
Slot == REQUEST + HOST_INTERVAL

(* Jobs launched so far, and the time at which the last one has started if *)
(* they had the slots one after the other.                                 *)
Launched == Cardinality(Job \ waiting)
LastSlot == (Launched - 1) * Slot

AllReleased == \A j \in Job : plan.release[j] = NoRelease

(* Every start is in its slot at the latest: the cursor waits only for the *)
(* end of a request or of the rest of a host, and both are over when the   *)
(* next slot begins.  At the beginning there is something to launch.       *)
InSlots ==
  /\ Launched = 0 => cursor = 0
  /\ Launched > 0 => cursor <= LastSlot + Slot
  /\ \A h \in Host : hostStart[h] # Never => Launched > 0 /\ hostStart[h] <= LastSlot
  /\ \A j \in inFlight : Launched > 0 /\ endAt[j] <= LastSlot + REQUEST
  /\ waiting = {} => cursor <= LastSlot + REQUEST

SerialInv == LoopInv /\ (AllReleased => InSlots)

LEMMA SlotsAddUp ==
  /\ Slot \in Nat /\ Slot >= REQUEST /\ Slot >= HOST_INTERVAL /\ Slot > 0
  /\ \A k \in Nat : k * Slot \in Nat /\ (k + 1) * Slot = k * Slot + Slot
  /\ \A k, m \in Nat : k <= m => k * Slot <= m * Slot
<1>1. Slot \in Nat /\ Slot >= REQUEST /\ Slot >= HOST_INTERVAL /\ Slot > 0
  BY LimitAssumption DEF Slot
<1>2. \A k \in Nat : k * Slot \in Nat /\ (k + 1) * Slot = k * Slot + Slot
  BY <1>1
<1>3. \A k, m \in Nat : k <= m => k * Slot <= m * Slot
  BY <1>1
<1> QED
  BY <1>1, <1>2, <1>3

LEMMA CountLaunched ==
  ASSUME NEW S \in SUBSET Job
  PROVE  /\ Cardinality(Job \ S) \in Nat /\ Cardinality(Job) \in Nat
         /\ Cardinality(Job \ S) <= Cardinality(Job)
         /\ Cardinality(Job \ S) = 0 <=> S = Job
         /\ Cardinality(Job \ S) = Cardinality(Job) <=> S = {}
<1>1. IsFiniteSet(Job) /\ IsFiniteSet(Job \ S)
  BY JobAssumption, FS_Subset
<1>2. Cardinality(Job) \in Nat /\ Cardinality(Job \ S) \in Nat
  BY <1>1, FS_CardinalityType
<1>3. /\ Cardinality(Job \ S) <= Cardinality(Job)
      /\ Cardinality(Job \ S) = Cardinality(Job) => Job \ S = Job
  BY <1>1, FS_Subset, Job \ S \subseteq Job
<1>4. Cardinality(Job \ S) = 0 <=> Job \ S = {}
  BY <1>1, FS_EmptySet
<1>5. S = {} => Job \ S = Job
  OBVIOUS
<1> QED
  BY <1>2, <1>3, <1>4, <1>5

LEMMA LaunchCounts ==
  ASSUME LoopInv, NEW j \in Job, j \in waiting, waiting' = waiting \ {j}
  PROVE  Launched' = Launched + 1
<1>1. IsFiniteSet(Job \ waiting)
  BY JobAssumption, FS_Subset
<1>2. Job \ waiting' = (Job \ waiting) \union {j} /\ j \notin Job \ waiting
  BY DEF LoopInv, BudgetTypeOK
<1>3. Cardinality((Job \ waiting) \union {j}) = Cardinality(Job \ waiting) + 1
  BY <1>1, <1>2, FS_AddElement
<1> QED
  BY <1>2, <1>3 DEF Launched

LEMMA SerialKeeps ==
  ASSUME PlansAreTyped, SerialInv, [BudgetNext]_budgetVars PROVE SerialInv'
<1> USE DEF SerialInv
<1>1. LoopInv'
  BY BudgetKeeps
<1>2. /\ Launched \in Nat /\ (Launched = 0 <=> waiting = Job)
      /\ Launched' \in Nat /\ (Launched' = 0 <=> waiting' = Job)
  BY <1>1, CountLaunched DEF LoopInv, BudgetTypeOK, Launched
<1>3. Job # {} /\ Job' = Job
  BY DEF LoopInv, ValidPlan
<1> SUFFICES ASSUME AllReleased' PROVE InSlots'
  BY <1>1
<1>4. ASSUME UNCHANGED plan PROVE AllReleased /\ InSlots
  BY <1>4 DEF AllReleased, NoRelease
<1>5. CASE Launch
  <2>1. PICK j \in Ready : j \in Job /\ j \in waiting /\ Launches(j)
    BY <1>5, LaunchStarts
  <2>2. InSlots
    BY <1>4, <2>1 DEF Launches
  <2>3. Launched' = Launched + 1
    BY <2>1, LaunchCounts DEF Launches
  <2>4. LastSlot' = Launched * Slot /\ Slot' = Slot
    BY <1>2, <2>3 DEF LastSlot, Slot
  <2>5. Launched > 0 => Launched * Slot = LastSlot + Slot
    BY <1>2, SlotsAddUp DEF LastSlot
  <2>6. /\ Launched * Slot \in Nat /\ Slot \in Nat /\ Slot >= REQUEST /\ cursor \in Nat
        /\ (Launched > 0 => LastSlot \in Nat)
    BY <1>2, SlotsAddUp DEF LastSlot, LoopInv, BudgetTypeOK
  <2>7. cursor <= LastSlot'
    BY <1>2, <2>2, <2>4, <2>5, <2>6 DEF InSlots
  <2>8. (Launched > 0) => LastSlot <= LastSlot'
    BY <2>4, <2>5, <2>6
  <2>9. duration[j] \in Nat /\ duration[j] <= REQUEST /\ REQUEST \in Nat
    BY <2>1, LimitAssumption DEF LoopInv, BudgetTypeOK
  <2>10. (\A h \in Host : hostStart[h] # Never => Launched > 0 /\ hostStart[h] <= LastSlot)'
    <3> SUFFICES ASSUME NEW h \in Host, hostStart'[h] # Never
                 PROVE  Launched' > 0 /\ hostStart'[h] <= LastSlot'
      BY DEF Never
    <3>1. CASE h = plan.host[j]
      BY <1>2, <2>1, <2>3, <2>7, <3>1 DEF Launches, LoopInv, BudgetTypeOK
    <3>2. CASE h # plan.host[j]
      <4>1. hostStart'[h] = hostStart[h] /\ hostStart[h] \in Int
        BY <2>1, <3>2 DEF Launches, LoopInv, BudgetTypeOK, Times, Never
      <4>2. Launched > 0 /\ hostStart[h] <= LastSlot
        BY <2>2, <4>1 DEF InSlots
      <4> QED
        BY <1>2, <2>3, <2>4, <2>6, <2>8, <4>1, <4>2
    <3> QED
      BY <3>1, <3>2
  <2>11. (\A i \in inFlight : Launched > 0 /\ endAt[i] <= LastSlot + REQUEST)'
    <3> SUFFICES ASSUME NEW i \in inFlight'
                 PROVE  Launched' > 0 /\ endAt'[i] <= LastSlot' + REQUEST
      OBVIOUS
    <3>1. CASE i = j
      <4>1. endAt'[i] = cursor + duration[j]
        BY <2>1, <3>1 DEF Launches, LoopInv, BudgetTypeOK
      <4> QED
        BY <1>2, <2>3, <2>4, <2>6, <2>7, <2>9, <4>1
    <3>2. CASE i # j
      <4>1. endAt'[i] = endAt[i] /\ endAt[i] \in Int /\ i \in inFlight
        BY <2>1, <3>2 DEF Launches, LoopInv, BudgetTypeOK, Times, Never
      <4>2. Launched > 0 /\ endAt[i] <= LastSlot + REQUEST
        BY <2>2, <4>1 DEF InSlots
      <4> QED
        BY <1>2, <2>3, <2>4, <2>6, <2>8, <2>9, <4>1, <4>2
    <3> QED
      BY <3>1, <3>2
  <2>12. cursor' = cursor
    BY <2>1 DEF Launches
  <2> QED
    BY <1>2, <2>3, <2>4, <2>6, <2>7, <2>9, <2>10, <2>11, <2>12 DEF InSlots
<1>6. CASE Advance
  <2>1. /\ cursor' \in Events /\ cursor' \in Nat
        /\ \A j \in inFlight : cursor' <= endAt[j]
        /\ inFlight' \subseteq inFlight
        /\ UNCHANGED <<plan, waiting, hostStart, endAt>>
    BY <1>6, AdvanceMoves
  <2>2. AllReleased /\ InSlots
    BY <1>4, <2>1
  <2>3. ~Launching
    BY <1>6 DEF Advance
  <2>4. Launched' = Launched /\ LastSlot' = LastSlot /\ Slot' = Slot
    BY <2>1 DEF Launched, LastSlot, Slot
  <2>5. ASSUME NEW j \in waiting, plan.deps[j] \subseteq finished, hostStart[plan.host[j]] = Never
        PROVE  inFlight # {}
    <3>1. j \in Job /\ plan.release[j] = NoRelease
      BY <2>2, <2>5 DEF LoopInv, BudgetTypeOK, AllReleased
    <3>2. j \in Ready
      BY <2>5, <3>1 DEF Ready, Dispatchable, Released, HostRested
    <3> QED
      BY <2>3, <3>2, RoomToLaunch
  <2>6. Launched > 0
    <3> SUFFICES ASSUME Launched = 0 PROVE FALSE
      BY <1>2
    <3>1. inFlight = {} /\ waiting = Job
      BY <1>2, <2>2 DEF InSlots
    <3>2. PICK j \in waiting : j \in Job /\ plan.deps[j] \subseteq finished
      BY <1>3, <3>1, SomeJobIsNext
    <3>3. hostStart[plan.host[j]] = Never
      BY <2>2, <3>2 DEF InSlots, LoopInv, BudgetTypeOK, PlansAreTyped
    <3> QED
      BY <2>5, <3>1, <3>2, <3>3
  <2>7. LastSlot \in Nat /\ Slot \in Nat /\ Slot >= REQUEST /\ Slot >= HOST_INTERVAL
    BY <1>2, <2>6, SlotsAddUp DEF LastSlot
  <2>8. REQUEST \in Nat /\ HOST_INTERVAL \in Nat
    BY LimitAssumption
  <2>9. cursor' <= LastSlot + REQUEST \/ (waiting # {} /\ cursor' <= LastSlot + HOST_INTERVAL)
    <3>1. CASE inFlight # {}
      <4>1. PICK j \in inFlight : cursor' <= endAt[j]
        BY <2>1, <3>1
      <4>2. endAt[j] <= LastSlot + REQUEST /\ endAt[j] \in Int
        BY <2>2 DEF InSlots, LoopInv, BudgetTypeOK, Times, Never
      <4> QED
        BY <2>1, <2>7, <2>8, <4>1, <4>2
    <3>2. CASE inFlight = {}
      <4>1. PICK j \in waiting : /\ j \in Job /\ plan.deps[j] \subseteq finished
                                 /\ cursor' \in {plan.release[j], HostFreeAt(j)}
        BY <2>1, <3>2 DEF Events, LoopInv, BudgetTypeOK
      <4>2. hostStart[plan.host[j]] # Never
        BY <2>5, <3>2, <4>1
      <4>3. cursor' # plan.release[j]
        BY <2>1, <2>2, <4>1 DEF AllReleased, NoRelease
      <4>4. cursor' = hostStart[plan.host[j]] + HOST_INTERVAL
        BY <4>1, <4>2, <4>3 DEF HostFreeAt
      <4>5. hostStart[plan.host[j]] <= LastSlot /\ hostStart[plan.host[j]] \in Int
        BY <2>2, <4>1, <4>2
        DEF InSlots, LoopInv, BudgetTypeOK, Times, Never, PlansAreTyped
      <4> QED
        BY <2>1, <2>7, <2>8, <4>1, <4>4, <4>5
    <3> QED
      BY <3>1, <3>2
  <2>10. cursor' <= LastSlot + Slot /\ (waiting = {} => cursor' <= LastSlot + REQUEST)
    BY <2>1, <2>7, <2>8, <2>9
  <2> QED
    BY <2>1, <2>2, <2>4, <2>6, <2>10 DEF InSlots, Never
<1>7. CASE Reported
  <2>1. /\ cursor' = 0 /\ waiting' = Job /\ inFlight' = {}
        /\ hostStart' = [h \in Host |-> Never]
    BY <1>7 DEF Reported
  <2> QED
    BY <1>2, <1>3, <2>1 DEF InSlots, Never
<1>8. CASE EndBatch
  BY <1>4, <1>8 DEF EndBatch, loop, InSlots, Launched, LastSlot, Slot, Never
<1>9. CASE UNCHANGED budgetVars
  BY <1>4, <1>9 DEF budgetVars, loop, InSlots, Launched, LastSlot, Slot, Never
<1> QED
  BY <1>5, <1>6, <1>7, <1>8, <1>9 DEF BudgetNext

(* The bound that complete_industry_candidate.py computes holds whatever   *)
(* the plan, the limits and the times the requests really take: when all   *)
(* jobs are released from the start, neither the simulation nor a batch    *)
(* goes on beyond the sum of all requests and the host intervals between.  *)
THEOREM SerialBound == PlansAreTyped => (BudgetSpec => []SerialIsWorst)
<1> SUFFICES ASSUME PlansAreTyped PROVE BudgetSpec => []SerialIsWorst
  OBVIOUS
<1>1. BudgetInit => SerialInv
  <2> SUFFICES ASSUME BudgetInit PROVE SerialInv
    OBVIOUS
  <2>1. LoopInv
    BY BudgetStarts
  <2>2. Launched = 0 /\ Job # {}
    BY <2>1, CountLaunched DEF LoopInv, BudgetTypeOK, Launched, BudgetInit, ValidPlan
  <2>3. InSlots
    BY <2>2 DEF InSlots, BudgetInit
  <2> QED
    BY <2>1, <2>3 DEF SerialInv
<1>2. SerialInv /\ [BudgetNext]_budgetVars => SerialInv'
  BY SerialKeeps
<1>3. ASSUME SerialInv PROVE SerialIsWorst
  <2> SUFFICES ASSUME AllReleased PROVE cursor <= ConservativeBound
    BY DEF SerialIsWorst, AllReleased
  <2> DEFINE n == Cardinality(Job)
  <2>1. InSlots
    BY <1>3 DEF SerialInv
  <2>2. /\ Launched \in Nat /\ n \in Nat /\ Launched <= n /\ cursor \in Nat
        /\ (Launched = 0 <=> waiting = Job) /\ (Launched = n <=> waiting = {})
    BY <1>3, CountLaunched DEF SerialInv, LoopInv, BudgetTypeOK, Launched
  <2>3. Job # {} /\ n > 0
    <3>1. Job # {}
      BY <1>3 DEF SerialInv, LoopInv, ValidPlan
    <3> QED
      BY <2>2, <3>1, JobAssumption, FS_EmptySet
  <2> HIDE DEF n
  <2>4. REQUEST \in Nat /\ HOST_INTERVAL \in Nat
    BY LimitAssumption
  <2>5. ConservativeBound = (n - 1) * Slot + REQUEST
    <3>1. ConservativeBound = n * REQUEST + (n - 1) * HOST_INTERVAL
      BY DEF ConservativeBound, n
    <3>2. n * REQUEST = (n - 1) * REQUEST + REQUEST
      BY <2>2, <2>3, <2>4
    <3>3. (n - 1) * Slot = (n - 1) * REQUEST + (n - 1) * HOST_INTERVAL
      BY <2>2, <2>3, <2>4 DEF Slot
    <3> QED
      BY <2>2, <2>3, <2>4, <3>1, <3>2, <3>3
  <2>6. (n - 1) * Slot \in Nat
    BY <2>2, <2>3, SlotsAddUp
  <2>7. CASE Launched = 0
    BY <2>1, <2>4, <2>5, <2>6, <2>7 DEF InSlots
  <2>8. CASE Launched > 0 /\ Launched < n
    <3>1. LastSlot + Slot = Launched * Slot
      BY <2>2, <2>8, SlotsAddUp DEF LastSlot
    <3>2. Launched * Slot <= (n - 1) * Slot /\ Launched * Slot \in Nat
      BY <2>2, <2>8, SlotsAddUp
    <3> QED
      BY <2>1, <2>2, <2>4, <2>5, <2>6, <2>8, <3>1, <3>2 DEF InSlots
  <2>9. CASE Launched = n
    BY <2>1, <2>2, <2>3, <2>5, <2>9 DEF InSlots, LastSlot
  <2> QED
    BY <2>2, <2>7, <2>8, <2>9
<1>4. SerialInv => SerialIsWorst
  BY <1>3
<1> QED
  BY <1>1, <1>2, <1>4, PTL DEF BudgetSpec
=============================================================================
