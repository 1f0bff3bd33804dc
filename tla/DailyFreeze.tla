---------------------------- MODULE DailyFreeze ----------------------------
(* The fixed six-request daily freeze: capture, coordinate and verify of   *)
(* data/daily_freeze.py and the request worker of                          *)
(* scripts/run_daily_freeze_worker.py.                                     *)
(*                                                                         *)
(* A controller (one run of the command) checks its inputs, takes the      *)
(* activity lock, makes the output directory of its authorization and      *)
(* starts a coordinator, which starts one process per request; then it     *)
(* verifies what is there and writes the final outcome last.  Controllers  *)
(* may be given the same authorization, that is the same directory.  Files *)
(* are written once: a file that exists makes the write fail.  Any write   *)
(* may fail, the coordinator may be cut off anywhere, and a controller may *)
(* die anywhere, with its processes living on.                             *)
(*                                                                         *)
(* What run_probe_worker_process promises is taken from ProbeWorker: an ok *)
(* answer and a complete cleanup mean that the whole tree is gone.  The    *)
(* monotonic clock of a controller is the number of limits it has passed.  *)
(* A file is its name and what the verification reads of it; the six       *)
(* requests are 1..N, and the bytes of an answer are not looked at.        *)
EXTENDS Integers, FiniteSets

CONSTANTS Controller,
          Directory,    \* the output directories that are authorized
          N,            \* requests in the plan
          MaxFaults,    \* bound: what goes wrong in all, a limit passed too
          NoController, NoAnchors

ASSUME FreezeAssumption ==
  /\ N \in Nat \ {0} /\ MaxFaults \in Nat
  /\ NoController \notin Controller

VARIABLES
  dirs,     \* directories that exist
  files,    \* what is in them, but for
  raws,     \* raw-N.json, the sealed answers, and
  receipts, \* process-N.json, how the processes of the requests ended
  lock,     \* who made active.lock
  guard,    \* whether cleanup-incomplete.json is there
  at,       \* where a controller is
  dir,      \* its output directory
  time,     \* how much of its time has passed
  owned, cleaned, attempted,  \* its locals
  status,   \* what it will say of the execution
  anchors,  \* what it has anchored
  report,   \* what it returned
  step,     \* where its coordinator is
  alive,    \* which of its processes live
  sent,     \* history: requests sent for a directory
  faults,   \* history: what went wrong
  raced     \* history: directories that two controllers found free at one time

locals == <<dir, time, owned, cleaned, attempted, status, anchors, report>>
workers == <<step, alive, sent>>
shared == <<dirs, files, raws, receipts, lock, guard>>
past == <<faults, raced>>
freezeVars == <<shared, at, locals, workers, past>>

(* ------------------------------- time, files ---------------------------- *)

\* The limits passed: the 85 seconds of the work (1) and the 90 seconds of the
\* whole (2), to the instant or beyond.
Times == 0..2
WorkOver(c) == time[c] >= 1
Over(c) == time[c] >= 2
Finishes(c) == IF Over(c) THEN {"at the limit", "late"} ELSE {"in time"}

Reports == {"execution", "observation", "final-outcome", "controller-failure"}
Outputs == <<"source", "manifest", "input-validation", "capture-complete">>
Names == {"intent", "failure"} \union Reports \union {Outputs[i] : i \in 1..4}

\* All that is in a directory.
Contents(d) == <<files[d], raws[d], receipts[d]>>
Has(d, name) == name \in DOMAIN files[d]

\* mootdx_node_benchmark.write_benchmark_json_atomic.
Put(d, name, value) ==
  /\ ~Has(d, name)
  /\ files' = [files EXCEPT ![d] = [n \in DOMAIN @ \union {name} |-> IF n = name THEN value ELSE @[n]]]
  /\ UNCHANGED <<raws, receipts>>

FreezeInit ==
  /\ dirs = {}
  /\ files = [d \in Directory |-> [n \in {} |-> "ok"]]
  /\ raws = [d \in Directory |-> {}]
  /\ receipts = [d \in Directory |-> [i \in 1..N |-> "none"]]
  /\ lock = NoController
  /\ guard = FALSE
  /\ at = [c \in Controller |-> "idle"]
  /\ dir \in [Controller -> Directory]
  /\ time = [c \in Controller |-> 0]
  /\ owned = [c \in Controller |-> FALSE]
  /\ cleaned = [c \in Controller |-> TRUE]
  /\ attempted = [c \in Controller |-> FALSE]
  /\ status = [c \in Controller |-> "none"]
  /\ anchors = [c \in Controller |-> NoAnchors]
  /\ report = [c \in Controller |-> "none"]
  /\ step = [c \in Controller |-> "none"]
  /\ alive = [c \in Controller |-> {}]
  /\ sent = [d \in Directory |-> [i \in 1..N |-> 0]]
  /\ faults = 0
  /\ raced = {}

(* ------------------------------ verification ---------------------------- *)

\* What is anchored of a directory: all its files, the source and manifest
\* only of an execution that was complete.
AnchorsOf(c, final, finished) ==
  [contents |-> Contents(dir[c]), source |-> status[c] = "EXECUTION_COMPLETE", final |-> final,
   finished |-> finished]

\* Every answer has its receipts; a source was made of all of them.
MaterialWhole(d, source) ==
  /\ Has(d, "intent")
  /\ \A i \in raws[d] : receipts[d][i] # "none"
  /\ source => /\ raws[d] = 1..N
               /\ Has(d, "source") /\ Has(d, "manifest")
               /\ \A i \in 1..N : receipts[d][i] = "ok"

\* A slip of InBudget: the work alone has to be in time.
InBudgetOfWork(d, a) == files[d]["capture-complete"] = "ok"

\* A complete execution kept the limits of the work and of the whole.
InBudget(d, a) == files[d]["capture-complete"] = "ok" /\ a.finished # "late"

\* verify: the files are the anchored ones, and the execution and, if asked
\* for, the final outcome succeeded.
Verifies(d, a, requireFinal) ==
  /\ a.contents = Contents(d)
  /\ MaterialWhole(d, a.source)
  /\ a.source
  /\ Has(d, "execution") /\ files[d]["execution"] = "ok"
  /\ Has(d, "capture-complete") /\ InBudget(d, a)
  /\ requireFinal => a.final /\ files[d]["final-outcome"] = "ok"

(* ------------------------------ the controller -------------------------- *)

Fault == faults < MaxFaults /\ faults' = faults + 1

Move(c, place) == at' = [at EXCEPT ![c] = place]

\* What a return hands out besides the status.
Return(c, how) == Move(c, "finally") /\ report' = [report EXCEPT ![c] = how]

\* check_inputs; what else it refuses is refused before anything happens.
CheckInputs(c) ==
  /\ at[c] = "idle"
  /\ IF dir[c] \in dirs
     THEN Move(c, "except") /\ UNCHANGED raced
     ELSE /\ Move(c, "guard")
          /\ raced' = IF \E b \in Controller \ {c} : dir[b] = dir[c] /\ at[b] \in {"guard", "lock", "mkdir"}
                      THEN raced \union {dir[c]} ELSE raced
  /\ UNCHANGED <<shared, locals, workers, faults>>

CheckGuard(c) ==
  /\ at[c] = "guard"
  /\ Move(c, IF guard THEN "except" ELSE "lock")
  /\ UNCHANGED <<shared, locals, workers, past>>

\* The lock is made before its text is written, and owned once it is.
TakeLock(c) ==
  /\ at[c] = "lock"
  /\ \/ lock # NoController /\ Move(c, "except") /\ UNCHANGED <<lock, owned, faults>>
     \/ /\ lock = NoController
        /\ lock' = c
        /\ \/ Move(c, "mkdir") /\ owned' = [owned EXCEPT ![c] = TRUE] /\ UNCHANGED faults
           \/ Move(c, "except") /\ Fault /\ UNCHANGED owned
  /\ UNCHANGED <<dirs, files, raws, receipts, guard, dir, time, cleaned, attempted, status, anchors, report,
                 workers, raced>>

MakeDirectory(c) ==
  /\ at[c] = "mkdir"
  /\ dir[c] \notin dirs
  /\ dirs' = dirs \union {dir[c]}
  /\ Move(c, "intent")
  /\ UNCHANGED <<files, raws, receipts, lock, guard, locals, workers, past>>

WriteIntent(c) ==
  /\ at[c] = "intent"
  /\ Put(dir[c], "intent", "ok")
  /\ Move(c, "dispatch")
  /\ UNCHANGED <<dirs, lock, guard, locals, workers, past>>

\* From here on nobody knows how many requests were sent.
Dispatch(c) ==
  /\ at[c] = "dispatch"
  /\ cleaned' = [cleaned EXCEPT ![c] = FALSE]
  /\ attempted' = [attempted EXCEPT ![c] = TRUE]
  /\ \/ step' = [step EXCEPT ![c] = "budget"] /\ alive' = [alive EXCEPT ![c] = {"coordinator"}] /\ UNCHANGED faults
     \/ Fault /\ UNCHANGED <<step, alive>>
  /\ Move(c, "wait")
  /\ UNCHANGED <<shared, dir, time, owned, status, anchors, report, sent, raced>>

\* run_probe_worker_process returns: the answer of a coordinator whose tree
\* is gone, a failure that has ended the tree, or one that has not.
WorkerReturns(c) ==
  /\ at[c] = "wait"
  /\ \/ /\ step[c] = "answered" /\ ~Over(c)
        /\ status' = [status EXCEPT ![c] = "EXECUTION_COMPLETE"]
        /\ cleaned' = [cleaned EXCEPT ![c] = TRUE]
        /\ alive' = [alive EXCEPT ![c] = {}]
        /\ Move(c, "execution") /\ UNCHANGED <<guard, faults>>
     \/ /\ status' = [status EXCEPT ![c] = "EXECUTION_FAILED"]
        /\ cleaned' = [cleaned EXCEPT ![c] = TRUE]
        /\ alive' = [alive EXCEPT ![c] = {}]
        /\ Move(c, "execution")
        /\ IF step[c] = "failed" THEN UNCHANGED faults ELSE Fault
        /\ UNCHANGED guard
     \/ /\ status' = [status EXCEPT ![c] = "EXECUTION_FAILED"]
        /\ guard' = TRUE
        /\ Move(c, IF guard THEN "except" ELSE "execution")
        /\ Fault
        /\ UNCHANGED <<cleaned, alive>>
  /\ UNCHANGED <<dirs, files, raws, receipts, lock, dir, time, owned, attempted, anchors, report, step, sent, raced>>

WriteExecution(c) ==
  /\ at[c] = "execution"
  /\ Put(dir[c], "execution", IF status[c] = "EXECUTION_COMPLETE" THEN "ok" ELSE "failed")
  /\ IF Over(c) THEN Return(c, "late")
     ELSE Move(c, "anchor") /\ UNCHANGED report
  /\ UNCHANGED <<dirs, lock, guard, dir, time, owned, cleaned, attempted, status, anchors, workers, past>>

\* The first verification, of a complete execution only.
Anchor(c) ==
  \E finished \in Finishes(c) :
    LET a == AnchorsOf(c, FALSE, finished)
    IN /\ at[c] = "anchor"
       /\ anchors' = [anchors EXCEPT ![c] = a]
       /\ IF status[c] # "EXECUTION_COMPLETE"
          THEN IF Over(c) THEN Return(c, "late") ELSE Move(c, "verify") /\ UNCHANGED report
          ELSE IF Verifies(dir[c], a, FALSE) THEN Move(c, "observation") /\ UNCHANGED report
               ELSE Return(c, "rejected")
       /\ UNCHANGED <<shared, dir, time, owned, cleaned, attempted, status, workers, past>>

WriteObservation(c) ==
  /\ at[c] = "observation"
  /\ Put(dir[c], "observation", "ok")
  /\ Move(c, "again")
  /\ UNCHANGED <<dirs, lock, guard, locals, workers, past>>

AnchorAgain(c) ==
  /\ at[c] = "again"
  /\ \E finished \in Finishes(c) : anchors' = [anchors EXCEPT ![c] = AnchorsOf(c, FALSE, finished)]
  /\ IF Over(c) THEN Return(c, "late") ELSE Move(c, "verify") /\ UNCHANGED report
  /\ UNCHANGED <<shared, dir, time, owned, cleaned, attempted, status, workers, past>>

\* The second verification decides.
VerifyAgain(c) ==
  /\ at[c] = "verify"
  /\ status' = [status EXCEPT ![c] =
       IF @ = "EXECUTION_COMPLETE" /\ ~Verifies(dir[c], anchors[c], FALSE)
       THEN "FINAL_VERIFICATION_FAILED" ELSE @]
  /\ Move(c, "release")
  /\ UNCHANGED <<shared, dir, time, owned, cleaned, attempted, anchors, report, workers, past>>

\* A slip of Release: of a tree that may be left, too.
ReleaseAnyTree(c) ==
  /\ at[c] = "release"
  /\ IF owned[c] 
     THEN lock' = NoController /\ owned' = [owned EXCEPT ![c] = FALSE]
     ELSE UNCHANGED <<lock, owned>>
  /\ Move(c, "final")
  /\ UNCHANGED <<dirs, files, raws, receipts, guard, dir, time, cleaned, attempted, status, anchors, report, workers, past>>

\* The lock goes before the outcome is written.
Release(c) ==
  /\ at[c] = "release"
  /\ IF owned[c] /\ cleaned[c] /\ ~guard
     THEN lock' = NoController /\ owned' = [owned EXCEPT ![c] = FALSE]
     ELSE UNCHANGED <<lock, owned>>
  /\ Move(c, "final")
  /\ UNCHANGED <<dirs, files, raws, receipts, guard, dir, time, cleaned, attempted, status, anchors, report, workers, past>>

WriteFinal(c) ==
  /\ at[c] = "final"
  /\ IF Over(c)
     THEN /\ \E finished \in Finishes(c) : anchors' = [anchors EXCEPT ![c].finished = finished]
          /\ Return(c, "rejected") /\ UNCHANGED <<files, raws, receipts>>
     ELSE /\ Put(dir[c], "final-outcome", IF status[c] = "EXECUTION_COMPLETE" THEN "ok" ELSE "failed")
          /\ Move(c, "last") /\ UNCHANGED <<anchors, report>>
  /\ UNCHANGED <<dirs, lock, guard, dir, time, owned, cleaned, attempted, status, workers, past>>

\* A slip of LastAnchors: the files that were there before the outcome.
LastAnchorsOfBefore(c) ==
  /\ at[c] = "last"
  /\ \E finished \in Finishes(c) : anchors' = [anchors EXCEPT ![c] =
       [@ EXCEPT !.final = TRUE, !.finished = finished]]
  /\ Return(c, IF Over(c) \/ status[c] # "EXECUTION_COMPLETE" THEN "rejected" ELSE "success")
  /\ UNCHANGED <<shared, dir, time, owned, cleaned, attempted, status, workers, past>>

\* What the user is given to verify the directory with.
LastAnchors(c) ==
  /\ at[c] = "last"
  /\ \E finished \in Finishes(c) : anchors' = [anchors EXCEPT ![c] =
       [@ EXCEPT !.contents = Contents(dir[c]), !.final = TRUE, !.finished = finished]]
  /\ Return(c, IF Over(c) \/ status[c] # "EXECUTION_COMPLETE" THEN "rejected" ELSE "success")
  /\ UNCHANGED <<shared, dir, time, owned, cleaned, attempted, status, workers, past>>

\* Any step of the body may raise, the call of the coordinator too.
Body == {"guard", "lock", "mkdir", "intent", "dispatch", "wait", "execution", "anchor",
         "observation", "again", "verify", "release", "final", "last"}
Raise(c) ==
  /\ at[c] \in Body
  /\ Fault
  /\ Move(c, "except")
  /\ UNCHANGED <<shared, locals, workers, raced>>

\* One try at a receipt of the failure, in the directory of whoever has the
\* lock, made by it or not.
Except(c) ==
  /\ at[c] = "except"
  /\ Return(c, IF attempted[c] THEN "controller-failed" ELSE "request-rejected")
  /\ \/ /\ owned[c] /\ ~Over(c) /\ Put(dir[c], "controller-failure", "failed")
        /\ UNCHANGED faults
     \/ /\ IF owned[c] THEN Fault ELSE UNCHANGED faults
        /\ UNCHANGED <<files, raws, receipts>>
  /\ UNCHANGED <<dirs, lock, guard, dir, time, owned, cleaned, attempted, status, anchors, workers, raced>>

\* The frame of the call is gone.
Forget(c) ==
  /\ owned' = [owned EXCEPT ![c] = FALSE] /\ cleaned' = [cleaned EXCEPT ![c] = TRUE]
  /\ attempted' = [attempted EXCEPT ![c] = FALSE] /\ status' = [status EXCEPT ![c] = "none"]

\* The lock of a tree that is not known to be gone stays, and a guard with it.
Finally(c) ==
  LET guarding == owned[c] /\ ~cleaned[c] /\ ~guard
      releasing == owned[c] /\ cleaned[c] /\ ~guard /\ lock # NoController /\ dir[lock] = dir[c]
  IN /\ at[c] = "finally"
     /\ \/ /\ guard' = (guard \/ guarding)
           /\ lock' = IF releasing THEN NoController ELSE lock
           /\ UNCHANGED faults
        \/ Fault /\ UNCHANGED <<guard, lock>>
     /\ Move(c, "returned")
     /\ Forget(c)
     /\ UNCHANGED <<dirs, files, raws, receipts, dir, time, anchors, report, workers, raced>>

\* A controller that dies returns nothing; its processes may live on.
ControllerDies(c) ==
  /\ at[c] \notin {"idle", "returned", "dead"}
  /\ Fault
  /\ Move(c, "dead")
  /\ report' = [report EXCEPT ![c] = "none"] /\ anchors' = [anchors EXCEPT ![c] = NoAnchors]
  /\ Forget(c)
  /\ alive' \in {alive, [alive EXCEPT ![c] = {}]}
  /\ UNCHANGED <<shared, dir, time, step, sent, raced>>

Pass(c) ==
  /\ at[c] \notin {"idle", "returned", "dead"} /\ time[c] < 2
  /\ Fault
  /\ time' = [time EXCEPT ![c] = @ + 1]
  /\ UNCHANGED <<shared, at, dir, owned, cleaned, attempted, status, anchors, report, workers, raced>>

(* --------------------- the coordinator and its requests ----------------- *)

Advance(c, place) == step' = [step EXCEPT ![c] = place]
Runs(c, place) == "coordinator" \in alive[c] /\ step[c] = place
Received(d) == {i \in 1..N : receipts[d][i] # "none"}
Current(d) == Cardinality(Received(d)) + 1

\* A request goes out only when the time of all that are left is still there.
SendRequest(c) ==
  LET d == dir[c]
  IN /\ Runs(c, "budget")
     /\ IF ~WorkOver(c)
        THEN /\ Advance(c, "sent")
             /\ alive' = [alive EXCEPT ![c] = @ \union {"request"}]
             /\ sent' = [sent EXCEPT ![d][Current(d)] = @ + 1]
        ELSE Advance(c, "failing") /\ UNCHANGED <<alive, sent>>
     /\ UNCHANGED <<shared, at, locals, past>>

\* The request process seals the answer, even when nobody waits for it.
Seal(c) ==
  LET d == dir[c]
  IN /\ "request" \in alive[c]
     /\ \E i \in 1..N \ raws[d] : sent[d][i] > 0 /\ raws' = [raws EXCEPT ![d] = @ \union {i}]
     /\ UNCHANGED <<dirs, files, receipts, lock, guard, at, locals, workers, past>>

Keep(d, i, how) == receipts' = [receipts EXCEPT ![d][i] = how]

\* What the request's process reports is kept, whatever it is.
Receive(c) ==
  LET d == dir[c]
      i == Current(d)
  IN /\ Runs(c, "sent")
     /\ \/ /\ i \in raws[d] /\ Keep(d, i, "ok")
           /\ alive' = [alive EXCEPT ![c] = @ \ {"request"}]
           /\ Advance(c, IF i = N THEN "outputs" ELSE "budget") /\ UNCHANGED <<guard, faults>>
        \/ /\ Keep(d, i, "failed")
           /\ alive' = [alive EXCEPT ![c] = @ \ {"request"}]
           /\ Advance(c, "failing") /\ Fault /\ UNCHANGED guard
        \/ /\ Keep(d, i, "failed")
           /\ guard' = TRUE
           /\ Advance(c, "failing") /\ Fault /\ UNCHANGED alive
     /\ UNCHANGED <<dirs, files, raws, lock, at, locals, sent, raced>>

\* source.json is read again before the manifest is written; the last output
\* is written in the time of the work, which may end while it is.
WriteOutput(c) ==
  LET d == dir[c]
  IN /\ Runs(c, "outputs")
     /\ \E k \in 1..4 :
          /\ \A j \in 1..(k - 1) : Has(d, Outputs[j])
          /\ IF k < 4
             THEN Put(d, Outputs[k], "ok") /\ UNCHANGED <<time, step, faults>>
             ELSE /\ ~WorkOver(c)
                  /\ \/ Put(d, Outputs[k], "ok") /\ UNCHANGED <<time, faults>>
                     \/ Put(d, Outputs[k], "late") /\ time' = [time EXCEPT ![c] = 1] /\ Fault
                  /\ Advance(c, "answered")
     /\ UNCHANGED <<dirs, lock, guard, at, dir, owned, cleaned, attempted, status, anchors,
                    report, alive, sent, raced>>

CoordinatorRaises(c) ==
  /\ Runs(c, "budget") \/ Runs(c, "sent") \/ Runs(c, "outputs")
  /\ Fault
  /\ Advance(c, "failing")
  /\ UNCHANGED <<shared, at, locals, alive, sent, raced>>

WriteFailure(c) ==
  /\ Runs(c, "failing")
  /\ \/ Put(dir[c], "failure", "failed") /\ UNCHANGED faults
     \/ Fault /\ UNCHANGED <<files, raws, receipts>>
  /\ Advance(c, "failed")
  /\ UNCHANGED <<dirs, lock, guard, at, locals, alive, sent, raced>>

\* A process dies, or the residue of a tree ends at last.
Ends(c) ==
  /\ \E p \in alive[c] : alive' = [alive EXCEPT ![c] = @ \ {p}]
  /\ Fault
  /\ UNCHANGED <<shared, at, locals, step, sent, raced>>

FreezeNext == \E c \in Controller :
  \/ CheckInputs(c) \/ CheckGuard(c) \/ TakeLock(c) \/ MakeDirectory(c) \/ WriteIntent(c)
  \/ Dispatch(c) \/ WorkerReturns(c) \/ WriteExecution(c) \/ Anchor(c) \/ WriteObservation(c)
  \/ AnchorAgain(c) \/ VerifyAgain(c) \/ Release(c) \/ WriteFinal(c) \/ LastAnchors(c)
  \/ Raise(c) \/ Except(c) \/ Finally(c) \/ ControllerDies(c) \/ Pass(c)
  \/ SendRequest(c) \/ Seal(c) \/ Receive(c) \/ WriteOutput(c) \/ CoordinatorRaises(c)
  \/ WriteFailure(c) \/ Ends(c)

FreezeSpec == FreezeInit /\ [][FreezeNext]_freezeVars

(* ------------------------------ properties ------------------------------ *)

FreezeTypeOK ==
  /\ dirs \subseteq Directory
  /\ DOMAIN files = Directory /\ \A d \in Directory : DOMAIN files[d] \subseteq Names
  /\ raws \in [Directory -> SUBSET (1..N)]
  /\ receipts \in [Directory -> [1..N -> {"none", "ok", "failed"}]]
  /\ lock \in Controller \union {NoController} /\ guard \in BOOLEAN
  /\ at \in [Controller -> Body \union {"idle", "except", "finally", "returned", "dead"}]
  /\ dir \in [Controller -> Directory] /\ time \in [Controller -> Times]
  /\ owned \in [Controller -> BOOLEAN] /\ cleaned \in [Controller -> BOOLEAN]
  /\ attempted \in [Controller -> BOOLEAN]
  /\ status \in [Controller -> {"none", "EXECUTION_COMPLETE", "EXECUTION_FAILED",
                                "FINAL_VERIFICATION_FAILED"}]
  /\ DOMAIN anchors = Controller
  /\ report \in [Controller -> {"none", "success", "late", "rejected", "controller-failed",
                                "request-rejected"}]
  /\ step \in [Controller -> {"none", "budget", "sent", "outputs", "answered", "failing", "failed"}]
  /\ alive \in [Controller -> SUBSET {"coordinator", "request"}]
  /\ sent \in [Directory -> [1..N -> Nat]] /\ faults \in 0..MaxFaults /\ raced \subseteq Directory

\* What was reported as a success verifies as one from then on, with the
\* anchors that were handed out, unless two controllers found the directory
\* free at one time.
SuccessVerifies ==
  \A c \in Controller :
    at[c] = "returned" /\ report[c] = "success" /\ dir[c] \notin raced
    => Verifies(dir[c], anchors[c], TRUE)

\* What was not, does not, save at the very instant of the limit, which
\* capture counts as too late and verify as in time.
RejectedStaysRejected ==
  \A c \in Controller :
    at[c] = "returned" /\ report[c] # "success" /\ anchors[c] # NoAnchors
    => anchors[c].finished = "at the limit" \/ ~Verifies(dir[c], anchors[c], TRUE)

\* An authorization is used once: whatever repeats, rivals, fails or dies, its
\* directory is made once, no request goes out beside another batch, none is
\* added to the plan, and success is written after the last, for good.
Promise == INSTANCE SingleUse WITH
  Authorization <- Directory, Limit <- N, used <- dirs,
  busy <- {dir[c] : c \in {b \in Controller : alive[b] # {}}},
  requests <- [d \in Directory |-> Cardinality({i \in 1..N : sent[d][i] > 0})],
  published <- {d \in Directory : Has(d, "final-outcome") /\ files[d]["final-outcome"] = "ok"}
ImplementsSingleUse == Promise!Spec
=============================================================================
