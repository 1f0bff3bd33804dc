---------------------------- MODULE QuoteRefresh ----------------------------
(***************************************************************************)
(* RefreshController.refresh and _finish_refresh                           *)
(* (overnight_quant/data/quote_observation_refresh.py): one click on       *)
(* "refresh quotes" asks an isolated worker for one batch of quotes and    *)
(* publishes it through files that are never overwritten.  Any number of   *)
(* clicks, in any number of processes, share one control directory.        *)
(*                                                                         *)
(* Every step is one interaction with a file, the worker or the clock.     *)
(* Between two steps of a click other clicks run, time passes, the process *)
(* may die (Crash) or the machine may restart (Reboot).  Every write may   *)
(* fail.  File contents are kept as far as a reader distinguishes them.    *)
(***************************************************************************)
EXTENDS Integers, FiniteSets

CONSTANTS Click,         \* refresh calls; each is its own batch (a fresh uuid)
          NoClick,       \* content of active.lock when the file is absent
          NoTime,        \* "not observed yet"
          TotalBudget,   \* TOTAL_SECONDS: entry to observed completion
          WorkerBudget,  \* started + 8.5: the worker's absolute deadline
          MinDispatch,   \* .5: at most this much left means no dispatch
          Interval,      \* INTERVAL_SECONDS between refreshes
          MaxTime        \* bound of the model: real time stops here

ASSUME ClickAssumption == NoClick \notin Click
ASSUME TimeAssumption ==
  /\ {TotalBudget, WorkerBudget, MinDispatch, Interval, MaxTime} \subseteq Nat
  /\ WorkerBudget <= TotalBudget
  /\ NoTime \notin Int

VARIABLES
  time,              \* real time
  boot,              \* real time of the last boot: monotonic clocks start there
  lock,              \* owner named in control/active.lock
  cleanupIncomplete, \* control/cleanup-incomplete.json exists
  stamps,            \* dispatch_monotonic of every attempt-* and release-* file
  pending,           \* batches with a pending-finalization-* file
  snapshots,         \* batches stored by ObservationStore.save_refresh
  receipt,           \* status in attempts/<batch>/receipt.json
  commit,            \* elapsed time bound into final-commit.json
  confirmation,      \* execution elapsed time in final-confirmation.json
  failure,           \* status in attempts/<batch>/final-failure.json
  worker,            \* worker processes that are alive
  pc, started, owned, target, dispatched, cleaned, published, status, completed,
                     \* the locals of each refresh call
  exitedAt           \* history: real time at which the worker was seen gone

control == <<lock, cleanupIncomplete, stamps, pending>>
store   == <<snapshots, receipt, commit, confirmation, failure>>
locals  == <<pc, started, owned, target, dispatched, cleaned, published, status,
             completed>>
vars    == <<time, boot, control, store, worker, locals, exitedAt>>

None == "none"                      \* a file that does not exist
Ended == {"returned", "crashed"}

Init == /\ time = 0
        /\ boot = 0
        /\ lock = NoClick
        /\ cleanupIncomplete = FALSE
        /\ stamps = {}
        /\ pending = {}
        /\ snapshots = {}
        /\ receipt = [b \in Click |-> None]
        /\ commit = [b \in Click |-> NoTime]
        /\ confirmation = [b \in Click |-> NoTime]
        /\ failure = [b \in Click |-> None]
        /\ worker = {}
        /\ pc = [b \in Click |-> "idle"]
        /\ started = [b \in Click |-> 0]
        /\ owned = [b \in Click |-> FALSE]
        /\ target = [b \in Click |-> FALSE]
        /\ dispatched = [b \in Click |-> FALSE]
        /\ cleaned = [b \in Click |-> TRUE]
        /\ published = [b \in Click |-> FALSE]
        /\ status = [b \in Click |-> "REJECTED"]
        /\ completed = [b \in Click |-> NoTime]
        /\ exitedAt = [b \in Click |-> NoTime]

-----------------------------------------------------------------------------
(* Clocks and readers.                                                     *)

Monotonic == time - boot
Elapsed(b) == Monotonic - started[b]
Late(b)    == Elapsed(b) >= TotalBudget

(* _execution_candidate: receipt, final result and commit agree on a       *)
(* candidate success prepared inside the budget, and the snapshot is there *)
CandidateValid(b) ==
  /\ commit[b] # NoTime
  /\ commit[b] < TotalBudget
  /\ receipt[b] = "CANDIDATE_SUCCEEDED"
  /\ b \in snapshots

(* committed_refresh_outcome: only a complete confirmation admits success. *)
Confirmed(b) ==
  /\ confirmation[b] # NoTime
  /\ confirmation[b] < TotalBudget
  /\ CandidateValid(b)

(* mutant: the candidate's files are taken for the confirmation            *)
OutcomeByCandidate(b) ==
  IF CandidateValid(b) THEN "SUCCEEDED"
  ELSE IF failure[b] # None THEN failure[b] ELSE "UNCONFIRMED"

Outcome(b) ==
  IF Confirmed(b) THEN "SUCCEEDED"
  ELSE IF failure[b] # None THEN failure[b] ELSE "UNCONFIRMED"

(* A read of the files may itself fail, and is then taken as unconfirmed.  *)
ReadOutcome(b) == {Outcome(b), "UNCONFIRMED"}

(* mutant: one tick short                                                  *)
CooldownShort == \A s \in stamps : Monotonic - s >= Interval - 1

CooldownOver == \A s \in stamps : Monotonic - s >= Interval

PendingSettled == \A p \in pending : Confirmed(p)

-----------------------------------------------------------------------------
(* Steps of refresh.                                                       *)

Goto(b, from, to) == /\ pc[b] = from
                     /\ pc' = [pc EXCEPT ![b] = to]

(* The body's except clause: FAILED once dispatched, else REJECTED.        *)
BodyFails(b, to) ==
  /\ pc' = [pc EXCEPT ![b] = to]
  /\ status' = [status EXCEPT ![b] = IF dispatched[b] THEN "FAILED" ELSE "REJECTED"]

Enter(b) ==
  /\ Goto(b, "idle", "guard")
  /\ started' = [started EXCEPT ![b] = Monotonic]
  /\ UNCHANGED <<time, boot, control, store, worker, owned, target, dispatched, cleaned,
                 published, status, completed, exitedAt>>

(* A pool without a supported code, or an unfinished cleanup, rejects the  *)
(* click before it owns anything.                                          *)
Guard(b) ==
  /\ pc[b] = "guard"
  /\ \/ Goto(b, "guard", "returned")
     \/ ~cleanupIncomplete /\ Goto(b, "guard", "acquire")
  /\ UNCHANGED <<time, boot, control, store, worker, started, owned, target, dispatched,
                 cleaned, published, status, completed, exitedAt>>

(* mutant: the loser waits for the lock                                    *)
AcquireWaits(b) ==
  /\ pc[b] = "acquire"
  /\ lock = NoClick
  /\ lock' = b
  /\ owned' = [owned EXCEPT ![b] = TRUE]
  /\ Goto(b, "acquire", "pendings")
  /\ UNCHANGED <<time, boot, cleanupIncomplete, stamps, pending, store, worker,
                 started, target, dispatched, cleaned, published, status, completed, exitedAt>>

(* lock.open("x"): the loser is rejected.  If the owner record cannot be   *)
(* written the lock file stays, owned by nobody.                           *)
Acquire(b) ==
  /\ pc[b] = "acquire"
  /\ \/ /\ lock = NoClick
        /\ lock' = b
        /\ \/ /\ owned' = [owned EXCEPT ![b] = TRUE]
              /\ Goto(b, "acquire", "pendings")
           \/ /\ Goto(b, "acquire", "returned")
              /\ UNCHANGED owned
     \/ /\ lock # NoClick
        /\ Goto(b, "acquire", "returned")
        /\ UNCHANGED <<lock, owned>>
  /\ UNCHANGED <<time, boot, cleanupIncomplete, stamps, pending, store, worker,
                 started, target, dispatched, cleaned, published, status, completed, exitedAt>>

CheckPending(b) ==
  /\ pc[b] = "pendings"
  /\ \/ /\ PendingSettled
        /\ Goto(b, "pendings", "cooldown")
        /\ UNCHANGED status
     \/ BodyFails(b, "receipted")      \* incomplete_finalization_block, or unreadable
  /\ UNCHANGED <<time, boot, control, store, worker, started, owned, target, dispatched,
                 cleaned, published, completed, exitedAt>>

(* The tick read here is the one recorded in attempt-<batch>.json; the     *)
(* directory, that record and the intent may each fail to be written.      *)
Cooldown(b) ==
  /\ pc[b] = "cooldown"
  /\ \/ /\ CooldownOver
        /\ target' = [target EXCEPT ![b] = TRUE]
        /\ \/ /\ stamps' = stamps \union {Monotonic}
              /\ Goto(b, "cooldown", "dispatch")
              /\ UNCHANGED status
           \/ /\ stamps' \in {stamps, stamps \union {Monotonic}}
              /\ BodyFails(b, "receipt")
     \/ /\ ~CooldownOver
        /\ BodyFails(b, "receipted")
        /\ UNCHANGED <<stamps, target>>
  /\ UNCHANGED <<time, boot, lock, cleanupIncomplete, pending, store, worker, started,
                 owned, dispatched, cleaned, published, completed, exitedAt>>

Dispatch(b) ==
  /\ pc[b] = "dispatch"
  /\ WorkerBudget - Elapsed(b) > MinDispatch
  /\ dispatched' = [dispatched EXCEPT ![b] = TRUE]
  /\ cleaned' = [cleaned EXCEPT ![b] = FALSE]
  /\ worker' = worker \union {b}
  /\ Goto(b, "dispatch", "worker")
  /\ UNCHANGED <<time, boot, control, store, started, owned, target, published, status,
                 completed, exitedAt>>

DispatchTooLate(b) ==
  /\ pc[b] = "dispatch"
  /\ WorkerBudget - Elapsed(b) <= MinDispatch
  /\ BodyFails(b, "receipt")
  /\ UNCHANGED <<time, boot, control, store, worker, started, owned, target, dispatched,
                 cleaned, published, completed, exitedAt>>

(* run_probe_worker_process reports cleanup_complete only before its       *)
(* deadline and with the process tree empty.                               *)
WorkerCleaned(b) ==
  /\ pc[b] = "worker"
  /\ Elapsed(b) < WorkerBudget
  /\ worker' = worker \ {b}
  /\ cleaned' = [cleaned EXCEPT ![b] = TRUE]
  /\ exitedAt' = [exitedAt EXCEPT ![b] = time]
  /\ \/ /\ Goto(b, "worker", "response")
        /\ UNCHANGED status
     \/ BodyFails(b, "receipt")                        \* the worker failed
  /\ UNCHANGED <<time, boot, control, store, started, owned, target, dispatched, published,
                 completed>>

(* Cleanup not confirmed, or the call raised: `cleaned` stays FALSE and a  *)
(* worker may be left behind.                                              *)
WorkerUnclean(b) ==
  /\ pc[b] = "worker"
  /\ BodyFails(b, "receipt")
  /\ cleanupIncomplete' \in {cleanupIncomplete, TRUE}
  /\ UNCHANGED <<time, boot, lock, stamps, pending, store, worker, started, owned,
                 target, dispatched, cleaned, published, completed, exitedAt>>

SaveSnapshot(b) ==
  /\ pc[b] = "response"
  /\ \/ /\ ~Late(b)
        /\ snapshots' = snapshots \union {b}
        /\ published' = [published EXCEPT ![b] = TRUE]
        /\ Goto(b, "response", "saved")
        /\ UNCHANGED status
     \/ /\ BodyFails(b, "receipt")    \* invalid response, out of time, write refused
        /\ UNCHANGED <<snapshots, published>>
  /\ UNCHANGED <<time, boot, control, receipt, commit, confirmation, failure, worker,
                 started, owned, target, dispatched, cleaned, completed, exitedAt>>

Candidate(b) ==
  /\ pc[b] = "saved"
  /\ \/ Late(b) /\ BodyFails(b, "receipt")
     \/ /\ ~Late(b)
        /\ status' = [status EXCEPT ![b] = "CANDIDATE_SUCCEEDED"]
        /\ Goto(b, "saved", "receipt")
  /\ UNCHANGED <<time, boot, control, store, worker, started, owned, target, dispatched,
                 cleaned, published, completed, exitedAt>>

-----------------------------------------------------------------------------
(* Steps of _finish_refresh.                                               *)

IsCandidate(b) == status[b] = "CANDIDATE_SUCCEEDED"
(* mutant: unlocks although the worker was not seen gone                   *)
MayUnlockUnreaped(b) == owned[b] /\ ~(published[b] /\ ~IsCandidate(b))

MayUnlock(b) == owned[b] /\ cleaned[b] /\ ~(published[b] /\ ~IsCandidate(b))

Raises(b, from) == Goto(b, from, "handler")

WriteReceipt(b) ==
  /\ pc[b] = "receipt"
  /\ \/ /\ receipt' = [receipt EXCEPT ![b] = status[b]]
        /\ Goto(b, "receipt", IF Late(b) THEN "handler" ELSE "receipted")
     \/ /\ Raises(b, "receipt")
        /\ UNCHANGED receipt
  /\ UNCHANGED <<time, boot, control, snapshots, commit, confirmation, failure, worker,
                 started, owned, target, dispatched, cleaned, published, status, completed, exitedAt>>

(* The release record restarts the cooldown; a batch that published but is *)
(* not a candidate keeps the lock, as does one whose worker may be alive.  *)
WriteRelease(b) ==
  /\ pc[b] = "receipted"
  /\ \/ /\ MayUnlock(b)
        /\ stamps' = IF dispatched[b] THEN stamps \union {Monotonic} ELSE stamps
        /\ Goto(b, "receipted", "mark")
     \/ /\ MayUnlock(b) /\ dispatched[b]
        /\ Raises(b, "receipted")
        /\ UNCHANGED stamps
     \/ /\ ~MayUnlock(b)
        /\ Goto(b, "receipted", "settle")
        /\ UNCHANGED stamps
  /\ UNCHANGED <<time, boot, lock, cleanupIncomplete, pending, store, worker, started,
                 owned, target, dispatched, cleaned, published, status, completed, exitedAt>>

MarkPending(b) ==
  /\ pc[b] = "mark"
  /\ \/ /\ pending' = IF published[b] THEN pending \union {b} ELSE pending
        /\ Goto(b, "mark", "unlock")
     \/ /\ published[b]
        /\ Raises(b, "mark")
        /\ UNCHANGED pending
  /\ UNCHANGED <<time, boot, lock, cleanupIncomplete, stamps, store, worker, started,
                 owned, target, dispatched, cleaned, published, status, completed, exitedAt>>

Unlock(b) ==
  /\ pc[b] = "unlock"
  /\ \/ /\ ~Late(b)
        /\ lock' = NoClick
        /\ Goto(b, "unlock", "unlocked")
     \/ /\ Raises(b, "unlock")         \* out of time, or unlink refused
        /\ UNCHANGED lock
  /\ UNCHANGED <<time, boot, cleanupIncomplete, stamps, pending, store, worker, started,
                 owned, target, dispatched, cleaned, published, status, completed, exitedAt>>

Unlocked(b) ==
  /\ pc[b] = "unlocked"
  /\ \/ Late(b) /\ Raises(b, "unlocked")
     \/ ~Late(b) /\ Goto(b, "unlocked", "settle")
  /\ UNCHANGED <<time, boot, control, store, worker, started, owned, target, dispatched,
                 cleaned, published, status, completed, exitedAt>>

(* A run that is not a candidate records its failure and returns.          *)
SettleFailure(b) ==
  /\ pc[b] = "settle"
  /\ ~IsCandidate(b)
  /\ \/ /\ failure' = [failure EXCEPT ![b] = IF target[b] THEN status[b] ELSE None]
        /\ Goto(b, "settle", "returned")
     \/ /\ target[b]
        /\ Raises(b, "settle")
        /\ UNCHANGED failure
  /\ UNCHANGED <<time, boot, control, snapshots, receipt, commit, confirmation, worker,
                 started, owned, target, dispatched, cleaned, published, status, completed, exitedAt>>

(* final-result.json, written and read back.                               *)
FinalResult(b) ==
  /\ pc[b] = "settle"
  /\ IsCandidate(b)
  /\ \/ ~Late(b) /\ Goto(b, "settle", "commit")
     \/ Raises(b, "settle")
  /\ UNCHANGED <<time, boot, control, store, worker, started, owned, target, dispatched,
                 cleaned, published, status, completed, exitedAt>>

(* final-commit.json: staged privately, then linked without replacement.   *)
FinalCommit(b) ==
  /\ pc[b] = "commit"
  /\ \/ /\ ~Late(b)
        /\ commit' = [commit EXCEPT ![b] = Elapsed(b)]
        /\ Goto(b, "commit", "committed")
     \/ /\ Raises(b, "commit")
        /\ UNCHANGED commit
  /\ UNCHANGED <<time, boot, control, snapshots, receipt, confirmation, failure, worker,
                 started, owned, target, dispatched, cleaned, published, status, completed, exitedAt>>

(* Only here may EXECUTION_SUCCEEDED exist: candidate re-read, lock seen   *)
(* absent, completion observed strictly before the deadline.               *)
ObserveCompletion(b) ==
  /\ pc[b] = "committed"
  /\ \/ /\ CandidateValid(b)
        /\ lock = NoClick
        /\ ~Late(b)
        /\ completed' = [completed EXCEPT ![b] = Elapsed(b)]
        /\ Goto(b, "committed", "confirm")
     \/ /\ lock # NoClick \/ Late(b) \/ ~CandidateValid(b)
        /\ Raises(b, "committed")
        /\ UNCHANGED completed
  /\ UNCHANGED <<time, boot, control, store, worker, started, owned, target, dispatched,
                 cleaned, published, status, exitedAt>>

FinalConfirmation(b) ==
  /\ pc[b] = "confirm"
  /\ \/ /\ confirmation' = [confirmation EXCEPT ![b] = completed[b]]
        /\ Goto(b, "confirm", "confirmed")
     \/ /\ Raises(b, "confirm")
        /\ UNCHANGED confirmation
  /\ UNCHANGED <<time, boot, control, snapshots, receipt, commit, failure, worker,
                 started, owned, target, dispatched, cleaned, published, status, completed, exitedAt>>

ReturnSuccess(b) ==
  /\ pc[b] = "confirmed"
  /\ \E seen \in ReadOutcome(b) :
       \/ /\ seen = "SUCCEEDED"
          /\ status' = [status EXCEPT ![b] = seen]
          /\ Goto(b, "confirmed", "returned")
       \/ /\ seen # "SUCCEEDED"
          /\ Raises(b, "confirmed")
          /\ UNCHANGED status
  /\ UNCHANGED <<time, boot, control, store, worker, started, owned, target, dispatched,
                 cleaned, published, completed, exitedAt>>

(* except BaseException: a confirmed run still succeeds; otherwise record  *)
(* the failure, and if even that fails put the lock back as a veto.        *)
HandlerConfirmed(b) ==
  /\ pc[b] = "handler"
  /\ completed[b] # NoTime
  /\ "SUCCEEDED" \in ReadOutcome(b)
  /\ status' = [status EXCEPT ![b] = "SUCCEEDED"]
  /\ Goto(b, "handler", "returned")
  /\ UNCHANGED <<time, boot, control, store, worker, started, owned, target, dispatched,
                 cleaned, published, completed, exitedAt>>

HandlerFails(b) ==
  /\ pc[b] = "handler"
  /\ status' = [status EXCEPT ![b] =
                  IF completed[b] # NoTime THEN "UNCONFIRMED" ELSE "FAILED"]
  /\ Goto(b, "handler", "returned")
  /\ \/ ~target[b] /\ UNCHANGED <<failure, lock>>
     \/ /\ target[b]
        /\ failure' = [failure EXCEPT ![b] = status'[b]]
        /\ UNCHANGED lock
     \/ /\ target[b]
        /\ lock' \in {lock, IF lock = NoClick THEN b ELSE lock}
        /\ UNCHANGED failure
  /\ UNCHANGED <<time, boot, cleanupIncomplete, stamps, pending, snapshots, receipt,
                 commit, confirmation, worker, started, owned, target, dispatched,
                 cleaned, published, completed, exitedAt>>

-----------------------------------------------------------------------------
(* The environment.                                                        *)

Tick == /\ time < MaxTime
        /\ time' = time + 1
        /\ UNCHANGED <<boot, control, store, worker, locals, exitedAt>>

WorkerExits(b) ==                  \* a worker left behind ends by itself
  /\ b \in worker
  /\ worker' = worker \ {b}
  /\ UNCHANGED <<time, boot, control, store, locals, exitedAt>>

Crash(b) ==
  /\ pc[b] \notin {"idle"} \union Ended
  /\ pc' = [pc EXCEPT ![b] = "crashed"]
  /\ UNCHANGED <<time, boot, control, store, worker, started, owned, target, dispatched,
                 cleaned, published, status, completed, exitedAt>>

(* All processes die and the monotonic clock restarts; files survive.      *)
(* At most one restart in a behaviour of the model.                        *)
Reboot ==
  /\ boot = 0
  /\ time > 0
  /\ boot' = time
  /\ worker' = {}
  /\ pc' = [b \in Click |-> IF pc[b] = "idle" THEN "idle"
                            ELSE IF pc[b] = "returned" THEN "returned" ELSE "crashed"]
  /\ UNCHANGED <<time, control, store, started, owned, target, dispatched, cleaned, published,
                 status, completed, exitedAt>>

Step(b) ==
  \/ Guard(b) \/ Acquire(b) \/ CheckPending(b) \/ Cooldown(b)
  \/ Dispatch(b) \/ DispatchTooLate(b) \/ WorkerCleaned(b) \/ WorkerUnclean(b)
  \/ SaveSnapshot(b) \/ Candidate(b)
  \/ WriteReceipt(b) \/ WriteRelease(b) \/ MarkPending(b) \/ Unlock(b) \/ Unlocked(b)
  \/ SettleFailure(b) \/ FinalResult(b) \/ FinalCommit(b) \/ ObserveCompletion(b)
  \/ FinalConfirmation(b) \/ ReturnSuccess(b) \/ HandlerConfirmed(b) \/ HandlerFails(b)

Next == \/ Tick
        \/ Reboot
        \/ \E b \in Click : Enter(b) \/ Step(b) \/ WorkerExits(b) \/ Crash(b)

Spec == Init /\ [][Next]_vars

(* A click is a running thread: its own enabled steps are eventually taken *)
(* unless its process dies.  Time, new clicks and restarts are not fair.   *)
FairSpec == Spec /\ \A b \in Click : WF_vars(Step(b))

-----------------------------------------------------------------------------
(* Properties.                                                             *)

Labels == {"idle", "guard", "acquire", "pendings", "cooldown", "dispatch", "worker",
           "response", "saved", "receipt", "receipted", "mark", "unlock", "unlocked",
           "settle", "commit", "committed", "confirm", "confirmed", "handler"} \union Ended
Statuses == {"REJECTED", "FAILED", "CANDIDATE_SUCCEEDED", "UNCONFIRMED", "SUCCEEDED"}

(* Every variable keeps its type.                                          *)
TypeOK ==
  /\ time \in Nat /\ boot \in 0..time
  /\ lock \in Click \union {NoClick}
  /\ cleanupIncomplete \in BOOLEAN
  /\ stamps \subseteq Nat
  /\ pending \subseteq Click /\ snapshots \subseteq Click /\ worker \subseteq Click
  /\ receipt \in [Click -> Statuses \union {None}]
  /\ failure \in [Click -> Statuses \union {None}]
  /\ commit \in [Click -> Int \union {NoTime}]
  /\ confirmation \in [Click -> Int \union {NoTime}]
  /\ completed \in [Click -> Int \union {NoTime}]
  /\ exitedAt \in [Click -> Nat \union {NoTime}]
  /\ pc \in [Click -> Labels]
  /\ status \in [Click -> Statuses]
  /\ started \in [Click -> Nat]
  /\ owned \in [Click -> BOOLEAN] /\ target \in [Click -> BOOLEAN]
  /\ dispatched \in [Click -> BOOLEAN] /\ cleaned \in [Click -> BOOLEAN]
  /\ published \in [Click -> BOOLEAN]

(* Concurrent clicks, crashed callers, left-over workers and the veto lock *)
(* of the failure handler never let two workers be alive at once.          *)
AtMostOneWorker == \A a, b \in worker : a = b

Dispatches(b) == ~dispatched[b] /\ dispatched'[b]

(* A request goes out only when every earlier worker was seen gone, and at *)
(* least Interval of real time after that, clock restarts included.        *)
CooldownRespected ==
  [][\A b \in Click : Dispatches(b) =>
       \A a \in Click : dispatched[a] =>
         exitedAt[a] # NoTime /\ time - exitedAt[a] >= Interval]_vars

(* While a published batch is unconfirmed, whatever killed it, no later    *)
(* request is sent.                                                        *)
NoDispatchOverUnconfirmed ==
  [][\A b \in Click : Dispatches(b) =>
       \A p \in Click : published[p] => Confirmed(p)]_vars

(* A published confirmation is never revoked: not by a late failure file,  *)
(* a crash, another click or a restart.                                    *)
ConfirmedIsFinal ==
  [][\A b \in Click : Confirmed(b) => Confirmed(b)']_vars

(* What the caller is told agrees with what every later reader sees:       *)
(* SUCCEEDED only for a confirmed batch, FAILED and REJECTED only for one  *)
(* that is not (and, being returned, never will be).                       *)
CallerToldTruth ==
  \A b \in Click : pc[b] = "returned" =>
    /\ status[b] = "SUCCEEDED" => Confirmed(b)
    /\ status[b] \in {"FAILED", "REJECTED"} => ~Confirmed(b)
    /\ status[b] = "UNCONFIRMED" => completed[b] # NoTime

(* A batch readers treat as successful had its worker reaped, its data and *)
(* its pending mark stored, and its completion observed in the budget.     *)
ConfirmedHasEvidence ==
  \A b \in Click : Confirmed(b) =>
    /\ dispatched[b] /\ cleaned[b] /\ b \notin worker
    /\ b \in snapshots \intersect pending
    /\ completed[b] = confirmation[b]
    /\ commit[b] <= confirmation[b] /\ confirmation[b] < TotalBudget

(* A published candidate is refused only for its own lateness.             *)
CandidateFailsOnlyLate ==
  [][\A b \in Click : pc[b] = "committed" /\ pc'[b] = "handler" => Late(b)]_vars

(* Every click ends: nothing in the protocol waits for another click.      *)
EveryClickEnds == \A b \in Click : pc[b] = "guard" ~> pc[b] \in Ended

(* The refresh implements the single-flight promise.                       *)
Flight == INSTANCE SingleFlight WITH
            Batch     <- Click,
            begun     <- {b \in Click : dispatched[b]},
            inFlight  <- {b \in Click : ~cleaned[b]},
            sealed    <- {b \in Click : published[b]},
            confirmed <- {b \in Click : Confirmed(b)}
ImplementsSingleFlight == Flight!Spec

-----------------------------------------------------------------------------
(* The inductive strengthening of the properties above.                    *)

HeldLabels == {"pendings", "cooldown", "dispatch", "worker", "response", "saved",
               "receipt", "receipted", "mark", "unlock"}

(* Who holds the lock: a call between acquiring and unlocking, and for     *)
(* ever a call whose worker was not seen gone.                             *)
LockInv ==
  \A b \in Click :
    /\ pc[b] \in HeldLabels => lock = b /\ owned[b]
    /\ pc[b] \in {"worker", "response", "saved"} => dispatched[b]
    /\ pc[b] = "worker" => ~cleaned[b]
    /\ b \in worker => ~cleaned[b]
    /\ ~cleaned[b] => lock = b /\ dispatched[b]
    /\ pc[b] \in {"dispatch", "response", "saved", "mark", "unlock"} => cleaned[b]
    /\ pc[b] \in {"idle", "guard", "acquire", "pendings", "cooldown", "dispatch"} =>
         ~dispatched[b] /\ cleaned[b]

(* What is on disk at each stage, and that a published batch is confirmed, *)
(* or still locked, or marked.                                             *)
PublishInv ==
  \A b \in Click :
    /\ published[b] => Confirmed(b) \/ lock = b \/ b \in pending
    /\ pc[b] \in {"cooldown", "dispatch"} => \A p \in pending : Confirmed(p)
    /\ pc[b] \in {"idle", "guard", "acquire", "pendings", "cooldown", "dispatch",
                   "worker", "response"} => ~published[b]
    /\ pc[b] = "saved" => published[b]
    /\ pc[b] = "unlock" /\ published[b] => b \in pending
    /\ confirmation[b] # NoTime => pc[b] \in {"confirmed", "handler"} \union Ended
    /\ pc[b] \in {"commit", "committed", "confirm", "confirmed"} => IsCandidate(b)
    /\ IsCandidate(b) => published[b] /\ cleaned[b] /\ dispatched[b]
    /\ pc[b] \in {"unlocked", "settle", "commit", "committed", "confirm", "confirmed"}
         /\ IsCandidate(b) => b \in pending

(* The worker's exit is on record before the lock can be taken again.      *)
CooldownInv ==
  \A a \in Click :
    /\ dispatched[a] /\ cleaned[a] =>
         /\ exitedAt[a] # NoTime /\ exitedAt[a] <= time
         /\ \/ \E s \in stamps : s >= exitedAt[a] - boot
            \/ lock = a /\ pc[a] \notin {"mark", "unlock"}
    /\ pc[a] = "dispatch" =>
         \A c \in Click : dispatched[c] =>
           exitedAt[c] # NoTime /\ time - exitedAt[c] >= Interval

(* What stands behind a commit, an observed completion and a confirmation. *)
EvidenceInv ==
  \A b \in Click :
    /\ published[b] => b \in snapshots
    /\ pc[b] = "committed" => commit[b] # NoTime /\ commit[b] <= Elapsed(b)
    /\ pc[b] = "confirm" => completed[b] # NoTime
    /\ completed[b] # NoTime =>
         /\ pc[b] \in {"confirm", "confirmed", "handler"} \union Ended
         /\ dispatched[b] /\ cleaned[b] /\ b \in pending
         /\ commit[b] # NoTime /\ commit[b] <= completed[b]
         /\ completed[b] < TotalBudget
    /\ confirmation[b] # NoTime => completed[b] = confirmation[b]

(* What a call may still answer, and that a failure file never says        *)
(* success.                                                                *)
AnswerInv ==
  \A b \in Click :
    /\ pc[b] \in {"idle", "guard", "acquire"} => status[b] = "REJECTED"
    /\ status[b] \in {"SUCCEEDED", "UNCONFIRMED"} => pc[b] = "returned"
    /\ pc[b] = "returned" => ~IsCandidate(b)
    /\ failure[b] # "SUCCEEDED"

IInv == /\ TypeOK /\ LockInv /\ PublishInv /\ CooldownInv
        /\ EvidenceInv /\ AnswerInv /\ CallerToldTruth
=============================================================================
