--------------------------- MODULE CloseCollector ---------------------------
(* CloseWindowCollector of data/snapshot_store.py with a time contract:    *)
(* one collection asks every provider in a thread pool, waits until the    *)
(* collection deadline, cancels what is left, joins the pool, and writes   *)
(* the records once.  One process collects several times in a row, with    *)
(* one transport; it may die at any step.  A provider is one thread of     *)
(* RequestsTransport.  The records of a provider are left out but for the  *)
(* time they became available; readiness only decides data_ready, which    *)
(* is left out.                                                            *)
EXTENDS RequestsTransport

CONSTANTS Provider,
          rank,        \* [Provider -> Nat], the order of _provider_submission_order
          PoolSize,    \* max_workers
          Second,      \* ticks in a second
          Deadlines,   \* the collection deadlines of the collectors that share the transport
          LastStart,   \* no collection is asked for later
          StartDelay,  \* bound on what passes between observed_at and the deadline's timer
          MaxRuns,     \* bound on the collections
          NoSnapshot

ASSUME CollectorAssumption ==
  /\ Provider = Caller /\ IsFiniteSet(Provider)
  /\ rank \in [Provider -> Nat]
  /\ \A p, q \in Provider : rank[p] = rank[q] => p = q
  /\ {PoolSize, Second} \subseteq Nat \ {0}
  /\ {LastStart, StartDelay, MaxRuns} \subseteq Nat
  /\ \A d \in Deadlines : d \in Nat /\ d % Second = 0

VARIABLES
  pc,        \* where the collecting thread is
  runs,      \* collections asked for
  observed,  \* the argument observed_at
  deadline,  \* collection_deadline of its time contract, or NoTime
  timer,     \* deadline_monotonic, or NoTime
  task,      \* what became of each provider in this collection
  outcome,   \* what its thread returned
  finished,  \* the completed_at it returned
  completed, \* the providers done when wait returned
  late,      \* the providers that could not be cancelled
  store,     \* the snapshot file of each second
  temporary  \* its .json.tmp

localVars == <<observed, deadline, timer, task, outcome, finished, completed, late>>
fileVars == <<store, temporary>>
vars == <<now, transportVars, pc, runs, localVars, fileVars>>

Tasks == {"new", "skipped", "queued", "running", "returning", "done", "cancelled"}
Outcomes == {"none", "rows", "failed", "deadline"}
Places == {"idle", "begin", "submit", "wait", "cancel", "stop", "join", "gather",
           "exists", "write", "replace"}
Collecting == {"begin", "submit", "wait", "cancel", "stop", "join", "gather"}

Publishing == {"exists", "write", "replace"}

Seconds == {t \div Second : t \in 0..MaxTime}
\* A snapshot file is known by the collection that it is of.
Snapshots == 1..MaxRuns

TypeOK ==
  /\ TransportTypeOK
  /\ pc \in Places
  /\ runs \in 0..MaxRuns
  /\ observed \in 0..MaxTime
  /\ deadline \in Deadlines \union {NoTime}
  /\ timer \in Nat \union {NoTime}
  /\ task \in [Provider -> Tasks]
  /\ outcome \in [Provider -> Outcomes]
  /\ finished \in [Provider -> 0..MaxTime \union {NoTime}]
  /\ completed \subseteq Provider
  /\ late \subseteq Provider
  /\ store \in [Seconds -> Snapshots \union {NoSnapshot}]
  /\ temporary \in [Seconds -> Snapshots \union {NoSnapshot}]

Blank ==
  /\ observed' = 0 /\ deadline' = NoTime /\ timer' = NoTime
  /\ task' = [p \in Provider |-> "new"]
  /\ outcome' = [p \in Provider |-> "none"]
  /\ finished' = [p \in Provider |-> NoTime]
  /\ completed' = {} /\ late' = {}

Init ==
  /\ TransportInit
  /\ pc = "idle" /\ runs = 0 /\ observed = 0
  /\ deadline = NoTime /\ timer = NoTime
  /\ task = [p \in Provider |-> "new"]
  /\ outcome = [p \in Provider |-> "none"]
  /\ finished = [p \in Provider |-> NoTime]
  /\ completed = {} /\ late = {}
  /\ store = [s \in Seconds |-> NoSnapshot]
  /\ temporary = [s \in Seconds |-> NoSnapshot]

\* What collect holds in its locals is gone when it returns.
Return == pc' = "idle" /\ Blank

-----------------------------------------------------------------------------
(* The collecting thread.                                                  *)

\* observed_at is read by the caller when it calls.
Collect ==
  /\ pc = "idle" /\ runs < MaxRuns /\ now <= LastStart
  /\ runs' = runs + 1
  /\ \E d \in Deadlines :
       IF now <= d
         THEN /\ observed' = now /\ deadline' = d
              /\ pc' = "begin"
              /\ UNCHANGED <<timer, task, outcome, finished, completed, late>>
         ELSE Return
  /\ UNCHANGED <<now, transportVars, fileVars>>

SetDeadline ==
  /\ pc = "begin"
  /\ timer' = now + (deadline - observed)
  /\ SetGlobalDeadline(timer')
  /\ pc' = "submit"
  /\ UNCHANGED <<now, lastHostRequest, threadVars, runs, observed, deadline, task, outcome, finished,
                 completed, late, fileVars>>

New == {p \in Provider : task[p] = "new"}

First(S) == {p \in S : \A q \in S : rank[p] <= rank[q]}

\* mutant: the providers in the order of the configuration
SubmitAnyOrder ==
  /\ pc = "submit"
  /\ IF New = {}
       THEN pc' = "wait" /\ UNCHANGED task
       ELSE \E p \in New :
              /\ task' = [task EXCEPT ![p] = IF now >= timer THEN "skipped" ELSE "queued"]
              /\ UNCHANGED pc
  /\ UNCHANGED <<now, transportVars, runs, observed, deadline, timer, outcome, finished, completed,
                 late, fileVars>>

Submit ==
  /\ pc = "submit"
  /\ IF New = {}
       THEN pc' = "wait" /\ UNCHANGED task
       ELSE \E p \in First(New) :
              /\ task' = [task EXCEPT ![p] = IF now >= timer THEN "skipped" ELSE "queued"]
              /\ UNCHANGED pc
  /\ UNCHANGED <<now, transportVars, runs, observed, deadline, timer, outcome, finished, completed,
                 late, fileVars>>

Submitted == {p \in Provider : task[p] \in {"queued", "running", "returning", "done"}}
Done == {p \in Provider : task[p] = "done"}

WaitForEveryProvider ==
  /\ pc = "wait" /\ Done = Provider
  /\ completed' = Done
  /\ pc' = "cancel"
  /\ UNCHANGED <<now, transportVars, runs, observed, deadline, timer, task, outcome, finished, late,
                 fileVars>>

Wait ==
  /\ pc = "wait"
  /\ Submitted = Done \/ now >= timer
  /\ completed' = Done
  /\ pc' = "cancel"
  /\ UNCHANGED <<now, transportVars, runs, observed, deadline, timer, task, outcome, finished, late,
                 fileVars>>

\* Futures that wait returned as pending and the loop has not passed.
Pending == Submitted \ (completed \union late)

CancelPending ==
  /\ pc = "cancel"
  /\ IF Pending = {}
       THEN pc' = "stop" /\ UNCHANGED <<task, late>>
       ELSE \E p \in Pending :
              /\ IF task[p] = "queued"
                   THEN task' = [task EXCEPT ![p] = "cancelled"] /\ UNCHANGED late
                   ELSE late' = late \union {p} /\ UNCHANGED task
              /\ UNCHANGED pc
  /\ UNCHANGED <<now, transportVars, runs, observed, deadline, timer, outcome, finished, completed,
                 fileVars>>

CancelProviders ==
  /\ pc = "stop"
  /\ IF completed = Provider
       THEN UNCHANGED <<cancelled, globalDeadline>>
       ELSE CancelCurrentCollection
  /\ pc' = "join"
  /\ UNCHANGED <<now, lastHostRequest, threadVars, runs, localVars, fileVars>>

Active == {p \in Provider : task[p] \in {"running", "returning"}}

ShutdownNoWait ==
  /\ pc = "join"
  /\ pc' = "gather"
  /\ UNCHANGED <<now, transportVars, runs, localVars, fileVars>>

Shutdown ==
  /\ pc = "join" /\ Active = {}
  /\ pc' = "gather"
  /\ UNCHANGED <<now, transportVars, runs, localVars, fileVars>>

Status(p) ==
  IF p \notin completed \/ outcome[p] = "deadline" THEN "DEADLINE_EXCEEDED"
  ELSE IF outcome[p] = "failed" THEN "FAILED"
  ELSE IF finished[p] <= deadline THEN "SUCCESS"
  ELSE "LATE_AUDIT_ONLY"

\* available_at of the stamped rows is cut to a whole second before
\* records_available_at compares it with the collection deadline.
AvailableAt(p) == (finished[p] \div Second) * Second

Accepted ==
  {p \in completed : outcome[p] = "rows" /\ AvailableAt(p) <= deadline}

Snapshot == runs

SnapshotId == observed \div Second

Gather ==
  /\ pc = "gather"
  /\ SetGlobalDeadline(NoTime)
  /\ IF Accepted = {}
       THEN Return
       ELSE pc' = "exists" /\ UNCHANGED localVars
  /\ UNCHANGED <<now, lastHostRequest, threadVars, runs, fileVars>>

(* write_once.  Two snapshots are never equal: they hold the elapsed       *)
(* milliseconds of their providers.                                        *)
WriteOnceExistsBlind ==
  /\ pc = "exists"
  /\ pc' = "write"
  /\ UNCHANGED <<now, transportVars, runs, localVars, fileVars>>

WriteOnceExists ==
  /\ pc = "exists"
  /\ IF store[SnapshotId] # NoSnapshot
       THEN Return
       ELSE pc' = "write" /\ UNCHANGED localVars
  /\ UNCHANGED <<now, transportVars, runs, fileVars>>

WriteTemporary ==
  /\ pc = "write"
  /\ temporary' = [temporary EXCEPT ![SnapshotId] = Snapshot]
  /\ pc' = "replace"
  /\ UNCHANGED <<now, transportVars, runs, localVars, store>>

Replace ==
  /\ pc = "replace"
  /\ store' = [store EXCEPT ![SnapshotId] = temporary[SnapshotId]]
  /\ temporary' = [temporary EXCEPT ![SnapshotId] = NoSnapshot]
  /\ Return
  /\ UNCHANGED <<now, transportVars, runs>>

CollectorStep ==
  \/ SetDeadline \/ Submit \/ Wait \/ CancelPending \/ CancelProviders \/ Shutdown
  \/ Gather \/ WriteOnceExists \/ WriteTemporary \/ Replace

-----------------------------------------------------------------------------
(* The threads of the pool.                                                *)
Queued == {p \in Provider : task[p] = "queued"}

\* A free thread takes the oldest future; a provider begins with a request.
Start(p) ==
  /\ p \in First(Queued)
  /\ Cardinality(Active) < PoolSize
  /\ task' = [task EXCEPT ![p] = "running"]
  /\ Request(p)
  /\ UNCHANGED <<now, globalDeadline, cancelled, lastHostRequest, pc, runs, observed, deadline, timer,
                 outcome, finished, completed, late, fileVars>>

\* _invoke_provider reads completed_at.  The answer may be unusable, and a
\* provider may have a backup in its cache when a request fails.
ProviderReturns(p) ==
  /\ task[p] = "running" /\ stage[p] \in Ended
  /\ \E o \in Outcomes \ {"none"} :
       /\ o = "deadline" => stage[p] = "deadline"
       /\ outcome' = [outcome EXCEPT ![p] = o]
  /\ finished' = [finished EXCEPT ![p] = now]
  /\ task' = [task EXCEPT ![p] = "returning"]
  /\ To(p, "out")
  /\ asked' = [asked EXCEPT ![p] = 0]
  /\ attempt' = [attempt EXCEPT ![p] = 0]
  /\ UNCHANGED <<now, globalDeadline, cancelled, lastHostRequest, slot, pc, runs,
                 observed, deadline, timer, completed, late, fileVars>>

\* The future gets its result only then.
FutureDone(p) ==
  /\ task[p] = "returning"
  /\ task' = [task EXCEPT ![p] = "done"]
  /\ UNCHANGED <<now, transportVars, pc, runs, observed, deadline, timer, outcome, finished, completed,
                 late, fileVars>>

ThreadStep(p) ==
  \/ Start(p) \/ ProviderReturns(p) \/ FutureDone(p)
  \/ RequestStep(p) /\ UNCHANGED <<pc, runs, localVars, fileVars>>

-----------------------------------------------------------------------------
\* The process dies; a new one begins with a new transport.
Crash ==
  /\ pc # "idle"
  /\ globalDeadline' = NoTime /\ cancelled' = FALSE
  /\ lastHostRequest' = [h \in Host |-> NoTime]
  /\ stage' = [c \in Caller |-> "out"]
  /\ asked' = [c \in Caller |-> 0]
  /\ attempt' = [c \in Caller |-> 0]
  /\ slot' = [c \in Caller |-> NoTime]
  /\ Return
  /\ UNCHANGED <<now, runs, fileVars>>

\* The timer is armed at most StartDelay after observed_at.
Time ==
  /\ pc = "begin" => now < observed + StartDelay
  /\ Tick
  /\ UNCHANGED <<pc, runs, localVars, fileVars>>

Next ==
  \/ Collect \/ CollectorStep \/ Crash \/ Time
  \/ \E p \in Provider : ThreadStep(p)

Spec == Init /\ [][Next]_vars

(* Each thread goes on, a request on the wire ends, and time passes.       *)
Fairness ==
  /\ WF_vars(CollectorStep)
  /\ WF_vars(Time)
  /\ \A p \in Provider : WF_vars(ThreadStep(p))

FairSpec == Spec /\ Fairness

-----------------------------------------------------------------------------
(* When the collecting thread reads the results, nothing of the collection *)
(* is left: no thread, no request on the wire, no reserved slot, and the   *)
(* transport has no deadline and no cancellation for the next collection   *)
(* (l. 427-458; next_run_is_clean in test_phase75).                       *)
NothingOutlivesCollect ==
  pc \notin Collecting =>
     /\ Active = {} /\ Queued = {}
     /\ \A p \in Provider : stage[p] = "out" /\ slot[p] = NoTime
     /\ globalDeadline = NoTime /\ ~cancelled

(* No request is sent once the collector gave up on its providers, and     *)
(* none after the deadline of its collection, although neither the slot's  *)
(* sleep nor the retry is interrupted (l. 191-232 of the transport).       *)
NoRequestAfterDeadline ==
  [][\A p \in Provider :
        stage[p] # "wire" /\ stage'[p] = "wire"
          => ~cancelled /\ globalDeadline # NoTime /\ now < globalDeadline]_vars

(* A snapshot that was published is never changed or lost, whatever is     *)
(* collected later and wherever a process dies (write_once, l. 96-113).    *)
SnapshotIsFinal ==
  [][\A s \in Seconds : store[s] # NoSnapshot => store'[s] = store[s]]_vars

(* The rows of a provider that completed after the deadline are not among  *)
(* the records of a snapshot: it calls them late, for the audit only.      *)
LateRecordsStayOut ==
  pc \in Publishing => \A p \in Accepted : Status(p) = "SUCCESS"

(* The deadline costs the least important providers first: however the     *)
(* threads and the clock move while providers are submitted, started and   *)
(* cancelled, no result is taken from one while a more important one was   *)
(* skipped (l. 404-414) or cancelled before it began (l. 427-435).  This   *)
(* is what the order of submission (l. 398-400, 1075-1085) is for.         *)
PriorityKept ==
  \A p, q \in Provider :
     rank[p] < rank[q] /\ q \in completed => task[p] \notin {"skipped", "cancelled"}

(* A collection ends, although its providers may ask again and again, be   *)
(* refused, sleep or fail.                                                 *)
CollectEnds == pc = "begin" ~> pc = "idle"
=============================================================================
