--------------------------- MODULE PreparedCapture ---------------------------
(* The captures that run prepared waves, and what they leave on disk.      *)
(* "four" is minute_local_prepare_audit.capture: its waves run one after   *)
(* the other and are sealed once.  "matrix" is                             *)
(* minute_protocol_differential.capture: it runs an experiment of          *)
(* minute_protocol_execution.capture after the other, each with its own    *)
(* intent and seal.  A capture may die, or fail to write, at every step,   *)
(* and another one may then be started, on that day or a later one.  All   *)
(* files are written once: a name that exists is never replaced            *)
(* (write_benchmark_json_atomic).  Captures do not run at one time: their  *)
(* preflight looks for the processes of another one.                       *)
EXTENDS PreparedWave

CONSTANTS Units,     \* waves of a four-wave capture, experiments of a matrix
          MaxLate,   \* how late a wave is begun
          MaxEarly,  \* how much later than the monotonic clock "four" reads the other one
          MaxRuns    \* bound on the captures

ASSUME CaptureAssumption ==
  Units \in Nat \ {0} /\ {MaxLate, MaxEarly} \subseteq Nat /\ MaxEarly < Lead /\ MaxRuns \in Nat

Families == {"four", "matrix"}
Whole == 0

VARIABLES
  files,         \* what is on disk
  step,          \* where the capture is
  family, unit,  \* what it captures
  bad,           \* capture_error, execution_error
  runs,          \* captures so far, the number of this one
  unconfirmed,   \* the waves whose worker was started and not seen to be cleaned up
  whole          \* those that did their work as planned, whatever is said of them

captureVars == <<files, step, family, unit, bad, runs, unconfirmed, whole>>
vars == <<waveVars, captureVars>>

\* The files of the whole of a capture, or of one wave or experiment.
Name(kind, u) == <<<<runs, family, u>>, kind>>
Guard == <<<<Whole, "shared", Whole>>, "guard">>
Has(kind, u) == Name(kind, u) \in files
Sealed == IF family = "four" THEN Whole ELSE unit
Wave == <<runs, family, unit>>

Init ==
  /\ NoWave
  /\ files = {} /\ step = "idle" /\ family = "four" /\ unit = 1 /\ bad = FALSE /\ runs = 0
  /\ unconfirmed = {} /\ whole = {}

(* ------------------------------- blockers ------------------------------- *)

Owners(f, kinds) ==
  {owner \in (1..MaxRuns) \X {f} \X (1..Units) : \E kind \in kinds : <<owner, kind>> \in files}

\* What was started, and has not ended with its cleanup complete.
Pending(f, openings) == Owners(f, openings) # Owners(f, {"closed"})

\* pending_preparation_receipts.  LeftAlone: only the guard blocks.
LeftAlone == FALSE
FourPending == Pending("four", {"started"})

\* The four-wave capture looks at its own kind, a matrix at both.  An
\* experiment is pending from its intent on.
Blocked(f) == Guard \in files \/ FourPending \/ (f = "matrix" /\ Pending("matrix", {"intent", "started"}))

\* And a matrix without its result, which is not the one that runs.
MatrixPending ==
  \E r \in 1..MaxRuns : /\ <<<<r, "matrix", Whole>>, "intent">> \in files
                        /\ <<<<r, "matrix", Whole>>, "result">> \notin files
                        /\ ~(r = runs /\ family = "matrix")

(* ------------------------------- capturing ------------------------------ *)

History == UNCHANGED <<runs, unconfirmed, whole>>
Continues == UNCHANGED <<family, unit, bad>> /\ History
Go(next) == step' = next /\ Continues /\ UNCHANGED waveVars
Fails(next) == step' = next /\ bad' = TRUE /\ UNCHANGED <<files, family, unit, waveVars>> /\ History
NoLongerThere == Fresh("idle", 0, Lead)
Stop == step' = "idle" /\ family' = "four" /\ unit' = 1 /\ bad' = FALSE /\ NoLongerThere /\ History

\* A write succeeds once for a name; it may fail anyway.
Write(kind, u) == ~Has(kind, u) /\ files' = files \union {Name(kind, u)}

\* What a later capture looks at; the seals of an earlier one are not kept in
\* the model beyond its end.
BlockerFiles == {name \in files : name[2] \in {"guard", "intent", "started", "closed", "result"}}

\* The intent of a capture.  What is blocked, too late or not the first of
\* its day leaves no trace.
Begins(f) ==
  /\ step = "idle" /\ runs < MaxRuns /\ ~Blocked(f)
  /\ f = "matrix" => ~MatrixPending
  /\ runs' = runs + 1 /\ family' = f /\ step' = IF f = "four" THEN "start" ELSE "item"
  /\ files' = BlockerFiles \union {<<<<runs', f, Whole>>, "intent">>}
  /\ whole' = {} /\ UNCHANGED <<waveVars, unit, bad, unconfirmed>>

\* The blockers are looked at before every experiment, and its directory.
OpenItem ==
  /\ step = "item"
  /\ \/ ~Blocked("matrix") /\ ~MatrixPending /\ Write("intent", unit) /\ Go("start")
     \/ Fails("result")

\* The start is on disk before the worker starts.  A task that is too late for
\* its target is refused.
Start ==
  /\ step = "start"
  /\ \/ /\ Write("started", unit) /\ step' = "wave" /\ Continues
        /\ \E late \in 0..MaxLate, early \in 0..(IF family = "four" THEN MaxEarly ELSE 0) :
             Begin(late, early)
     \/ Fails(IF family = "four" THEN "evidence" ELSE "result")

\* What a wave should have done, on the wall clock: with one connection, made
\* when it was told, it asked in the time for it, and it is gone.
AsPlanned ==
  /\ child = "over" /\ exitCode = 0 /\ ~attempts
  /\ connected # Never /\ target <= goSent /\ goSent <= connected
  /\ connected <= asked /\ asked < IoBy /\ (family = "four" => asked >= Lead)

\* A wave that is not cleaned up stops everything, as far as the disk allows.
PublishGuard ==
  /\ step = "wave" /\ place = "done"
  /\ whole' = IF AsPlanned THEN whole \union {Wave} ELSE whole
  /\ unconfirmed' = IF clean THEN unconfirmed \ {Wave} ELSE unconfirmed
  /\ UNCHANGED <<family, unit, runs, waveVars>>
  /\ \/ clean /\ step' = "publish" /\ UNCHANGED <<files, bad>>
     \/ ~clean /\ step' = "publish" /\ files' = files \union {Guard} /\ UNCHANGED bad
     \/ ~clean /\ step' = "evidence" /\ bad' = TRUE /\ UNCHANGED files

\* OkIsEnough: the requests are not compared with the wall clock.
OkIsEnough == ok

\* analyse: the requests were made at the target or later, the exit was in time.
Analysed == ok /\ asked >= Lead /\ exited <= IoBy

\* The receipt of the wave says how it was cleaned up.  After it "four"
\* analyses what it has, and publishes in time or not; a matrix seals.
WriteReceiptOfWave == IF clean THEN Write("closed", unit) ELSE UNCHANGED files

PublishFails == step = "publish" /\ Fails("evidence")

PublishExperiment ==
  /\ step = "publish" /\ family = "matrix"
  /\ WriteReceiptOfWave /\ Go("evidence")

PublishWave ==
  /\ step = "publish" /\ family = "four"
  /\ WriteReceiptOfWave /\ UNCHANGED family /\ NoLongerThere /\ History
  /\ \/ /\ Analysed /\ unit < Units
        /\ step' = "start" /\ unit' = unit + 1 /\ UNCHANGED bad
     \/ /\ step' = "evidence" /\ UNCHANGED unit
        /\ bad' \in IF Analysed /\ unit = Units THEN BOOLEAN ELSE {TRUE}

\* What the evidence says of itself.
Captured == ~bad /\ (family = "matrix" => ok /\ exited < IoBy /\ asked # Never)

\* The seal: evidence, receipt, and the witness that the receipt was there in
\* time.  When one cannot be written the capture ends there.
Unsealed == IF family = "four" THEN Stop /\ UNCHANGED files ELSE Fails("result")

WriteEvidence ==
  /\ step = "evidence"
  /\ \/ Write(IF Captured THEN "captured" ELSE "failed", Sealed) /\ Go("receipt")
     \/ Unsealed

WriteReceipt ==
  /\ step = "receipt"
  /\ \/ Write("receipt", Sealed) /\ Go("witness")
     \/ Unsealed

WriteWitness ==
  /\ step = "witness"
  /\ \/ /\ \E inTime \in {"witness", "late"} : Write(inTime, Sealed)
        /\ IF family = "four" THEN Stop ELSE Go("continue")
     \/ Unsealed

\* continuation: success, or a refusal of the parser, sealed and clean.  The
\* preflight may have become too old.
MayContinue ==
  /\ Has("witness", unit) /\ ~bad /\ clean /\ exited < IoBy
  /\ Captured \/ (~timedOut /\ "refused" \in answers /\ asked # Never)

Continue ==
  /\ step = "continue" /\ UNCHANGED <<files, family, bad>> /\ NoLongerThere /\ History
  /\ \/ MayContinue /\ unit < Units /\ unit' = unit + 1 /\ step' = "item"
     \/ step' = "result" /\ UNCHANGED unit

WriteResult ==
  /\ step = "result" /\ Stop
  /\ Write("result", Whole) \/ UNCHANGED files

(* ---------------------------- waves and deaths -------------------------- *)

\* A worker is started, as the capture and its wave say.
Launch ==
  /\ step = "wave" /\ Spawn
  /\ unconfirmed' = IF child' = "suspended" THEN unconfirmed \union {Wave} ELSE unconfirmed
  /\ UNCHANGED <<files, step, family, unit, bad, runs, whole>>

WaveGoesOn(step_of_it) == step = "wave" /\ step_of_it /\ UNCHANGED captureVars
TimePasses == WaveGoesOn(Tick)
WorkerGoesOn == WaveGoesOn(WorkerMoves)
ControllerGoesOn == WaveGoesOn(ControllerMoves)

\* What a capture that dies leaves is on disk.  If a worker runs, it runs in
\* the job, which the system closes with the controller.
Crash ==
  /\ step # "idle" /\ Stop /\ UNCHANGED files

Next ==
  \/ \E f \in Families : Begins(f)
  \/ OpenItem \/ Start \/ Launch \/ TimePasses \/ WorkerGoesOn \/ ControllerGoesOn
  \/ PublishGuard \/ PublishFails \/ PublishExperiment \/ PublishWave
  \/ WriteEvidence \/ WriteReceipt \/ WriteWitness \/ Continue \/ WriteResult \/ Crash

\* Time passes and the controller is scheduled.  Nothing is asked of the worker.
Fairness == WF_vars(TimePasses) /\ WF_vars(Launch \/ ControllerGoesOn)
Spec == Init /\ [][Next]_vars /\ Fairness

(* ------------------------------- properties ----------------------------- *)

\* A worker connects only after a GO that was sent at the target or later to a
\* worker whose READY was checked, whatever its libraries try before.
NetworkOnlyAfterGo ==
  connected # Never => ready /\ given = "go" /\ target <= goSent /\ goSent <= connected

\* What a wave reports of itself is so.  Clean: nothing of it runs, and it did
\* not take more than its phase had.  Ok: and it did what it was told, once, in
\* time, without a forbidden attempt.
VerdictIsTrue ==
  place = "done" =>
    /\ clean => child \in {"none", "over"} /\ now < (IF ready THEN HardBy ELSE PrepHardBy)
    /\ ok => /\ clean /\ exitCode = 0 /\ ~attempts
             /\ goSent <= connected /\ connected <= asked /\ asked < IoBy

\* Evidence of a capture that is sealed in time tells of waves that went as
\* planned on the wall clock: all of a four-wave capture, each of a matrix.
SealedInTime(f, u) ==
  {<<<<runs, f, u>>, kind>> : kind \in {"captured", "receipt", "witness"}} \subseteq files

SealedIsTrue ==
  \A u \in 1..Units :
    /\ SealedInTime("four", Whole) => <<runs, "four", u>> \in whole
    /\ SealedInTime("matrix", u) => <<runs, "matrix", u>> \in whole

\* No worker is started while the end of an earlier one is not confirmed,
\* after crashes, failed writes of the guard and failed cleanups alike.  Only
\* the four-wave capture does not look at the experiments of a matrix.
NoLaunchUnconfirmed ==
  [][\A old \in unconfirmed : unconfirmed' \subseteq unconfirmed \/ (family = "four" /\ old[2] = "matrix")]_vars

\* A wave ends, whatever its worker does.
EveryWaveEnds == Active ~> ~Active
=============================================================================
