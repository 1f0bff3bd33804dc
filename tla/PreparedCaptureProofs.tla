------------------------ MODULE PreparedCaptureProofs ------------------------
(***************************************************************************)
(* Theorems about PreparedCapture: for any deadlines that fit, any number  *)
(* of waves and of captures, and whatever dies or cannot be written.       *)
(***************************************************************************)
EXTENDS PreparedCapture, TLAPS

Times == Nat \union {Never}

Clocks ==
  /\ now \in Nat /\ started \in Nat /\ target \in Nat /\ cleanBy \in Int
  /\ {goSent, connected, asked, exited} \subseteq Times

(* The worker does not run before the controller let it, and has left      *)
(* nothing before that.                                                    *)
WorkerHeld ==
  /\ place \in {"idle", "dispatch", "spawn"} => child = "none"
  /\ place \in {"scope", "resume"} => child = "suspended"
  /\ child \in {"none", "suspended"} =>
       answers = {} /\ exitCode = Never /\ connected = Never /\ asked = Never

BeforeGo == {"idle", "dispatch", "spawn", "scope", "resume", "task", "ready", "ready_check",
             "wait", "go"}

(* GO is stamped once, after READY was checked and at the target or later, *)
(* and what the worker can read follows it.                                *)
GoStamped ==
  /\ place \in {"wait", "go", "send", "exit", "exit_check"} => ready
  /\ place \in {"go", "send", "exit", "exit_check"} => target <= now
  /\ place \in BeforeGo => goSent = Never
  /\ place = "send" => goSent # Never
  /\ goSent # Never => ready /\ target <= goSent /\ goSent <= now
  /\ given = "go" => goSent # Never

(* The worker passes its places in their order, each after GO.             *)
WorkerInOrder ==
  /\ child \in {"go", "released", "connected", "asking"} => given = "go"
  /\ connected # Never => given = "go" /\ goSent <= connected /\ connected <= now
  /\ asked # Never => connected # Never /\ connected <= asked /\ asked <= now
  /\ asked # Never => child \in {"asking", "writing", "over"}
  /\ child = "connected" => connected # Never
  /\ child = "asking" => asked # Never
  /\ "ok" \in answers => child \in {"writing", "over"} /\ ~attempts /\ asked # Never
  /\ exitCode = 0 => child = "over"

(* Without an error the cleanup follows the end of the worker in time, and *)
(* its deadline is within that of the phase.                               *)
EndedInTime ==
  /\ place = "exit_check" => child = "over"
  /\ place \in {"finally", "kill", "close"} /\ ~failed =>
       child = "over" /\ (asked # Never => asked < IoBy)
  /\ place \in {"kill", "close"} => cleanBy <= IF ready THEN HardBy ELSE PrepHardBy

(* What the verdict says, once it is there.                                *)
VerdictKept ==
  /\ place # "done" => ~clean /\ ~ok
  /\ clean => child \in {"none", "over"} /\ now < IF ready THEN HardBy ELSE PrepHardBy
  /\ ok => /\ clean /\ child = "over" /\ exitCode = 0 /\ ~attempts
           /\ asked # Never /\ asked < IoBy

WaveInv ==
  Clocks /\ WorkerHeld /\ GoStamped /\ WorkerInOrder /\ EndedInTime /\ VerdictKept
-----------------------------------------------------------------------------
(* A new task, or none, has no past.                                       *)
LEMMA FreshWave ==
  ASSUME NEW p \in {"idle", "dispatch"}, NEW t \in Nat, NEW x \in Nat, Fresh(p, t, x)
  PROVE  WaveInv'
BY WaveAssumption
DEF Fresh, WaveInv, Clocks, WorkerHeld, GoStamped, BeforeGo, WorkerInOrder, EndedInTime,
    VerdictKept, Times

(* Time passes, as long as the wave is not judged.                         *)
LEMMA TimeKeepsWave == ASSUME WaveInv, Tick PROVE WaveInv'
BY WaveAssumption
DEF Tick, Active, controls, objects, worker, verdict, WaveInv, Clocks, WorkerHeld, GoStamped,
    BeforeGo, WorkerInOrder, EndedInTime, VerdictKept, Times, IoBy, HardBy, PrepHardBy, Least

(* The worker moves; connected and ok are what GO made possible.           *)
LEMMA WorkerKeepsWave == ASSUME WaveInv, WorkerMoves PROVE WaveInv'
<1> USE WaveAssumption
    DEF WorkerStep, controls, objects, worker, verdict, WaveInv, Clocks, WorkerHeld, GoStamped,
        BeforeGo, WorkerInOrder, EndedInTime, VerdictKept, Times, IoBy, HardBy, PrepHardBy, Least,
        Running
<1>1. CASE ReadTask
  BY <1>1 DEF ReadTask
<1>2. CASE Attempt
  BY <1>2 DEF Attempt
<1>3. CASE EmitReady
  BY <1>3 DEF EmitReady
<1>4. CASE ReadGo
  BY <1>4 DEF ReadGo
<1>5. CASE Release
  <2>1. Clocks' /\ WorkerHeld' /\ GoStamped'
    BY <1>5 DEF Release
  <2>2. WorkerInOrder'
    BY <1>5 DEF Release
  <2>3. EndedInTime' /\ VerdictKept'
    BY <1>5 DEF Release
  <2> QED
    BY ONLY <2>1, <2>2, <2>3 DEF WaveInv
<1>6. CASE Connect
  <2>1. Clocks' /\ WorkerHeld' /\ GoStamped'
    BY <1>6 DEF Connect
  <2>2. WorkerInOrder'
    BY <1>6 DEF Connect
  <2>3. EndedInTime'
    BY <1>6 DEF Connect
  <2>4. VerdictKept'
    BY <1>6 DEF Connect
  <2> QED
    BY ONLY <2>1, <2>2, <2>3, <2>4 DEF WaveInv
<1>7. CASE Ask
  BY <1>7 DEF Ask
<1>8. CASE Capture
  BY <1>8 DEF Capture
<1>9. CASE Refuse
  BY <1>9 DEF Refuse
<1>10. CASE Leave
  BY <1>10 DEF Leave
<1> QED
  BY <1>1, <1>2, <1>3, <1>4, <1>5, <1>6, <1>7, <1>8, <1>9, <1>10 DEF WorkerMoves

(* The worker is created, or not.                                          *)
LEMMA SpawnKeepsWave == ASSUME WaveInv, Spawn PROVE WaveInv'
BY WaveAssumption
DEF Spawn, Goto, Error, Own, controls, objects, worker, verdict, WaveInv, Clocks, WorkerHeld,
    GoStamped, BeforeGo, WorkerInOrder, EndedInTime, VerdictKept, Times, IoBy, HardBy, PrepHardBy,
    Least, Running

(* The controller moves: its looks at the clock are the order of GO.       *)
LEMMA ControllerKeepsWave == ASSUME WaveInv, ControllerMoves PROVE WaveInv'
<1> USE WaveAssumption
    DEF Goto, Error, TimeOut, Own, Quiet, controls, objects, worker, verdict, WaveInv, Clocks,
        WorkerHeld, GoStamped, BeforeGo, WorkerInOrder, EndedInTime, VerdictKept, Times, IoBy,
        HardBy, PrepHardBy, Least, Running
<1>1. CASE Dispatch
  BY <1>1 DEF Dispatch
<1>2. CASE Scope
  BY <1>2 DEF Scope
<1>3. CASE Resume
  BY <1>3 DEF Resume
<1>4. CASE WriteTask
  BY <1>4 DEF WriteTask
<1>5. CASE AwaitReady
  BY <1>5 DEF AwaitReady
<1>6. CASE CheckReady
  BY <1>6 DEF CheckReady
<1>7. CASE AwaitTarget
  BY <1>7 DEF AwaitTarget
<1>8. CASE StampGo
  BY <1>8 DEF StampGo
<1>9. CASE SendGo
  BY <1>9 DEF SendGo
<1>10. CASE AwaitExit
  BY <1>10 DEF AwaitExit
<1>11. CASE CheckExit
  BY <1>11 DEF CheckExit
<1>12. CASE Finally
  BY <1>12 DEF Finally
<1>13. CASE Kill
  <2>1. Clocks' /\ WorkerHeld' /\ GoStamped'
    BY <1>13 DEF Kill, EndChild
  <2>2. WorkerInOrder'
    BY <1>13 DEF Kill, EndChild
  <2>3. EndedInTime'
    BY <1>13 DEF Kill, EndChild
  <2>4. VerdictKept'
    BY <1>13 DEF Kill, EndChild
  <2> QED
    BY ONLY <2>1, <2>2, <2>3, <2>4 DEF WaveInv
<1>14. CASE Close
  <2>1. Clocks' /\ WorkerHeld' /\ GoStamped'
    BY <1>14 DEF Close, EndChild
  <2>2. WorkerInOrder'
    BY <1>14 DEF Close, EndChild
  <2>3. EndedInTime'
    BY <1>14 DEF Close, EndChild
  <2>4. VerdictKept'
    <3>1. place' = "done" /\ UNCHANGED <<now, started, target, ready, asked, attempts>>
      BY <1>14 DEF Close
    <3>2. clean' => now < cleanBy /\ child \in {"none", "over"}
      <4>1. clean' => now < cleanBy
        BY ONLY <1>14, Zenon DEF Close
      <4>2. child \in {"none", "over"} \/ now >= cleanBy
        BY ONLY <1>14 DEF Close
      <4>3. now \in Int /\ cleanBy \in Int
        OBVIOUS
      <4> QED
        BY ONLY <4>1, <4>2, <4>3
    <3>3. ok' => ~failed /\ clean' /\ exitCode = 0 /\ "ok" \in answers
      BY <1>14 DEF Close
    <3>4. child' = "over" \/ child' = child
      BY <1>14 DEF Close, EndChild
    <3>5. child = "over" => child' = "over" /\ exitCode' = exitCode
      BY <1>14 DEF Close, EndChild
    <3>6. clean' => now < IF ready THEN HardBy ELSE PrepHardBy
      BY <1>14, <3>2 DEF Close
    <3>7. ok' => child = "over" /\ ~attempts /\ asked # Never /\ asked < IoBy
      BY <1>14, <3>3 DEF Close
    <3> QED
      BY <3>1, <3>2, <3>3, <3>4, <3>5, <3>6, <3>7
  <2> QED
    BY ONLY <2>1, <2>2, <2>3, <2>4 DEF WaveInv
<1> QED
  BY <1>1, <1>2, <1>3, <1>4, <1>5, <1>6, <1>7, <1>8, <1>9, <1>10, <1>11, <1>12, <1>13, <1>14
     DEF ControllerMoves

(* Nothing of the wave moves.                                              *)
LEMMA StillWave == ASSUME WaveInv, UNCHANGED waveVars PROVE WaveInv'
BY DEF waveVars, controls, objects, worker, verdict, WaveInv, Clocks, WorkerHeld, GoStamped,
       WorkerInOrder, EndedInTime, VerdictKept, IoBy, HardBy, PrepHardBy, Least

(* A step of a capture is a step of its wave, or begins or ends it, or     *)
(* leaves it alone.                                                        *)
LEMMA StepOfWave ==
  ASSUME [Next]_vars
  PROVE  \/ UNCHANGED waveVars \/ Tick \/ WorkerMoves \/ Spawn \/ ControllerMoves
         \/ \E p \in {"idle", "dispatch"}, t \in Nat, x \in Nat : Fresh(p, t, x)
<1> DEFINE Renewed == \E p \in {"idle", "dispatch"}, t \in Nat, x \in Nat : Fresh(p, t, x)
<1>1. NoLongerThere => Renewed
  BY WaveAssumption DEF NoLongerThere
<1>2. ASSUME NEW late \in 0..MaxLate, NEW early \in 0..MaxEarly, Begin(late, early) PROVE Renewed
  BY <1>2, WaveAssumption, CaptureAssumption, late \in Nat, Lead - early \in Nat DEF Begin
<1>3. ASSUME Start PROVE Renewed \/ UNCHANGED waveVars
  BY <1>2, <1>3, CaptureAssumption DEF Start, Fails
<1> HIDE DEF Renewed
<1>4. Stop => Renewed
  BY <1>1 DEF Stop
<1>5. CASE UNCHANGED vars
  BY <1>5 DEF vars
<1>6. CASE TimePasses \/ WorkerGoesOn \/ ControllerGoesOn \/ Launch
  BY <1>6 DEF TimePasses, WorkerGoesOn, ControllerGoesOn, WaveGoesOn, Launch
<1>7. CASE (\E f \in Families : Begins(f)) \/ OpenItem \/ PublishGuard \/ PublishFails \/ PublishExperiment
  BY <1>7 DEF Begins, OpenItem, PublishGuard, PublishFails, PublishExperiment, Go, Fails
<1>8. ASSUME PublishWave PROVE Renewed \/ UNCHANGED waveVars
  BY <1>1, <1>8 DEF PublishWave
<1>9. ASSUME Continue PROVE Renewed \/ UNCHANGED waveVars
  BY <1>1, <1>9 DEF Continue
<1>10. ASSUME Crash \/ WriteResult PROVE Renewed \/ UNCHANGED waveVars
  BY <1>4, <1>10 DEF Crash, WriteResult
<1>11. Unsealed => Renewed \/ UNCHANGED waveVars
  BY <1>4 DEF Unsealed, Fails
<1>12. ASSUME WriteEvidence PROVE Renewed \/ UNCHANGED waveVars
  BY <1>11, <1>12 DEF WriteEvidence, Go
<1>13. ASSUME WriteReceipt PROVE Renewed \/ UNCHANGED waveVars
  BY <1>11, <1>13 DEF WriteReceipt, Go
<1>14. ASSUME WriteWitness PROVE Renewed \/ UNCHANGED waveVars
  BY <1>4, <1>11, <1>14 DEF WriteWitness, Go
<1> QED
  BY <1>3, <1>5, <1>6, <1>7, <1>8, <1>9, <1>10, <1>12, <1>13, <1>14 DEF Next, Renewed

(* A capture only does to its waves what waves do.                         *)
LEMMA CaptureKeepsWave == ASSUME WaveInv, [Next]_vars PROVE WaveInv'
BY StepOfWave, StillWave, FreshWave, TimeKeepsWave, WorkerKeepsWave, SpawnKeepsWave,
   ControllerKeepsWave

(* What holds of a wave does so for all deadlines that fit.                *)
THEOREM WaveInvariance == Spec => []WaveInv
<1>1. Init => WaveInv
  BY WaveAssumption
  DEF Init, NoWave, WaveInv, Clocks, WorkerHeld, GoStamped, BeforeGo, WorkerInOrder, EndedInTime,
      VerdictKept, Times
<1>2. WaveInv /\ [Next]_vars => WaveInv'
  BY CaptureKeepsWave
<1> QED
  BY <1>1, <1>2, PTL DEF Spec

(* A worker connects only after GO, whatever it tries and when it dies.    *)
THEOREM NetworkAfterGo == Spec => []NetworkOnlyAfterGo
<1>1. WaveInv => NetworkOnlyAfterGo
  BY WaveAssumption DEF WaveInv, GoStamped, WorkerInOrder, NetworkOnlyAfterGo
<1> QED
  BY <1>1, WaveInvariance, PTL

(* A wave that is reported clean or ok is, at any pace of its processes.   *)
THEOREM VerdictsAreTrue == Spec => []VerdictIsTrue
<1>1. WaveInv => VerdictIsTrue
  BY DEF WaveInv, WorkerInOrder, GoStamped, VerdictKept, VerdictIsTrue
<1> QED
  BY <1>1, WaveInvariance, PTL
-----------------------------------------------------------------------------
(* What is on disk of the starts and ends of waves.                        *)
Waves == (1..MaxRuns) \X Families \X (1..Units)
Opened == {w \in Waves : <<w, "started">> \in files}
Confirmed == {w \in Waves : <<w, "closed">> \in files}

Steps == {"idle", "item", "start", "wave", "publish", "evidence", "receipt", "witness",
          "continue", "result"}

CaptureTyped ==
  /\ family \in Families /\ unit \in 1..Units /\ runs \in 0..MaxRuns
  /\ step # "idle" => runs > 0
  /\ unconfirmed \subseteq Waves

(* A wave goes on only while the capture waits for it.                     *)
WaveWaitedFor ==
  /\ step \in {"idle", "item", "start"} => place = "idle"
  /\ step = "wave" => place # "idle"
  /\ step = "publish" => place = "done"

(* The start of a wave is on disk before its worker starts, and its end    *)
(* only when the end was seen.                                             *)
StartsOnDisk ==
  /\ Confirmed \subseteq Opened
  /\ unconfirmed \subseteq Opened \ Confirmed
  /\ step \in {"wave", "publish"} => Wave \in Opened \ Confirmed

(* What else is unconfirmed is what the capture does not look at.          *)
OthersConfirmed ==
  /\ step \in {"start", "wave", "publish"} =>
       \A w \in unconfirmed : w = Wave \/ (family = "four" /\ w[2] = "matrix")
  /\ step = "wave" /\ place \in {"dispatch", "spawn"} => Wave \notin unconfirmed
  /\ step = "publish" /\ clean => Wave \notin unconfirmed

ConfirmInv == CaptureTyped /\ WaveWaitedFor /\ StartsOnDisk /\ OthersConfirmed

DiskQuiet == Opened' = Opened /\ Confirmed' = Confirmed

(* Of all writes only those of a start and an end change what is open.     *)
LEMMA WritesQuietly ==
  ASSUME NEW kind, kind \notin {"started", "closed"}, NEW u, Write(kind, u) PROVE DiskQuiet
BY DEF Write, Name, DiskQuiet, Opened, Confirmed

(* Without a write everything on disk is as it was.                        *)
LEMMA StaysQuiet == ASSUME UNCHANGED files PROVE DiskQuiet
BY DEF DiskQuiet, Opened, Confirmed

(* Starts and ends are only written where a wave starts and is published.  *)
LEMMA DiskSteps ==
  ASSUME [Next]_vars
  PROVE  \/ DiskQuiet
         \/ step = "start" /\ Start
         \/ step = "publish" /\ (PublishExperiment \/ PublishWave)
<1>1. CASE UNCHANGED vars \/ TimePasses \/ WorkerGoesOn \/ ControllerGoesOn \/ Launch \/ Crash
  BY <1>1, StaysQuiet
  DEF vars, captureVars, TimePasses, WorkerGoesOn, ControllerGoesOn, WaveGoesOn, Launch, Crash
<1>2. ASSUME NEW f \in Families, Begins(f) PROVE DiskQuiet
  BY <1>2 DEF Begins, BlockerFiles, DiskQuiet, Opened, Confirmed
<1>3. CASE OpenItem
  BY <1>3, StaysQuiet, WritesQuietly DEF OpenItem, Fails
<1>4. CASE PublishGuard
  BY <1>4 DEF PublishGuard, Guard, DiskQuiet, Opened, Confirmed
<1>5. CASE PublishFails \/ Continue
  BY <1>5, StaysQuiet DEF PublishFails, Fails, Continue
<1>6. Unsealed => DiskQuiet
  BY StaysQuiet DEF Unsealed, Fails
<1>7. CASE WriteEvidence
  BY <1>6, <1>7, WritesQuietly DEF WriteEvidence
<1>8. CASE WriteReceipt
  BY <1>6, <1>8, WritesQuietly DEF WriteReceipt
<1>9. CASE WriteWitness
  BY <1>6, <1>9, WritesQuietly DEF WriteWitness
<1>10. CASE WriteResult
  BY <1>10, StaysQuiet, WritesQuietly DEF WriteResult
<1>11. /\ Start => step = "start"
       /\ PublishExperiment \/ PublishWave => step = "publish"
  BY DEF Start, PublishExperiment, PublishWave
<1> QED
  BY <1>1, <1>2, <1>3, <1>4, <1>5, <1>7, <1>8, <1>9, <1>10, <1>11 DEF Next

(* A wave that goes on does not come back to an earlier place.             *)
LEMMA WaveGoesForward ==
  ASSUME Tick \/ WorkerMoves \/ ControllerMoves, place # "idle"
  PROVE  /\ place' # "idle"
         /\ place' \in {"dispatch", "spawn"} => place \in {"dispatch", "spawn"}
<1>1. CASE Tick \/ WorkerMoves
  BY <1>1
  DEF Tick, WorkerMoves, WorkerStep, ReadTask, Attempt, EmitReady, ReadGo, Release, Connect, Ask,
      Capture, Refuse, Leave
<1>2. CASE ControllerMoves
  BY <1>2
  DEF ControllerMoves, Dispatch, Scope, Resume, WriteTask, AwaitReady, CheckReady, AwaitTarget,
      StampGo, SendGo, AwaitExit, CheckExit, Finally, Kill, Close, Goto, Error, TimeOut
<1> QED
  BY <1>1, <1>2

(* What the blockers say of unconfirmed waves.                             *)
LEMMA BlockersTell ==
  ASSUME ConfirmInv, NEW f \in Families, ~Blocked(f)
  PROVE  \A w \in unconfirmed : f = "four" /\ w[2] = "matrix"
<1> SUFFICES ASSUME NEW w \in unconfirmed PROVE f = "four" /\ w[2] = "matrix"
  OBVIOUS
<1>1. w \in Waves /\ <<w, "started">> \in files /\ <<w, "closed">> \notin files
  BY DEF ConfirmInv, CaptureTyped, StartsOnDisk, Opened, Confirmed
<1>2. ASSUME NEW openings, "started" \in openings PROVE Pending(w[2], openings)
  <2>1. w \in Owners(w[2], openings)
    BY <1>1, <1>2 DEF Owners, Waves, Families
  <2>2. w \notin Owners(w[2], {"closed"})
    BY <1>1 DEF Owners
  <2> QED
    BY <2>1, <2>2 DEF Pending
<1>3. w[2] # "four"
  BY <1>2 DEF Blocked, FourPending
<1>4. w[2] = "matrix" => f # "matrix"
  BY <1>2 DEF Blocked
<1> QED
  BY <1>1, <1>3, <1>4 DEF Waves, Families

(* A capture that stops leaves everything as its disk tells it.            *)
LEMMA StopConfirms == ASSUME ConfirmInv, Stop, DiskQuiet PROVE ConfirmInv'
BY CaptureAssumption
DEF ConfirmInv, CaptureTyped, WaveWaitedFor, StartsOnDisk, OthersConfirmed, Stop, NoLongerThere,
    Fresh, History, DiskQuiet, Families, Waves

(* So does one that goes on from a wave that ended, or without one.        *)
LEMMA GoingOnConfirms ==
  ASSUME ConfirmInv, DiskQuiet, History, UNCHANGED <<family, unit, place>>,
         step # "idle", step' \in Steps \ {"idle", "item", "start", "wave", "publish"}
  PROVE  ConfirmInv'
BY DEF ConfirmInv, CaptureTyped, WaveWaitedFor, StartsOnDisk, OthersConfirmed, DiskQuiet, Waves,
       History

(* The steps of a capture keep it: what is started or continued is only    *)
(* what the blockers let through or what followed a confirmed wave.        *)
LEMMA ConfirmKeeps == ASSUME WaveInv, ConfirmInv, [Next]_vars PROVE ConfirmInv'
<1> USE CaptureAssumption
    DEF ConfirmInv, CaptureTyped, WaveWaitedFor, StartsOnDisk, OthersConfirmed, Waves, Families
<1>1. ASSUME NEW f \in Families, Begins(f) PROVE ConfirmInv'
  <2>1. DiskQuiet
    BY <1>1, DiskSteps DEF Next, Begins
  <2>2. \A w \in unconfirmed : f = "four" /\ w[2] = "matrix"
    BY <1>1, BlockersTell DEF Begins
  <2> QED
    BY <1>1, <2>1, <2>2 DEF Begins, DiskQuiet, waveVars
<1>2. CASE OpenItem
  <2>1. CASE Fails("result")
    BY <1>2, <2>1, StaysQuiet, GoingOnConfirms DEF Fails, waveVars, Steps, OpenItem
  <2>2. CASE ~Blocked("matrix") /\ Write("intent", unit) /\ Go("start")
    <3>1. DiskQuiet
      BY <2>2, WritesQuietly
    <3>2. unconfirmed = {} \/ \A w \in unconfirmed : FALSE
      BY <2>2, BlockersTell
    <3> QED
      BY <1>2, <2>2, <3>1, <3>2 DEF OpenItem, Go, Continues, History, waveVars, DiskQuiet
  <2> QED
    BY <1>2, <2>1, <2>2 DEF OpenItem
<1>3. CASE Start
  <2>1. CASE Fails(IF family = "four" THEN "evidence" ELSE "result")
    BY <1>3, <2>1, StaysQuiet, GoingOnConfirms DEF Fails, waveVars, Steps, Start
  <2>2. CASE /\ Write("started", unit) /\ step' = "wave" /\ Continues /\ place' = "dispatch"
    <3>1. Wave \notin Opened /\ Wave \in Waves
      BY <1>3, <2>2 DEF Write, Has, Name, Wave, Opened, Start
    <3>2. Opened' = Opened \union {Wave} /\ Confirmed' = Confirmed
      BY <2>2, <3>1 DEF Write, Name, Wave, Opened, Confirmed
    <3>3. Wave' = Wave
      BY <2>2 DEF Continues, History, Wave
    <3> QED
      BY <1>3, <2>2, <3>1, <3>2, <3>3 DEF Start, Continues, History
  <2> QED
    BY <1>3, <2>1, <2>2 DEF Start, Begin, Fresh
<1>4. CASE Launch
  <2>1. place = "spawn" /\ place' \in {"scope", "finally"}
    BY <1>4 DEF Launch, Spawn, Goto, Error
  <2>2. DiskQuiet
    BY <1>4, StaysQuiet DEF Launch
  <2>3. Wave' = Wave /\ Wave \in Waves
    BY <1>4 DEF Launch, Wave
  <2> QED
    BY <1>4, <2>1, <2>2, <2>3 DEF Launch, DiskQuiet
<1>5. CASE TimePasses \/ WorkerGoesOn \/ ControllerGoesOn
  <2>1. step = "wave" /\ UNCHANGED captureVars /\ (Tick \/ WorkerMoves \/ ControllerMoves)
    BY <1>5 DEF TimePasses, WorkerGoesOn, ControllerGoesOn, WaveGoesOn
  <2>2. DiskQuiet /\ Wave' = Wave
    BY <2>1, StaysQuiet DEF captureVars, Wave
  <2> QED
    BY <2>1, <2>2, WaveGoesForward DEF captureVars, DiskQuiet
<1>6. CASE PublishGuard
  <2>1. DiskQuiet /\ Wave' = Wave
    BY <1>6, DiskSteps DEF PublishGuard, Next, Wave
  <2> QED
    BY <1>6, <2>1 DEF PublishGuard, DiskQuiet, waveVars, verdict
<1>7. CASE PublishFails
  BY <1>7, StaysQuiet, GoingOnConfirms DEF PublishFails, Fails, waveVars, Steps
<1>8. ASSUME Unsealed, step \notin {"idle"} PROVE ConfirmInv'
  BY <1>8, StaysQuiet, StopConfirms, GoingOnConfirms DEF Unsealed, Fails, waveVars, Steps
<1>9. ASSUME NEW kind, kind \notin {"started", "closed"}, NEW u, NEW next, Write(kind, u), Go(next),
             next \in {"receipt", "witness", "continue"}, step # "idle"
      PROVE  ConfirmInv'
  BY <1>9, WritesQuietly, GoingOnConfirms DEF Go, Continues, waveVars, Steps
<1>10. CASE WriteEvidence
  BY <1>8, <1>9, <1>10 DEF WriteEvidence
<1>11. CASE WriteReceipt
  BY <1>8, <1>9, <1>11 DEF WriteReceipt
<1>12. CASE WriteWitness
  <2>1. PICK inTime \in {"witness", "late"} :
           \/ Write(inTime, Sealed) /\ (Stop \/ Go("continue"))
           \/ Unsealed
    BY <1>12 DEF WriteWitness
  <2>2. step # "idle"
    BY <1>12 DEF WriteWitness
  <2> QED
    BY <1>8, <1>9, <2>1, <2>2, WritesQuietly, StopConfirms
<1>13. CASE WriteResult
  BY <1>13, StaysQuiet, WritesQuietly, StopConfirms DEF WriteResult
<1>14. CASE Crash
  BY <1>14, StaysQuiet, StopConfirms DEF Crash
<1>15. ASSUME WriteReceiptOfWave, step = "publish"
       PROVE  /\ Opened' = Opened /\ Wave \in Opened
              /\ Confirmed' = Confirmed \union IF clean THEN {Wave} ELSE {}
              /\ clean => Wave \notin unconfirmed
  BY <1>15 DEF WriteReceiptOfWave, Write, Name, Opened, Confirmed, Wave
<1>16. CASE PublishExperiment
  BY <1>15, <1>16 DEF PublishExperiment, Go, Continues, History
<1>17. CASE PublishWave
  <2>1. step = "publish" /\ WriteReceiptOfWave /\ family' = family /\ NoLongerThere /\ History
    BY <1>17 DEF PublishWave
  <2>2. \/ ok /\ unit < Units /\ step' = "start" /\ unit' = unit + 1
        \/ step' = "evidence" /\ unit' = unit
    BY <1>17 DEF PublishWave, Analysed
  <2>3. ok => clean
    BY DEF WaveInv, VerdictKept
  <2>4. place' = "idle"
    BY <2>1 DEF NoLongerThere, Fresh
  <2> QED
    BY <1>15, <2>1, <2>2, <2>3, <2>4 DEF History
<1>18. CASE Continue
  <2>1. DiskQuiet /\ History /\ place' = "idle" /\ family' = family
    BY <1>18, StaysQuiet DEF Continue, NoLongerThere, Fresh
  <2>2. \/ unit < Units /\ unit' = unit + 1 /\ step' = "item"
        \/ step' = "result" /\ unit' = unit
    BY <1>18 DEF Continue
  <2>3. step # "idle"
    BY <1>18 DEF Continue
  <2> QED
    BY <2>1, <2>2, <2>3 DEF History, DiskQuiet
<1>19. CASE UNCHANGED vars
  BY <1>19, StaysQuiet DEF vars, captureVars, waveVars, verdict, DiskQuiet, Wave
<1> QED
  BY <1>1, <1>2, <1>3, <1>4, <1>5, <1>6, <1>7, <1>10, <1>11, <1>12, <1>13, <1>14, <1>16, <1>17,
     <1>18, <1>19
  DEF Next

(* Both invariants together are those of the specification.                *)
THEOREM ConfirmInvariance == Spec => [](WaveInv /\ ConfirmInv)
<1>1. Init => WaveInv
  BY WaveAssumption
  DEF Init, NoWave, WaveInv, Clocks, WorkerHeld, GoStamped, BeforeGo, WorkerInOrder, EndedInTime,
      VerdictKept, Times
<1>2. Init => ConfirmInv
  BY CaptureAssumption
  DEF Init, NoWave, ConfirmInv, CaptureTyped, WaveWaitedFor, StartsOnDisk, OthersConfirmed, Opened,
      Confirmed, Families
<1>3. WaveInv /\ ConfirmInv /\ [Next]_vars => (WaveInv /\ ConfirmInv)'
  BY CaptureKeepsWave, ConfirmKeeps
<1> QED
  BY <1>1, <1>2, <1>3, PTL DEF Spec

(* Only a worker that starts becomes unconfirmed.                          *)
LEMMA OnlyLaunchOpens == ASSUME [Next]_vars PROVE Launch \/ unconfirmed' \subseteq unconfirmed
<1>1. Unsealed => UNCHANGED unconfirmed
  BY DEF Unsealed, Stop, Fails, History
<1>2. CASE WriteEvidence \/ WriteReceipt \/ WriteWitness
  BY <1>1, <1>2 DEF WriteEvidence, WriteReceipt, WriteWitness, Stop, Go, Continues, History
<1>3. CASE (\E f \in Families : Begins(f)) \/ OpenItem \/ Start
  BY <1>3 DEF Begins, OpenItem, Start, Fails, Go, Continues, History
<1>4. CASE TimePasses \/ WorkerGoesOn \/ ControllerGoesOn \/ UNCHANGED vars
  BY <1>4 DEF TimePasses, WorkerGoesOn, ControllerGoesOn, WaveGoesOn, vars, captureVars
<1>5. CASE PublishGuard \/ PublishFails \/ PublishExperiment \/ PublishWave
  BY <1>5 DEF PublishGuard, PublishFails, PublishExperiment, PublishWave, Fails, Go, Continues, History
<1>6. CASE Continue \/ WriteResult \/ Crash
  BY <1>6 DEF Continue, WriteResult, Crash, Stop, History
<1> QED
  BY <1>2, <1>3, <1>4, <1>5, <1>6 DEF Next

(* However captures die, fail to write and fail to clean up, for any       *)
(* number of them and of their waves: no worker is started while the end   *)
(* of an earlier one is not confirmed, but one of a four-wave capture with *)
(* an unconfirmed experiment of a matrix.                                  *)
THEOREM LaunchesAreConfirmed == Spec => NoLaunchUnconfirmed
<1>1. ASSUME ConfirmInv, [Next]_vars
      PROVE  \A old \in unconfirmed : \/ unconfirmed' \subseteq unconfirmed
                                      \/ family = "four" /\ old[2] = "matrix"
  <2> SUFFICES ASSUME Launch
               PROVE  \A old \in unconfirmed : family = "four" /\ old[2] = "matrix"
    BY <1>1, OnlyLaunchOpens
  <2>1. step = "wave" /\ place = "spawn"
    BY DEF Launch, Spawn
  <2> QED
    BY <1>1, <2>1 DEF ConfirmInv, OthersConfirmed
<1>2. ConfirmInv /\ [Next]_vars =>
        [\A old \in unconfirmed :
           unconfirmed' \subseteq unconfirmed \/ (family = "four" /\ old[2] = "matrix")]_vars
  BY <1>1
<1> QED
  BY <1>2, ConfirmInvariance, PTL DEF Spec, NoLaunchUnconfirmed
-----------------------------------------------------------------------------
(* The waves of the capture that runs whose evidence says "captured".      *)
CapturedFour == <<<<runs, "four", Whole>>, "captured">> \in files
CapturedMatrix == {u \in 1..Units : <<<<runs, "matrix", u>>, "captured">> \in files}
AllWhole == \A u \in 1..Units : <<runs, "four", u>> \in whole

(* Evidence is only written of waves that went as planned: of all waves of *)
(* a four-wave capture, which goes on from one to the next only when it    *)
(* did, and of the experiment of a matrix that was just published.         *)
EvidenceEarned ==
  /\ step = "idle" => unit = 1
  /\ step \in {"item", "continue"} => family = "matrix"
  /\ step \in {"start", "wave", "publish"} /\ family = "four" =>
       \A u \in 1..(unit - 1) : <<runs, "four", u>> \in whole
  /\ step = "publish" /\ AsPlanned => Wave \in whole
  /\ step = "evidence" /\ ~bad /\ family = "four" => AllWhole
  /\ step = "evidence" /\ ~bad /\ family = "matrix" /\ AsPlanned => Wave \in whole
  /\ CapturedFour => AllWhole
  /\ \A u \in CapturedMatrix : <<runs, "matrix", u>> \in whole

EvidenceQuiet == (CapturedFour' <=> CapturedFour) /\ CapturedMatrix' = CapturedMatrix

(* Only "captured" says that something was captured.                       *)
LEMMA OtherEvidence ==
  ASSUME NEW kind, kind # "captured", NEW u, Write(kind, u), UNCHANGED runs PROVE EvidenceQuiet
BY DEF Write, Name, EvidenceQuiet, CapturedFour, CapturedMatrix

(* Without a write the evidence says what it said.                         *)
LEMMA SameEvidence == ASSUME UNCHANGED <<files, runs>> PROVE EvidenceQuiet
BY DEF EvidenceQuiet, CapturedFour, CapturedMatrix

(* A wave that is reported as ok, and analysed in a four-wave capture, is  *)
(* one that went as planned.                                               *)
LEMMA OkAsPlanned ==
  ASSUME WaveInv, ok, family = "four" => asked >= Lead PROVE AsPlanned
BY WaveAssumption DEF WaveInv, GoStamped, WorkerInOrder, VerdictKept, AsPlanned

(* A step that leaves evidence, results and place of a capture alone, or   *)
(* takes it where nothing is asked of the waves.                           *)
LEMMA EvidenceStays ==
  ASSUME EvidenceEarned, EvidenceQuiet, History, UNCHANGED family,
         step' \in {"item", "receipt", "witness", "continue", "result"},
         step' \in {"item", "continue"} => family = "matrix"
  PROVE  EvidenceEarned'
BY DEF EvidenceEarned, EvidenceQuiet, History, AllWhole

(* Every step earns the evidence it writes.                                *)
LEMMA EvidenceKeeps ==
  ASSUME WaveInv, ConfirmInv, EvidenceEarned, [Next]_vars PROVE EvidenceEarned'
<1> USE DEF EvidenceEarned, AllWhole
<1>1. ASSUME NEW f \in Families, Begins(f) PROVE EvidenceEarned'
  <2>1. ~CapturedFour' /\ CapturedMatrix' = {}
    BY <1>1 DEF Begins, BlockerFiles, CapturedFour, CapturedMatrix
  <2>2. /\ step = "idle" /\ unit' = unit /\ family' = f
        /\ step' = IF f = "four" THEN "start" ELSE "item"
    BY <1>1 DEF Begins
  <2> QED
    BY <2>1, <2>2 DEF Families
<1>2. ASSUME NEW next \in {"evidence", "result"}, Fails(next) PROVE EvidenceEarned'
  BY <1>2, SameEvidence DEF Fails, History, EvidenceQuiet
<1>3. ASSUME Stop, EvidenceQuiet PROVE EvidenceEarned'
  BY <1>3 DEF Stop, History, EvidenceQuiet
<1>4. Unsealed => EvidenceEarned'
  BY <1>2, <1>3, SameEvidence DEF Unsealed, Stop, History
<1>5. CASE OpenItem
  <2>1. CASE Write("intent", unit) /\ Go("start")
    BY <1>5, <2>1, OtherEvidence DEF OpenItem, Go, Continues, History, EvidenceQuiet
  <2> QED
    BY <1>2, <1>5, <2>1 DEF OpenItem
<1>6. CASE Start
  <2>1. CASE Write("started", unit) /\ step' = "wave" /\ Continues
    BY <1>6, <2>1, OtherEvidence DEF Start, Continues, History, EvidenceQuiet
  <2> QED
    BY <1>2, <1>6, <2>1 DEF Start
<1>7. CASE TimePasses \/ WorkerGoesOn \/ ControllerGoesOn \/ Launch
  <2>1. step = "wave" /\ UNCHANGED <<files, step, family, unit, bad, runs, whole>>
    BY <1>7 DEF TimePasses, WorkerGoesOn, ControllerGoesOn, WaveGoesOn, Launch, captureVars
  <2> QED
    BY <2>1, SameEvidence DEF EvidenceQuiet
<1>8. CASE PublishGuard
  <2>1. UNCHANGED <<family, unit, runs, waveVars>> /\ (AsPlanned' <=> AsPlanned) /\ Wave' = Wave
    BY <1>8 DEF PublishGuard, waveVars, controls, worker, AsPlanned, IoBy, Wave
  <2>2. EvidenceQuiet
    BY <1>8 DEF PublishGuard, Guard, EvidenceQuiet, CapturedFour, CapturedMatrix
  <2>3. whole \subseteq whole' /\ (AsPlanned => Wave \in whole')
    BY <1>8 DEF PublishGuard
  <2>4. step = "wave" /\ (step' = "publish" \/ (step' = "evidence" /\ bad'))
    BY <1>8 DEF PublishGuard
  <2> QED
    BY <2>1, <2>2, <2>3, <2>4 DEF EvidenceQuiet
<1>9. CASE PublishFails
  BY <1>2, <1>9 DEF PublishFails
<1>10. WriteReceiptOfWave /\ UNCHANGED runs => EvidenceQuiet
  BY OtherEvidence, SameEvidence DEF WriteReceiptOfWave
<1>11. CASE PublishExperiment
  <2>1. UNCHANGED <<family, unit, runs, whole, waveVars>> /\ (AsPlanned' <=> AsPlanned) /\ Wave' = Wave
    BY <1>11 DEF PublishExperiment, Go, Continues, History, waveVars, controls, worker, AsPlanned,
       IoBy, Wave
  <2>2. step = "publish" /\ step' = "evidence" /\ family = "matrix" /\ WriteReceiptOfWave
    BY <1>11 DEF PublishExperiment, Go
  <2> QED
    BY <1>10, <2>1, <2>2 DEF EvidenceQuiet
<1>12. CASE PublishWave
  <2>1. /\ step = "publish" /\ family = "four" /\ WriteReceiptOfWave
        /\ UNCHANGED <<family, runs, whole>>
    BY <1>12 DEF PublishWave, History
  <2>2. EvidenceQuiet /\ unit \in 1..Units
    BY <1>10, <2>1 DEF ConfirmInv, CaptureTyped
  <2>3. ASSUME Analysed PROVE \A u \in 1..unit : <<runs, "four", u>> \in whole
    <3>1. Wave \in whole
      BY <2>1, <2>3, OkAsPlanned DEF Analysed
    <3> QED
      BY <2>1, <2>2, <3>1 DEF Wave
  <2>4. \/ Analysed /\ step' = "start" /\ unit' = unit + 1
        \/ step' = "evidence" /\ (bad' \/ (Analysed /\ unit = Units))
    BY <1>12 DEF PublishWave
  <2> QED
    BY <2>1, <2>2, <2>3, <2>4 DEF EvidenceQuiet
<1>13. CASE WriteEvidence
  <2>1. CASE Captured /\ Write("captured", Sealed) /\ Go("receipt")
    <3>1. step = "evidence" /\ ~bad /\ UNCHANGED <<runs, whole>> /\ step' = "receipt"
      BY <1>13, <2>1 DEF WriteEvidence, Go, Continues, History, Captured
    <3>2. CASE family = "four"
      <4>1. CapturedMatrix' = CapturedMatrix
        BY <2>1, <3>1, <3>2 DEF Write, Name, CapturedMatrix
      <4> QED
        BY <3>1, <3>2, <4>1
    <3>3. CASE family = "matrix"
      <4>1. Wave \in whole
        BY <2>1, <3>1, <3>3, OkAsPlanned DEF Captured
      <4>2. (CapturedFour' <=> CapturedFour) /\ CapturedMatrix' \subseteq CapturedMatrix \union {unit}
        BY <2>1, <3>1, <3>3 DEF Write, Name, Sealed, CapturedFour, CapturedMatrix
      <4> QED
        BY <3>1, <3>3, <4>1, <4>2 DEF Wave
    <3> QED
      BY <3>2, <3>3 DEF ConfirmInv, CaptureTyped, Families
  <2>2. CASE Write("failed", Sealed) /\ Go("receipt")
    BY <2>2, OtherEvidence, EvidenceStays DEF Go, Continues, History
  <2> QED
    BY <1>4, <1>13, <2>1, <2>2 DEF WriteEvidence
<1>14. CASE WriteReceipt
  BY <1>4, <1>14, OtherEvidence, EvidenceStays DEF WriteReceipt, Go, Continues, History
<1>15. CASE WriteWitness
  <2>1. PICK inTime \in {"witness", "late"} :
           \/ Write(inTime, Sealed) /\ (Stop \/ (family = "matrix" /\ Go("continue")))
           \/ Unsealed
    BY <1>15 DEF WriteWitness, ConfirmInv, CaptureTyped, Families
  <2> QED
    BY <1>3, <1>4, <2>1, OtherEvidence, EvidenceStays DEF Stop, Go, Continues, History
<1>16. CASE WriteResult
  BY <1>3, <1>16, OtherEvidence, SameEvidence DEF WriteResult, Stop, History
<1>17. CASE Crash
  BY <1>3, <1>17, SameEvidence DEF Crash, Stop, History
<1>18. CASE Continue
  BY <1>18, SameEvidence, EvidenceStays DEF Continue, History
<1>19. CASE UNCHANGED vars
  <2>1. UNCHANGED captureVars /\ (AsPlanned' <=> AsPlanned) /\ Wave' = Wave
    BY <1>19 DEF vars, captureVars, waveVars, controls, worker, AsPlanned, IoBy, Wave
  <2> QED
    BY <2>1, SameEvidence DEF captureVars, EvidenceQuiet
<1> QED
  BY <1>1, <1>5, <1>6, <1>7, <1>8, <1>9, <1>11, <1>12, <1>13, <1>14, <1>15, <1>16, <1>17, <1>18,
     <1>19
  DEF Next

(* Evidence that is sealed in time tells the truth, for any number of      *)
(* waves and experiments, of captures and of their deaths.                 *)
THEOREM SealsAreTrue == Spec => []SealedIsTrue
<1>1. Init => EvidenceEarned
  BY DEF Init, EvidenceEarned, CapturedFour, CapturedMatrix
<1>2. WaveInv /\ ConfirmInv /\ EvidenceEarned /\ [Next]_vars => EvidenceEarned'
  BY EvidenceKeeps
<1>3. EvidenceEarned => SealedIsTrue
  BY DEF EvidenceEarned, CapturedFour, CapturedMatrix, AllWhole, SealedIsTrue, SealedInTime
<1> QED
  BY <1>1, <1>2, <1>3, ConfirmInvariance, PTL DEF Spec
=============================================================================
