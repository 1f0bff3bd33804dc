---------------------------- MODULE PreparedWave ----------------------------
(* One wave of a prepared capture: run_prepared_wave of                    *)
(* data/minute_local_prepare_process.py and the worker it runs,            *)
(* data/minute_local_prepare_worker.py.  The controller starts the worker  *)
(* suspended, puts it into a job that dies with the controller, lets it    *)
(* prepare without the network, and says GO at the target.  Both read the  *)
(* clock and decide; time passes and the other one moves between any two   *)
(* steps.  Termination, draining and closing (_bounded_cleanup) are one    *)
(* step each here and in detail in ProbeWorker.                            *)
EXTENDS Integers

CONSTANTS Lead,         \* the target, on a clock that starts with the preparation window
          PrepWork,     \* time for the preparation, from its start
          PrepHard,     \* and for the preparation with its cleanup
          ReadyMargin,  \* READY must be there this long before the target
          HardMargin,   \* and the cleanup of a failed preparation over
          Io,           \* time for the network, from the target
          Hard,         \* and for the network with its cleanup
          Reserve,      \* time for the cleanup
          MaxTime,      \* bound on the clock of a wave
          Never         \* no such time yet

ASSUME WaveAssumption ==
  /\ {Lead, PrepWork, PrepHard, ReadyMargin, HardMargin, Io, Hard, Reserve, MaxTime} \subseteq Nat
  /\ HardMargin <= ReadyMargin /\ ReadyMargin <= Lead /\ 0 < Io /\ Io <= Hard
  /\ Lead + Hard <= MaxTime
  /\ Never \notin Nat

VARIABLES
  place,     \* where run_prepared_wave is
  now,       \* perf_counter
  started,   \* preparation_started_monotonic
  target,    \* target_monotonic
  ready,     \* the controller has checked READY
  goSent,    \* go_sent_monotonic
  given,     \* what the worker can read: nothing, the task, the task and one GO
  child,     \* where the worker is
  exitCode,
  job,       \* the worker is in the job of the controller
  drained,   \* the controller has a drain for its pipes
  answers,   \* what the worker has written
  attempts,  \* it tried to use the network without permission, perhaps in vain
  connected, \* when it connected
  asked,     \* when it asked for the bars
  failed, timedOut,  \* errors, and request_timed_out
  exited,    \* normal_exit_checked_monotonic
  cleanBy,   \* cleanup_deadline
  clean, ok

controls == <<started, target, ready, goSent, given, failed, timedOut, exited, cleanBy>>
objects == <<job, drained>>
worker == <<child, exitCode, answers, attempts, connected, asked>>
verdict == <<clean, ok>>
waveVars == <<place, now, controls, objects, worker, verdict>>

Places == {"idle", "dispatch", "spawn", "scope", "resume", "task", "ready", "ready_check", "wait",
           "go", "send", "exit", "exit_check", "finally", "kill", "close", "done"}
Running == {"input", "prepare", "await", "go", "released", "connected", "asking", "writing"}

Least(a, b) == IF a <= b THEN a ELSE b

\* Absolute deadlines, fixed when the task is made.
PrepWorkBy == Least(started + PrepWork, target - ReadyMargin)
PrepHardBy == Least(started + PrepHard, target - HardMargin)
IoBy == target + Io
HardBy == target + Hard

NoWave ==
  /\ place = "idle" /\ now = 0
  /\ started = 0 /\ target = Lead /\ ready = FALSE /\ goSent = Never /\ given = "nothing"
  /\ failed = FALSE /\ timedOut = FALSE /\ exited = Never /\ cleanBy = 0
  /\ job = FALSE /\ drained = FALSE
  /\ child = "none" /\ exitCode = Never /\ answers = {} /\ attempts = FALSE
  /\ connected = Never /\ asked = Never
  /\ clean = FALSE /\ ok = FALSE

\* The controller at p, a task made at time t for the target x, and nothing else yet.
Fresh(p, t, x) ==
  /\ place' = p /\ now' = t /\ started' = t /\ target' = x
  /\ ready' = FALSE /\ goSent' = Never /\ given' = "nothing"
  /\ failed' = FALSE /\ timedOut' = FALSE /\ exited' = Never /\ cleanBy' = 0
  /\ job' = FALSE /\ drained' = FALSE
  /\ child' = "none" /\ exitCode' = Never /\ answers' = {} /\ attempts' = FALSE
  /\ connected' = Never /\ asked' = Never
  /\ clean' = FALSE /\ ok' = FALSE

\* A task is made late, or against a wall clock that was read after the
\* monotonic one, which puts the target early by as much (task_for).
Begin(late, early) == late < Lead - early /\ Fresh("dispatch", late, Lead - early)

Active == place \notin {"idle", "done"}

Tick ==
  /\ Active /\ now < MaxTime
  /\ now' = now + 1
  /\ UNCHANGED <<place, controls, objects, worker, verdict>>

(* ------------------------------- the worker ----------------------------- *)

WorkerStep == UNCHANGED <<place, now, controls, objects, verdict>>

ReadTask ==
  /\ child = "input" /\ given # "nothing" /\ now < PrepWorkBy
  /\ child' = "prepare"
  /\ WorkerStep /\ UNCHANGED <<exitCode, answers, attempts, connected, asked>>

\* ApproveEarly: the boundary looks only at the number of connections.
ApproveEarly ==
  /\ child \in {"prepare", "await", "go", "released"} /\ connected = Never
  /\ connected' = now
  /\ WorkerStep /\ UNCHANGED <<child, exitCode, answers, attempts, asked>>

\* The audit hook refuses the network and counts, whether or not the library
\* swallows the refusal: all before the release, and all but one connection after.
Attempt ==
  /\ child \in Running \ {"input", "writing"}
  /\ attempts' = TRUE
  /\ WorkerStep /\ UNCHANGED <<child, exitCode, answers, connected, asked>>

EmitReady ==
  /\ child = "prepare" /\ ~attempts /\ now < PrepWorkBy
  /\ child' = "await" /\ answers' = answers \union {"ready"}
  /\ WorkerStep /\ UNCHANGED <<exitCode, attempts, connected, asked>>

\* check_go: GO was sent, and came, at the target or later, and in time.
ReadGo ==
  /\ child = "await" /\ given = "go"
  /\ target <= goSent /\ goSent <= now /\ now < IoBy
  /\ child' = "go"
  /\ WorkerStep /\ UNCHANGED <<exitCode, answers, attempts, connected, asked>>

\* The input ends after one GO, and nothing was tried before it.
Release ==
  /\ child = "go" /\ now < IoBy /\ ~attempts
  /\ child' = "released"
  /\ WorkerStep /\ UNCHANGED <<exitCode, answers, attempts, connected, asked>>

Connect ==
  /\ child = "released"
  /\ child' = "connected" /\ connected' = now
  /\ WorkerStep /\ UNCHANGED <<exitCode, answers, attempts, asked>>

Ask ==
  /\ child = "connected"
  /\ child' = "asking" /\ asked' = now
  /\ WorkerStep /\ UNCHANGED <<exitCode, answers, attempts, connected>>

\* The boundary must still be clean when the bars are there.
Capture ==
  /\ child = "asking" /\ ~attempts
  /\ child' = "writing" /\ answers' = answers \union {"ok"}
  /\ WorkerStep /\ UNCHANGED <<exitCode, attempts, connected, asked>>

\* Any exception of the worker: a deadline, an identity, an attempt, a parser.
Refuse ==
  /\ child \in Running \ {"writing"}
  /\ child' = "writing" /\ answers' = answers \union {"refused"}
  /\ WorkerStep /\ UNCHANGED <<exitCode, attempts, connected, asked>>

\* It ends as it answered, or dies before.
Leave ==
  /\ child \in Running
  /\ child' = "over"
  /\ exitCode' \in IF child = "writing" /\ "ok" \in answers THEN {0, 1} ELSE {1}
  /\ WorkerStep /\ UNCHANGED <<answers, attempts, connected, asked>>

WorkerMoves ==
  \/ ReadTask \/ Attempt \/ EmitReady \/ ReadGo \/ Release \/ Connect \/ Ask \/ Capture \/ Refuse
  \/ Leave

(* ----------------------------- the controller --------------------------- *)

Goto(next) == place' = next /\ UNCHANGED <<failed, timedOut>>
Error == place' = "finally" /\ failed' = TRUE /\ UNCHANGED timedOut
TimeOut == place' = "finally" /\ failed' = TRUE /\ timedOut' = TRUE

\* What a step of the controller leaves alone.
Own == UNCHANGED <<now, started, target, exited, cleanBy, verdict>>
Quiet == Own /\ UNCHANGED <<ready, goSent, given, objects, worker>>

Dispatch ==
  /\ place = "dispatch"
  /\ IF now >= PrepWorkBy THEN TimeOut ELSE Goto("spawn")
  /\ Quiet

\* The worker is created suspended: until it is in the job it runs nothing.
Spawn ==
  /\ place = "spawn"
  /\ \/ child' = "suspended" /\ Goto("scope")
     \/ Error /\ UNCHANGED child
  /\ Own /\ UNCHANGED <<ready, goSent, given, objects, exitCode, answers, attempts, connected, asked>>

Scope ==
  /\ place = "scope"
  /\ \/ job' = TRUE /\ drained' = TRUE /\ Goto("resume")
     \/ job' \in BOOLEAN /\ drained' = FALSE /\ Error
  /\ Own /\ UNCHANGED <<ready, goSent, given, worker>>

Resume ==
  /\ place = "resume"
  /\ \/ child' = "input" /\ Goto("task")
     \/ Error /\ UNCHANGED child
  /\ Own /\ UNCHANGED <<ready, goSent, given, objects, exitCode, answers, attempts, connected, asked>>

WriteTask ==
  /\ place = "task"
  /\ \/ child # "over" /\ given' = "task" /\ Goto("ready")
     \/ Error /\ UNCHANGED given
  /\ Own /\ UNCHANGED <<ready, goSent, objects, worker>>

\* observe() in the loop that waits for READY.
AwaitReady ==
  /\ place = "ready"
  /\ \/ /\ "ready" \in answers
        /\ ready' = TRUE
        /\ IF now >= PrepWorkBy THEN TimeOut
           ELSE IF "refused" \in answers THEN Error ELSE Goto("ready_check")
     \/ /\ "ready" \notin answers /\ UNCHANGED ready
        /\ IF "refused" \in answers THEN Error ELSE Goto("ready_check")
  /\ Own /\ UNCHANGED <<goSent, given, objects, worker>>

\* WaitsForReady: only the end of the worker ends the loop.
WaitsForReady ==
  /\ place = "ready_check"
  /\ IF child = "over" THEN Error ELSE Goto(IF ready THEN "wait" ELSE "ready")
  /\ Quiet

CheckReady ==
  /\ place = "ready_check"
  /\ IF child = "over" THEN Error
     ELSE IF now >= PrepWorkBy THEN TimeOut
     ELSE Goto(IF ready THEN "wait" ELSE "ready")
  /\ Quiet

\* The loop until the target, and the look at the clock that follows it.
AwaitTarget ==
  /\ place = "wait"
  /\ IF now >= target THEN IF now >= IoBy THEN TimeOut ELSE Goto("go")
     ELSE ("refused" \in answers \/ child = "over") /\ Error
  /\ Quiet

\* before_go may refuse; then GO is stamped.
StampGo ==
  /\ place = "go"
  /\ \/ Error /\ UNCHANGED goSent
     \/ goSent' = now /\ IF now >= IoBy THEN TimeOut ELSE Goto("send")
  /\ Own /\ UNCHANGED <<ready, given, objects, worker>>

\* One GO, and the end of the input.
SendGo ==
  /\ place = "send"
  /\ \/ child # "over" /\ given' = "go" /\ Goto("exit")
     \/ Error /\ UNCHANGED given
  /\ Own /\ UNCHANGED <<ready, goSent, objects, worker>>

AwaitExit ==
  /\ place = "exit"
  /\ IF now >= IoBy THEN TimeOut
     ELSE \/ "refused" \in answers /\ Error
          \/ "refused" \notin answers /\ child = "over" /\ Goto("exit_check")
  /\ Quiet

CheckExit ==
  /\ place = "exit_check"
  /\ IF now >= IoBy THEN TimeOut ELSE Goto("finally")
  /\ Quiet

\* The cleanup has its reserve, and never more than its phase has left.
\* UnboundedCleanup: the reserve alone.
UnboundedCleanup ==
  /\ place = "finally" /\ Goto("kill")
  /\ exited' = now /\ cleanBy' = now + Reserve
  /\ UNCHANGED <<now, started, target, ready, goSent, given, objects, worker, verdict>>

Finally ==
  /\ place = "finally" /\ Goto("kill")
  /\ exited' = now
  /\ cleanBy' = Least(IF ready THEN HardBy ELSE PrepHardBy, now + Reserve)
  /\ UNCHANGED <<now, started, target, ready, goSent, given, objects, worker, verdict>>

EndChild == child' = "over" /\ exitCode' = IF child = "over" THEN exitCode ELSE 1

\* A kill out of time is not tried, and a kill may fail.
Kill ==
  /\ place = "kill"
  /\ \/ child # "none" /\ now < cleanBy /\ EndChild /\ Goto("close")
     \/ /\ child = "none" \/ now >= cleanBy
        /\ Goto("close") /\ UNCHANGED <<child, exitCode>>
     \/ /\ child \notin {"none", "over"} /\ now < cleanBy
        /\ place' = "close" /\ failed' = TRUE /\ UNCHANGED <<timedOut, child, exitCode>>
  /\ Own /\ UNCHANGED <<ready, goSent, given, objects, answers, attempts, connected, asked>>

\* The tree is empty and the pipes are at their end in time, or they are given
\* up; closing the job ends whatever is still in it.  Then the wave is judged.
Close ==
  /\ place = "close" /\ Goto("done")
  /\ \/ child \in {"none", "over"} \/ now >= cleanBy
  /\ clean' = (now < cleanBy /\ (child = "none" \/ (job /\ drained)))
  /\ ok' = (/\ ~failed /\ ~timedOut /\ clean' /\ exitCode = 0 /\ "ok" \in answers
            /\ goSent # Never /\ now <= HardBy)
  /\ IF job THEN EndChild ELSE UNCHANGED <<child, exitCode>>
  /\ job' = FALSE
  /\ UNCHANGED <<now, started, target, ready, goSent, given, exited, cleanBy, drained, answers, attempts,
                 connected, asked>>

\* All but Spawn, which a capture takes note of.
ControllerMoves ==
  \/ Dispatch \/ Scope \/ Resume \/ WriteTask \/ AwaitReady \/ CheckReady \/ AwaitTarget
  \/ StampGo \/ SendGo \/ AwaitExit \/ CheckExit \/ Finally \/ Kill \/ Close
=============================================================================
