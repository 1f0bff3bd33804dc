---------------------------- MODULE ProbeWorker ----------------------------
(* run_probe_worker_process of data/probe_worker_process.py: one call that *)
(* runs a child process, gives it a task, reads its pipes and gets rid of  *)
(* it and of its descendants in time.  A call takes one of two paths: the  *)
(* bounded one (_run_bounded_worker and _bounded_cleanup), whose scope     *)
(* tracks descendants, and the older one on Popen.communicate.  Processes  *)
(* write, fork, close their pipes and end by themselves between any two    *)
(* steps of the call, and after it.  Of the output only the answer counts. *)
EXTENDS Integers

CONSTANTS Root,           \* the child that Popen starts
          Kids,           \* processes that descend from it
          Budget,         \* deadline_ms
          Reserve,        \* bounded_cleanup_ms
          Grace,          \* termination_grace_seconds
          HardDeadlines,  \* values of hard_deadline_monotonic
          MaxTime,        \* bound on the clock; a later timer ends there
          Noisy,          \* streams with output other than the answer
          Faults,         \* places at which an operation of the system may fail
          EarlySpawn      \* may the child fork before it has its task?

ASSUME WorkerAssumption ==
  /\ Root \notin Kids
  /\ Budget \in Nat /\ Reserve \in Nat /\ Grace \in Nat /\ MaxTime \in Nat
  /\ HardDeadlines \subseteq Nat
  /\ Budget <= MaxTime
  /\ EarlySpawn \in BOOLEAN

Procs == Kids \union {Root}
Streams == {"stdout", "stderr"}
Platforms == {"nt", "posix"}

VARIABLES
  bounded, platform,  \* the path of this call and the system it runs on
  pc,                 \* where the call is
  now,                \* monotonic()
  deadline,           \* of the call, or of the wait of the older path
  cleanupDeadline,
  life,               \* of each process; "reaped" when poll has seen its end
  returncode,         \* of the root, 0 or 1
  doomed,             \* processes that were told to end and cannot refuse
  tracked,            \* processes of the job or of the process group
  holds,              \* the streams each process can write to
  unread,             \* streams with bytes in the pipe
  answer,             \* what the root has answered on stdout
  released,           \* the task is written
  scope, drain,       \* the objects of these names exist
  kept, eof,          \* what drain has of the answer, and where it saw the end
  timedOut, failed,   \* request_timed_out, errors
  terminated, treeEmpty, pipesClosed, clean,
  result

processes == <<returncode, doomed, tracked, holds, unread, answer>>
world == <<life, processes>>
still == <<bounded, platform, now>>
limits == <<deadline, cleanupDeadline>>
objects == <<released, scope, drain>>
output == <<kept, eof>>
flags == <<timedOut, failed>>
found == <<terminated, treeEmpty, pipesClosed, clean>>
outcome == <<flags, found, result>>
call == <<bounded, platform, limits, objects, output, outcome>>
vars == <<pc, now, world, call>>

Codes == {"ok", "none", "cleanup", "timeout", "process", "output", "refused", "raised"}
Steps == {"prepare", "popen", "scope", "drain", "release", "write", "check", "read", "test",
          "finally", "tree", "maybe_kill", "kill", "drain_check", "drain_read", "drain_test",
          "close", "evaluate", "return", "judge", "communicate", "kill_tree",
          "grace_starts", "grace", "last", "done"}

TypeOK ==
  /\ bounded \in BOOLEAN /\ platform \in Platforms /\ pc \in Steps
  /\ now \in 0..MaxTime /\ deadline \in Nat /\ cleanupDeadline \in Nat
  /\ life \in [Procs -> {"none", "running", "exited", "reaped"}]
  /\ returncode \in {0, 1}
  /\ doomed \subseteq Procs /\ tracked \subseteq Procs
  /\ holds \in [Procs -> SUBSET Streams] /\ unread \subseteq Streams
  /\ answer \in {"none", "ok", "refused"} /\ kept \in {"none", "ok", "refused"}
  /\ eof \subseteq Streams
  /\ released \in BOOLEAN /\ scope \in BOOLEAN /\ drain \in BOOLEAN
  /\ timedOut \in BOOLEAN /\ failed \in BOOLEAN
  /\ terminated \in BOOLEAN /\ treeEmpty \in BOOLEAN /\ pipesClosed \in BOOLEAN
  /\ clean \in BOOLEAN
  /\ result \in Codes

Least(a, b) == IF a <= b THEN a ELSE b

Running(p) == life[p] = "running"
Held(s) == \E p \in Procs : s \in holds[p]

Init ==
  /\ bounded \in BOOLEAN /\ platform \in Platforms
  /\ now = 0
  /\ IF bounded
     THEN pc = "prepare" /\ \E hard \in HardDeadlines : deadline = Least(Budget, hard)
     ELSE pc = "popen" /\ deadline = 0
  /\ cleanupDeadline = deadline
  /\ life = [p \in Procs |-> "none"] /\ returncode = 1
  /\ doomed = {} /\ tracked = {}
  /\ holds = [p \in Procs |-> {}] /\ unread = {}
  /\ answer = "none" /\ kept = "none" /\ eof = {}
  /\ released = FALSE /\ scope = FALSE /\ drain = FALSE
  /\ timedOut = FALSE /\ failed = FALSE
  /\ terminated = FALSE /\ treeEmpty = FALSE /\ pipesClosed = FALSE /\ clean = FALSE
  /\ result = "none"

Tick ==
  /\ now < MaxTime /\ pc # "done"
  /\ now' = now + 1
  /\ UNCHANGED <<pc, world, call>>

\* Processes.  A process that was told to end does nothing else.
Free(p) == Running(p) /\ p \notin doomed

\* p forks k, which inherits some of its streams and its job or group.
Spawn(p, k) ==
  /\ Free(p) /\ life[k] = "none"
  /\ p = Root => released \/ EarlySpawn
  /\ life' = [life EXCEPT ![k] = "running"]
  /\ tracked' = IF p \in tracked THEN tracked \union {k} ELSE tracked
  /\ \E inherited \in SUBSET holds[p] : holds' = [holds EXCEPT ![k] = inherited]
  /\ UNCHANGED <<pc, now, returncode, doomed, unread, answer, call>>

Write(p, s) ==
  /\ Free(p) /\ s \in holds[p] \intersect Noisy /\ ~pipesClosed
  /\ unread' = unread \union {s}
  /\ UNCHANGED <<pc, now, life, returncode, doomed, tracked, holds, answer, call>>

Answer(value) ==
  /\ Free(Root) /\ released /\ answer = "none" /\ "stdout" \in holds[Root] /\ ~pipesClosed
  /\ answer' = value
  /\ unread' = unread \union {"stdout"}
  /\ UNCHANGED <<pc, now, life, returncode, doomed, tracked, holds, call>>

LetGo(p, s) ==
  /\ Free(p) /\ s \in holds[p]
  /\ holds' = [holds EXCEPT ![p] = @ \ {s}]
  /\ UNCHANGED <<pc, now, life, returncode, doomed, tracked, unread, answer, call>>

End(p) ==
  /\ Running(p)
  /\ life' = [life EXCEPT ![p] = "exited"]
  /\ holds' = [holds EXCEPT ![p] = {}]
  /\ IF p = Root /\ p \notin doomed THEN returncode' \in {0, 1} ELSE UNCHANGED returncode
  /\ UNCHANGED <<pc, now, doomed, tracked, unread, answer, call>>

World ==
  \/ \E p \in Procs : End(p)
  \/ \E p \in Procs, k \in Kids : Spawn(p, k)
  \/ \E p \in Procs, s \in Streams : Write(p, s) \/ LetGo(p, s)
  \/ \E value \in {"ok", "refused"} : Answer(value)

\* poll() of the root, and empty() of the scope.  A process group holds its
\* leader until somebody has polled it.
Polled == [life EXCEPT ![Root] = IF @ = "exited" THEN "reaped" ELSE @]
RootExited == life[Root] \in {"exited", "reaped"}
Empty(l) == \A p \in tracked : /\ l[p] # "running"
                               /\ p = Root /\ platform = "posix" => l[p] # "exited"
AtEnd == eof = Streams

\* One step of _PipeDrain.  A read may leave bytes in a pipe; an empty pipe
\* that nobody can write to is at its end.
DrainStep ==
  /\ \E more \in SUBSET unread :
       /\ unread' = more
       /\ kept' = IF "stdout" \in unread \ more THEN answer ELSE kept
  /\ eof' = eof \union {s \in Streams \ unread : ~Held(s)}
  /\ UNCHANGED <<life, returncode, doomed, tracked, holds, answer>>

\* An exception in the try block ends it.  A process group needs no call, and
\* the scope is asked only when root and pipes have ended.
Raises ==
  /\ bounded /\ pc \in Faults
  /\ pc \in {"prepare", "popen", "scope", "drain", "write", "read", "test"}
  /\ pc = "scope" => platform = "nt"
  /\ pc = "test" => RootExited /\ AtEnd
  /\ failed' = TRUE
  /\ pc' = "finally"
  /\ UNCHANGED <<still, limits, world, objects, output, timedOut, found, result>>

\* Before the child, before its task and before every read there must be time
\* left for more than the cleanup.
InTime == now < deadline - Reserve
NextInTime == [prepare |-> "popen", release |-> "write", check |-> "read"]

Proceeds ==
  /\ pc \in DOMAIN NextInTime /\ InTime
  /\ pc' = NextInTime[pc]
  /\ UNCHANGED <<now, world, call>>

TimesOut ==
  /\ pc \in DOMAIN NextInTime /\ ~InTime
  /\ timedOut' = TRUE
  /\ pc' = "finally"
  /\ UNCHANGED <<still, limits, world, objects, output, failed, found, result>>

Started ==
  /\ life' = [life EXCEPT ![Root] = "running"]
  /\ holds' = [holds EXCEPT ![Root] = Streams]
  /\ UNCHANGED <<returncode, doomed, unread, answer>>

Popen ==
  /\ pc = "popen" /\ bounded
  /\ Started
  /\ tracked' = IF platform = "posix" THEN {Root} ELSE {}
  /\ pc' = "scope"
  /\ UNCHANGED <<now, call>>

CreateScope ==
  /\ pc = "scope"
  /\ scope' = TRUE
  /\ tracked' = tracked \union {Root}
  /\ pc' = "drain"
  /\ UNCHANGED <<still, limits, life, returncode, doomed, holds, unread, answer, released, drain,
                 output, outcome>>

CreateDrain ==
  /\ pc = "drain"
  /\ drain' = TRUE
  /\ pc' = "release"
  /\ UNCHANGED <<still, limits, world, released, scope, output, outcome>>

WriteTask ==
  /\ pc = "write"
  /\ released' = TRUE
  /\ pc' = "check"
  /\ UNCHANGED <<still, limits, world, scope, drain, output, outcome>>

Read ==
  /\ pc = "read"
  /\ DrainStep
  /\ pc' = "test"
  /\ UNCHANGED <<still, limits, objects, outcome>>

\* Mutant: the tree is not looked at.
NormalExitOfRoot == RootExited /\ AtEnd

NormalExit == RootExited /\ AtEnd /\ Empty(Polled)

Test ==
  /\ pc = "test"
  /\ life' = Polled
  /\ pc' = IF NormalExit THEN "finally" ELSE "check"
  /\ UNCHANGED <<now, processes, call>>

\* The cleanup has what is left of the reserve, never more.
CleanupDeadline == Least(deadline, now + Reserve)

Finally ==
  /\ pc = "finally"
  /\ cleanupDeadline' = CleanupDeadline
  /\ pc' = IF life[Root] = "none" THEN "close" ELSE "tree"
  /\ UNCHANGED <<still, deadline, world, objects, output, outcome>>

\* An exception in a part of the cleanup ends it, and the next one begins.
\* The scope and the drain can only fail where they exist.
NextPart == [tree |-> "drain_check", kill |-> "drain_check", drain_read |-> "close",
             drain_test |-> "close", close |-> "return"]

CleanupRaises ==
  /\ pc \in (DOMAIN NextPart) \intersect Faults
  /\ pc \in {"tree", "drain_test"} => scope
  /\ pc = "drain_read" => drain
  /\ failed' = TRUE
  /\ terminated' = (terminated \/ pc = "kill")
  /\ pipesClosed' \in IF pc = "close" THEN BOOLEAN ELSE {pipesClosed}
  /\ pc' = NextPart[pc]
  /\ UNCHANGED <<still, limits, world, objects, output, timedOut, treeEmpty, clean, result>>

CheckTree ==
  /\ pc = "tree"
  /\ treeEmpty' = (scope /\ Empty(life))
  /\ pc' = "maybe_kill"
  /\ UNCHANGED <<still, limits, world, objects, output, flags, terminated, pipesClosed, clean,
                 result>>

MustKill == (~RootExited \/ ~treeEmpty) /\ now < cleanupDeadline

MaybeKill ==
  /\ pc = "maybe_kill"
  /\ life' = Polled
  /\ pc' = IF MustKill THEN "kill" ELSE "drain_check"
  /\ UNCHANGED <<now, processes, call>>

\* The scope ends everything it tracks; without one, only the root is killed.
Victims == {p \in IF scope THEN tracked ELSE {Root} : Running(p)}

Kill ==
  /\ pc = "kill"
  /\ terminated' = TRUE
  /\ doomed' = doomed \union Victims
  /\ pc' = "drain_check"
  /\ UNCHANGED <<still, limits, life, returncode, tracked, holds, unread, answer, objects,
                 output, flags, treeEmpty, pipesClosed, clean, result>>

\* Mutant: the cleanup waits until everything has ended.
DrainAlways ==
  /\ pc = "drain_check"
  /\ pc' = "drain_read"
  /\ UNCHANGED <<now, world, call>>

DrainCheck ==
  /\ pc = "drain_check"
  /\ pc' = IF now < cleanupDeadline THEN "drain_read" ELSE "close"
  /\ UNCHANGED <<now, world, call>>

DrainRead ==
  /\ pc = "drain_read"
  /\ IF drain THEN DrainStep ELSE UNCHANGED <<world, output>>
  /\ pc' = "drain_test"
  /\ UNCHANGED <<still, limits, objects, outcome>>

DrainTest ==
  /\ pc = "drain_test"
  /\ life' = Polled
  /\ treeEmpty' = (scope /\ Empty(Polled))
  /\ pc' = IF RootExited /\ treeEmpty' /\ drain /\ AtEnd THEN "close" ELSE "drain_check"
  /\ UNCHANGED <<still, limits, processes, objects, output, flags, terminated, pipesClosed,
                 clean, result>>

\* Pipes and scope are closed; what was not closed is not clean.
Close ==
  /\ pc = "close"
  /\ pipesClosed' = (life[Root] # "none")
  /\ pc' = "evaluate"
  /\ UNCHANGED <<still, limits, world, objects, output, flags, terminated, treeEmpty, clean,
                 result>>

\* Mutant: only the root is looked at.
CleanupCompleteOfRoot ==
  \/ life[Root] = "none"
  \/ RootExited /\ AtEnd /\ pipesClosed

CleanupComplete ==
  \/ life[Root] = "none"
  \/ RootExited /\ treeEmpty /\ drain /\ AtEnd /\ pipesClosed

Evaluate ==
  /\ pc = "evaluate"
  /\ life' = Polled
  /\ clean' = (CleanupComplete /\ now <= cleanupDeadline)
  /\ pc' = "return"
  /\ UNCHANGED <<still, limits, processes, objects, output, flags, terminated, treeEmpty,
                 pipesClosed, result>>

\* cleanup_finished is read, and the cleanup must have ended before its deadline.
Return ==
  /\ pc = "return"
  /\ clean' = (clean /\ now < cleanupDeadline)
  /\ pc' = "judge"
  /\ UNCHANGED <<still, limits, world, objects, output, flags, terminated, treeEmpty,
                 pipesClosed, result>>

\* error_code; "ok" when there is none.
OutputCode == IF kept = "none" THEN "output" ELSE kept
Code(late) ==
  IF ~clean THEN "cleanup"
  ELSE IF late THEN "timeout"
  ELSE IF failed \/ returncode # 0 THEN "process"
  ELSE OutputCode

\* over_budget is read after cleanup_finished.
Judge ==
  /\ pc = "judge"
  /\ timedOut' = (timedOut \/ now > deadline)
  /\ result' = Code(timedOut')
  /\ pc' = "done"
  /\ UNCHANGED <<still, limits, world, objects, output, failed, found>>

Bounded ==
  \/ Raises \/ Proceeds \/ TimesOut \/ CleanupRaises
  \/ Popen \/ CreateScope \/ CreateDrain \/ WriteTask
  \/ Read \/ Test \/ Finally
  \/ CheckTree \/ MaybeKill \/ Kill \/ DrainCheck \/ DrainRead \/ DrainTest
  \/ Close \/ Evaluate \/ Return \/ Judge

\* The older path.  communicate waits until the root has ended and nobody can
\* write to the pipes; a timer beyond the bound of the clock ends at the bound.
Clip(t) == Least(t, MaxTime)

PopenRaises ==
  /\ pc = "popen" /\ ~bounded /\ "popen" \in Faults
  /\ result' = "raised"
  /\ pc' = "done"
  /\ UNCHANGED <<still, limits, objects, flags, found, world, output>>

\* With include_startup_in_deadline the time until here counts.
StartOld ==
  /\ pc = "popen" /\ ~bounded
  /\ Started /\ UNCHANGED tracked
  /\ deadline' \in {Budget, Clip(now + Budget)}
  /\ released' = (now < deadline')
  /\ timedOut' = ~released'
  /\ pc' = IF released' THEN "communicate" ELSE "kill_tree"
  /\ UNCHANGED <<still, cleanupDeadline, scope, drain, failed, found, output, result>>

PipesDone == RootExited /\ \A s \in Streams : ~Held(s)

\* communicate returns all that was written.
Communicated(code) ==
  /\ PipesDone
  /\ life' = Polled
  /\ kept' = answer /\ unread' = {} /\ eof' = Streams
  /\ result' = code
  /\ pc' = "done"
  /\ UNCHANGED <<still, limits, objects, flags, found, returncode, doomed, tracked, holds, answer>>

OldCode == IF answer = "none" THEN "output"
           ELSE IF answer = "ok" /\ returncode # 0 THEN "process" ELSE answer

Communicate == pc = "communicate" /\ Communicated(OldCode)

CommunicateTimesOut ==
  /\ pc = "communicate" /\ now >= deadline
  /\ timedOut' = TRUE
  /\ pc' = "kill_tree"
  /\ UNCHANGED <<still, limits, objects, failed, found, world, output, result>>

\* taskkill finds the descendants whose parents still run; elsewhere only the
\* root is told to end, and may refuse.
Reachable ==
  IF platform = "nt"
  THEN {met \in SUBSET {p \in Procs : Running(p)} : Running(Root) => Root \in met}
  ELSE {{}, {Root}}

KillTree ==
  /\ pc = "kill_tree"
  /\ terminated' = TRUE
  /\ life' = Polled
  /\ IF RootExited THEN UNCHANGED doomed
     ELSE \/ \E victims \in Reachable : doomed' = doomed \union victims
          \/ platform = "nt" /\ "kill_tree" \in Faults /\ UNCHANGED doomed
  /\ pc' = "grace_starts"
  /\ UNCHANGED <<still, limits, objects, flags, treeEmpty, pipesClosed, clean, returncode,
                 tracked, holds, unread, answer, output, result>>

GraceStarts ==
  /\ pc = "grace_starts"
  /\ deadline' = Clip(now + Grace)
  /\ pc' = "grace"
  /\ UNCHANGED <<still, cleanupDeadline, objects, outcome, world, output>>

KillRoot ==
  /\ pc = "grace" /\ now >= deadline
  /\ life' = Polled
  /\ doomed' = IF Running(Root) THEN doomed \union {Root} ELSE doomed
  /\ pc' = "last"
  /\ UNCHANGED <<call, now, returncode, tracked, holds, unread, answer>>

\* The last communicate has no timeout.
Reap == pc \in {"grace", "last"} /\ Communicated("timeout")

Older ==
  \/ PopenRaises \/ StartOld \/ Communicate \/ CommunicateTimesOut
  \/ KillTree \/ GraceStarts \/ KillRoot \/ Reap

Next == Tick \/ World \/ Bounded \/ Older

Spec == Init /\ [][Next]_vars

\* The call is sequential, and time passes; nothing is assumed of processes.
FairSpec == Spec /\ WF_vars(Tick) /\ WF_vars(Bounded \/ Older)

\* ok: the root ended well and by itself, nothing it tracked runs any more, and
\* all that anybody wrote was read before the answer was judged
\* (probe_worker_process.py:528, docs/v050_minute_capture_audit.md:29).
OkMeansOver ==
  bounded /\ result = "ok" =>
    /\ RootExited /\ returncode = 0 /\ ~terminated
    /\ \A p \in tracked : ~Running(p)
    /\ unread = {} /\ kept = answer

\* Whatever still runs after a bounded call, its caller was told that the
\* cleanup is incomplete, which stops it from starting another worker
\* (probe_worker_process.py:531).
NothingLeftUntold ==
  bounded /\ pc = "done" /\ (\E p \in tracked \union {Root} : Running(p)) => result = "cleanup"

\* The scope is there before the task is, so a worker that reads its task first
\* has no descendant that escapes ("establish its descendant scope before
\* release", probe_worker_process.py:486).
DescendantsTracked ==
  bounded => \A p \in Kids : life[p] # "none" => p \in tracked

\* A bounded call ends whatever its processes do.  The older one ends unless
\* a process keeps a pipe open, or the root runs, for ever.
CallEnds == <>(pc = "done") \/ (~bounded /\ <>[]~PipesDone)
=============================================================================
