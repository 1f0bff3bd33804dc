------------------------- MODULE ProbeWorkerProofs -------------------------
(* The safety properties of ProbeWorker for any descendants, budgets,      *)
(* deadlines and failing operations.                                       *)
EXTENDS ProbeWorker, TLAPS

Opening == {"prepare", "popen"}
Setup == {"prepare", "popen", "scope", "drain", "release", "write", "check", "read", "test"}
Cleaning == {"tree", "maybe_kill", "kill", "drain_check", "drain_read", "drain_test",
             "close", "evaluate", "return", "judge"}
Waiting == {"communicate", "kill_tree", "grace_starts", "grace", "last"}

\* Which path a place belongs to, and what is not yet there at it.
PathInv ==
  /\ pc \in (Setup \ {"popen"}) \union Cleaning \union {"finally"} => bounded
  /\ pc \in Waiting => ~bounded
  /\ pc \in Opening => life[Root] = "none" /\ eof = {} /\ ~scope /\ ~drain
  /\ pc = "scope" => life[Root] # "none"
  /\ pc \in Setup => ~treeEmpty /\ ~terminated /\ ~timedOut /\ ~failed
  /\ pc \notin {"return", "judge", "done"} => ~clean
  /\ pc # "done" => result = "none"
  /\ pc \in {"drain", "release", "write", "check", "read", "test"} => scope
  /\ ~bounded => ~scope /\ tracked = {}

\* Only what was started is tracked, holds a stream or ends.
ProcessInv ==
  /\ life[Root] = "none" => \A p \in Procs : life[p] = "none"
  /\ \A p \in tracked : life[p] # "none"
  /\ \A p \in Procs : ~Running(p) => holds[p] = {}
  /\ scope => Root \in tracked

\* An end that drain has seen is the end, and it has what was to be read.
PipeInv ==
  /\ \A s \in eof : s \notin unread /\ \A p \in Procs : s \notin holds[p]
  /\ "stdout" \notin unread => kept = answer

\* Once the scope was seen empty, it is.
EmptyInv == treeEmpty => scope /\ \A p \in tracked : ~Running(p)

\* A cleanup without a timeout or an error finds everything over already, and
\* so it kills nothing.
Over == life[Root] = "reaped" /\ scope /\ \A p \in tracked : ~Running(p)
NormalInv ==
  /\ bounded /\ pc \notin Setup /\ ~timedOut /\ ~failed => Over /\ ~terminated /\ pc # "kill"
  /\ pc = "maybe_kill" /\ ~timedOut /\ ~failed => treeEmpty

\* A complete cleanup left nothing; the result follows it.
CleanInv ==
  /\ clean /\ life[Root] # "none" => RootExited /\ treeEmpty /\ AtEnd
  /\ bounded /\ pc = "done" /\ result # "cleanup" => clean
  /\ bounded /\ result = "ok" => ~timedOut /\ ~failed /\ returncode = 0

IInv == TypeOK /\ PathInv /\ ProcessInv /\ PipeInv /\ EmptyInv /\ NormalInv /\ CleanInv

\* The descendants of a worker that reads its task first.
TrackingInv ==
  /\ bounded /\ released => scope
  /\ bounded => \A p \in Kids : life[p] # "none" => p \in tracked
-----------------------------------------------------------------------------
\* What a step of drain leaves is typed.
LEMMA DrainTypes ==
  ASSUME TypeOK, DrainStep
  PROVE  /\ eof' \subseteq Streams /\ unread' \subseteq Streams
         /\ kept' \in {"none", "ok", "refused"}
  BY DEF TypeOK, DrainStep

\* Every variable keeps its type.
LEMMA TypeStep == ASSUME IInv, [Next]_vars PROVE TypeOK'
<1> USE WorkerAssumption
    DEF vars, call, still, limits, objects, output, flags, found, outcome, world, processes,
        IInv, TypeOK, Steps, Codes, Procs, Streams, Running, Held
<1>1. CASE Raises
  BY <1>1 DEF Raises, RootExited, AtEnd
<1>2. CASE Proceeds
  BY <1>2 DEF Proceeds, NextInTime
<1>3. CASE TimesOut
  BY <1>3 DEF TimesOut, NextInTime
<1>4. CASE CleanupRaises
  BY <1>4 DEF CleanupRaises, NextPart
<1>5. CASE Popen
  BY <1>5 DEF Popen, Started
<1>6. CASE CreateScope
  BY <1>6 DEF CreateScope
<1>7. CASE CreateDrain
  BY <1>7 DEF CreateDrain
<1>8. CASE WriteTask
  BY <1>8 DEF WriteTask
<1>9. CASE Read
  <2>1. DrainStep
    BY <1>9 DEF Read
  <2> QED BY <1>9, <2>1, DrainTypes DEF Read, DrainStep
<1>10. CASE Test
  BY <1>10 DEF Test, Polled, NormalExit, RootExited, Empty, AtEnd
<1>11. CASE Finally
  BY <1>11 DEF Finally, CleanupDeadline, Least
<1>12. CASE CheckTree
  BY <1>12 DEF CheckTree, Empty
<1>13. CASE MaybeKill
  BY <1>13 DEF MaybeKill, Polled, MustKill, RootExited
<1>14. CASE Kill
  BY <1>14 DEF Kill, Victims
<1>15. CASE DrainCheck
  BY <1>15 DEF DrainCheck
<1>16. CASE DrainRead
  <2>1. CASE drain
    BY <1>16, <2>1, DrainTypes DEF DrainRead, DrainStep
  <2>2. CASE ~drain
    <3>1. pc' = "drain_test" /\ UNCHANGED <<still, limits, world, objects, output, outcome>>
      BY <1>16, <2>2 DEF DrainRead
    <3> QED BY <3>1
  <2> QED BY <2>1, <2>2
<1>17. CASE DrainTest
  BY <1>17 DEF DrainTest, Polled, Empty, RootExited, AtEnd
<1>18. CASE Close
  BY <1>18 DEF Close
<1>19. CASE Evaluate
  BY <1>19 DEF Evaluate, Polled, CleanupComplete, RootExited, AtEnd
<1>20. CASE Return
  BY <1>20 DEF Return
<1>21. CASE Judge
  BY <1>21 DEF Judge, Code, OutputCode
<1>22. CASE PopenRaises
  BY <1>22 DEF PopenRaises
<1>23. CASE StartOld
  BY <1>23 DEF StartOld, Started, Clip, Least
<1>24. CASE CommunicateTimesOut
  BY <1>24 DEF CommunicateTimesOut
<1>25. CASE KillTree
  BY <1>25 DEF KillTree, Reachable, Polled, RootExited
<1>26. CASE GraceStarts
  BY <1>26 DEF GraceStarts, Clip, Least
<1>27. CASE KillRoot
  BY <1>27 DEF KillRoot, Polled
<1>28. CASE Communicate
  BY <1>28 DEF Communicate, Communicated, PipesDone, OldCode, Polled, RootExited
<1>29. CASE Reap
  BY <1>29 DEF Reap, Communicated, PipesDone, Polled, RootExited
<1>30. CASE \E p \in Procs : End(p)
  BY <1>30 DEF End
<1>31. CASE \E p \in Procs, k \in Kids : Spawn(p, k)
  BY <1>31 DEF Spawn, Free
<1>32. CASE \E p \in Procs, s \in Streams : Write(p, s)
  BY <1>32 DEF Write, Free
<1>33. CASE \E p \in Procs, s \in Streams : LetGo(p, s)
  BY <1>33 DEF LetGo, Free
<1>34. CASE \E value \in {"ok", "refused"} : Answer(value)
  BY <1>34 DEF Answer, Free
<1>35. CASE Tick
  BY <1>35 DEF Tick
<1>36. CASE UNCHANGED vars
  BY <1>36
<1> QED
  BY <1>1, <1>2, <1>3, <1>4, <1>5, <1>6, <1>7, <1>8, <1>9, <1>10, <1>11, <1>12, <1>13,
     <1>14, <1>15, <1>16, <1>17, <1>18, <1>19, <1>20, <1>21, <1>22, <1>23, <1>24,
     <1>25, <1>26, <1>27, <1>28, <1>29, <1>30, <1>31, <1>32, <1>33, <1>34, <1>35,
     <1>36 DEF Next, World, Bounded, Older

\* A place of one path is reached on it only, and in its order.
LEMMA PathStep == ASSUME IInv, [Next]_vars PROVE PathInv'
<1> USE WorkerAssumption
    DEF vars, call, still, limits, objects, output, flags, found, outcome, world, processes,
        IInv, TypeOK, PathInv, ProcessInv, Running, Procs, Opening, Setup,
        Cleaning, Waiting
<1>1. CASE Raises \/ Proceeds \/ TimesOut \/ CleanupRaises
  BY <1>1 DEF Raises, RootExited, AtEnd, Proceeds, NextInTime, TimesOut, CleanupRaises,
     NextPart
<1>2. CASE Popen
  BY <1>2 DEF Popen, Started
<1>3. CASE CreateScope \/ CreateDrain \/ WriteTask
  BY <1>3 DEF CreateScope, CreateDrain, WriteTask
<1>4. CASE Read
  BY <1>4 DEF Read, DrainStep, Held
<1>5. CASE Test
  BY <1>5 DEF Test, Polled, NormalExit, RootExited, Empty, AtEnd
<1>6. CASE Finally \/ CheckTree \/ MaybeKill \/ Kill \/ DrainCheck
  BY <1>6 DEF Finally, CleanupDeadline, Least, CheckTree, Empty, MaybeKill, Polled,
     MustKill, RootExited, Kill, Victims, DrainCheck
<1>7. CASE DrainRead
  BY <1>7 DEF DrainRead, DrainStep, Held
<1>8. CASE DrainTest
  BY <1>8 DEF DrainTest, Polled, Empty, RootExited, AtEnd
<1>9. CASE Close \/ Evaluate \/ Return \/ Judge
  BY <1>9 DEF Close, Evaluate, Polled, CleanupComplete, RootExited, AtEnd, Return,
     Judge, Code, OutputCode
<1>10. CASE PopenRaises \/ StartOld \/ CommunicateTimesOut \/ KillTree
            \/ GraceStarts \/ KillRoot
  BY <1>10 DEF PopenRaises, StartOld, Started, Clip, Least, CommunicateTimesOut,
     KillTree, Reachable, Polled, RootExited, GraceStarts, KillRoot
<1>11. CASE Communicate \/ Reap
  BY <1>11 DEF Communicate, Communicated, PipesDone, OldCode, Polled, RootExited, Held,
     Reap
<1>12. CASE \E p \in Procs : End(p)
  BY <1>12 DEF End
<1>13. CASE \E p \in Procs, k \in Kids : Spawn(p, k)
  BY <1>13 DEF Spawn, Free
<1>14. CASE \E p \in Procs, s \in Streams : Write(p, s)
  BY <1>14 DEF Write, Free
<1>15. CASE \E p \in Procs, s \in Streams : LetGo(p, s)
  BY <1>15 DEF LetGo, Free
<1>16. CASE \E value \in {"ok", "refused"} : Answer(value)
  BY <1>16 DEF Answer, Free
<1>17. CASE Tick \/ UNCHANGED vars
  BY <1>17 DEF Tick
<1> QED
  BY <1>1, <1>2, <1>3, <1>4, <1>5, <1>6, <1>7, <1>8, <1>9, <1>10, <1>11, <1>12, <1>13,
     <1>14, <1>15, <1>16, <1>17 DEF Next, World, Bounded, Older

\* Only a running process forks, so what is tracked or writes was started.
LEMMA ProcessStep == ASSUME IInv, [Next]_vars PROVE ProcessInv'
<1> USE WorkerAssumption
    DEF vars, call, still, limits, objects, output, flags, found, outcome, world, processes,
        IInv, TypeOK, PathInv, ProcessInv, Running, Procs
<1>1. CASE Raises \/ Proceeds \/ TimesOut \/ CleanupRaises
  BY <1>1 DEF Raises, RootExited, AtEnd, Proceeds, NextInTime, TimesOut, CleanupRaises,
     NextPart
<1>2. CASE Popen
  <2>1. life'[Root] = "running" /\ ~scope
    BY <1>2 DEF Popen, Started, Opening
  <2>3. tracked' \subseteq {Root}
    BY <1>2 DEF Popen
  <2>2. \A p \in Kids : life'[p] = life[p] /\ holds'[p] = holds[p]
    BY <1>2 DEF Popen, Started
  <2> QED BY <1>2, <2>1, <2>2, <2>3 DEF Popen
<1>3. CASE CreateScope \/ CreateDrain \/ WriteTask
  BY <1>3 DEF CreateScope, CreateDrain, WriteTask
<1>4. CASE Read
  BY <1>4 DEF Read, DrainStep, Held
<1>5. CASE Test
  BY <1>5 DEF Test, Polled, NormalExit, RootExited, Empty, AtEnd
<1>6. CASE Finally \/ CheckTree \/ MaybeKill \/ Kill \/ DrainCheck
  BY <1>6 DEF Finally, CleanupDeadline, Least, CheckTree, Empty, MaybeKill, Polled,
     MustKill, RootExited, Kill, Victims, DrainCheck
<1>7. CASE DrainRead
  BY <1>7 DEF DrainRead, DrainStep, Held
<1>8. CASE DrainTest
  BY <1>8 DEF DrainTest, Polled, Empty, RootExited, AtEnd
<1>9. CASE Close \/ Evaluate \/ Return \/ Judge
  BY <1>9 DEF Close, Evaluate, Polled, CleanupComplete, RootExited, AtEnd, Return,
     Judge, Code, OutputCode
<1>10. CASE PopenRaises \/ StartOld \/ CommunicateTimesOut \/ KillTree
            \/ GraceStarts \/ KillRoot
  BY <1>10 DEF PopenRaises, StartOld, Started, Clip, Least, CommunicateTimesOut,
     KillTree, Reachable, Polled, RootExited, GraceStarts, KillRoot
<1>11. CASE Communicate \/ Reap
  BY <1>11 DEF Communicate, Communicated, PipesDone, OldCode, Polled, RootExited, Held,
     Reap
<1>12. CASE \E p \in Procs : End(p)
  BY <1>12 DEF End
<1>13. CASE \E p \in Procs, k \in Kids : Spawn(p, k)
  BY <1>13 DEF Spawn, Free
<1>14. CASE \E p \in Procs, s \in Streams : Write(p, s)
  BY <1>14 DEF Write, Free
<1>15. CASE \E p \in Procs, s \in Streams : LetGo(p, s)
  BY <1>15 DEF LetGo, Free
<1>16. CASE \E value \in {"ok", "refused"} : Answer(value)
  BY <1>16 DEF Answer, Free
<1>17. CASE Tick \/ UNCHANGED vars
  BY <1>17 DEF Tick
<1> QED
  BY <1>1, <1>2, <1>3, <1>4, <1>5, <1>6, <1>7, <1>8, <1>9, <1>10, <1>11, <1>12, <1>13,
     <1>14, <1>15, <1>16, <1>17 DEF Next, World, Bounded, Older

\* Nobody can open a stream again that all have let go.
LEMMA PipeStep == ASSUME IInv, [Next]_vars PROVE PipeInv'
<1> USE WorkerAssumption
    DEF vars, call, still, limits, objects, output, flags, found, outcome, world, processes,
        IInv, TypeOK, PathInv, ProcessInv, PipeInv, Running, Procs, Streams,
        Opening, Setup, Cleaning, Waiting
<1>1. CASE Raises \/ Proceeds \/ TimesOut \/ CleanupRaises
  BY <1>1 DEF Raises, RootExited, AtEnd, Proceeds, NextInTime, TimesOut, CleanupRaises,
     NextPart
<1>2. CASE Popen
  BY <1>2 DEF Popen, Started
<1>3. CASE CreateScope \/ CreateDrain \/ WriteTask
  BY <1>3 DEF CreateScope, CreateDrain, WriteTask
<1>4. CASE Read
  BY <1>4 DEF Read, DrainStep, Held
<1>5. CASE Test
  BY <1>5 DEF Test, Polled, NormalExit, RootExited, Empty, AtEnd
<1>6. CASE Finally \/ CheckTree \/ MaybeKill \/ Kill \/ DrainCheck
  BY <1>6 DEF Finally, CleanupDeadline, Least, CheckTree, Empty, MaybeKill, Polled,
     MustKill, RootExited, Kill, Victims, DrainCheck
<1>7. CASE DrainRead
  <2>1. CASE drain
    <3>1. DrainStep /\ pc' = "drain_test"
      BY <1>7, <2>1 DEF DrainRead
    <3> QED BY <3>1 DEF DrainStep, Held
  <2>2. CASE ~drain
    BY <1>7, <2>2 DEF DrainRead
  <2> QED BY <2>1, <2>2
<1>8. CASE DrainTest
  BY <1>8 DEF DrainTest, Polled, Empty, RootExited, AtEnd
<1>9. CASE Close \/ Evaluate \/ Return \/ Judge
  BY <1>9 DEF Close, Evaluate, Polled, CleanupComplete, RootExited, AtEnd, Return,
     Judge, Code, OutputCode
<1>10. CASE PopenRaises \/ StartOld \/ CommunicateTimesOut \/ KillTree
            \/ GraceStarts \/ KillRoot
  BY <1>10 DEF PopenRaises, StartOld, Started, Clip, Least, CommunicateTimesOut,
     KillTree, Reachable, Polled, RootExited, GraceStarts, KillRoot
<1>11. CASE Communicate \/ Reap
  BY <1>11 DEF Communicate, Communicated, PipesDone, OldCode, Polled, RootExited, Held,
     Reap
<1>12. CASE \E p \in Procs : End(p)
  BY <1>12 DEF End
<1>13. CASE \E p \in Procs, k \in Kids : Spawn(p, k)
  BY <1>13 DEF Spawn, Free
<1>14. CASE \E p \in Procs, s \in Streams : Write(p, s)
  BY <1>14 DEF Write, Free
<1>15. CASE \E p \in Procs, s \in Streams : LetGo(p, s)
  BY <1>15 DEF LetGo, Free
<1>16. CASE \E value \in {"ok", "refused"} : Answer(value)
  BY <1>16 DEF Answer, Free
<1>17. CASE Tick \/ UNCHANGED vars
  BY <1>17 DEF Tick
<1> QED
  BY <1>1, <1>2, <1>3, <1>4, <1>5, <1>6, <1>7, <1>8, <1>9, <1>10, <1>11, <1>12, <1>13,
     <1>14, <1>15, <1>16, <1>17 DEF Next, World, Bounded, Older

\* Nobody enters a scope in which nobody runs.
LEMMA EmptyStep == ASSUME IInv, [Next]_vars PROVE EmptyInv'
<1> USE WorkerAssumption
    DEF vars, call, still, limits, objects, output, flags, found, outcome, world, processes,
        IInv, TypeOK, PathInv, ProcessInv, EmptyInv, Running, Procs, Opening,
        Setup, Cleaning, Waiting
<1>1. CASE Raises \/ Proceeds \/ TimesOut \/ CleanupRaises
  BY <1>1 DEF Raises, RootExited, AtEnd, Proceeds, NextInTime, TimesOut, CleanupRaises,
     NextPart
<1>2. CASE Popen
  BY <1>2 DEF Popen, Started
<1>3. CASE CreateScope \/ CreateDrain \/ WriteTask
  BY <1>3 DEF CreateScope, CreateDrain, WriteTask
<1>4. CASE Read
  BY <1>4 DEF Read, DrainStep, Held
<1>5. CASE Test
  BY <1>5 DEF Test, Polled, NormalExit, RootExited, Empty, AtEnd
<1>6. CASE Finally \/ CheckTree \/ MaybeKill \/ Kill \/ DrainCheck
  BY <1>6 DEF Finally, CleanupDeadline, Least, CheckTree, Empty, MaybeKill, Polled,
     MustKill, RootExited, Kill, Victims, DrainCheck
<1>7. CASE DrainRead
  BY <1>7 DEF DrainRead, DrainStep, Held
<1>8. CASE DrainTest
  BY <1>8 DEF DrainTest, Polled, Empty, RootExited, AtEnd
<1>9. CASE Close \/ Evaluate \/ Return \/ Judge
  BY <1>9 DEF Close, Evaluate, Polled, CleanupComplete, RootExited, AtEnd, Return,
     Judge, Code, OutputCode
<1>10. CASE PopenRaises \/ StartOld \/ CommunicateTimesOut \/ KillTree
            \/ GraceStarts \/ KillRoot
  BY <1>10 DEF PopenRaises, StartOld, Started, Clip, Least, CommunicateTimesOut,
     KillTree, Reachable, Polled, RootExited, GraceStarts, KillRoot
<1>11. CASE Communicate \/ Reap
  BY <1>11 DEF Communicate, Communicated, PipesDone, OldCode, Polled, RootExited, Held,
     Reap
<1>12. CASE \E p \in Procs : End(p)
  BY <1>12 DEF End
<1>13. CASE \E p \in Procs, k \in Kids : Spawn(p, k)
  BY <1>13 DEF Spawn, Free
<1>14. CASE \E p \in Procs, s \in Streams : Write(p, s)
  BY <1>14 DEF Write, Free
<1>15. CASE \E p \in Procs, s \in Streams : LetGo(p, s)
  BY <1>15 DEF LetGo, Free
<1>16. CASE \E value \in {"ok", "refused"} : Answer(value)
  BY <1>16 DEF Answer, Free
<1>17. CASE Tick \/ UNCHANGED vars
  BY <1>17 DEF Tick
<1> QED
  BY <1>1, <1>2, <1>3, <1>4, <1>5, <1>6, <1>7, <1>8, <1>9, <1>10, <1>11, <1>12, <1>13,
     <1>14, <1>15, <1>16, <1>17 DEF Next, World, Bounded, Older

\* The cleanup after a normal exit finds nothing to kill.
LEMMA NormalStep == ASSUME IInv, [Next]_vars PROVE NormalInv'
<1> USE WorkerAssumption
    DEF vars, call, still, limits, objects, output, flags, found, outcome, world, processes,
        IInv, TypeOK, PathInv, ProcessInv, EmptyInv, NormalInv, Over, Running,
        Procs, Opening, Setup, Cleaning, Waiting
<1>1. CASE Raises \/ Proceeds \/ TimesOut \/ CleanupRaises
  BY <1>1 DEF Raises, RootExited, AtEnd, Proceeds, NextInTime, TimesOut, CleanupRaises,
     NextPart
<1>2. CASE Popen
  BY <1>2 DEF Popen, Started
<1>3. CASE CreateScope \/ CreateDrain \/ WriteTask
  BY <1>3 DEF CreateScope, CreateDrain, WriteTask
<1>4. CASE Read
  BY <1>4 DEF Read, DrainStep, Held
<1>5. CASE Test
  BY <1>5 DEF Test, Polled, NormalExit, RootExited, Empty, AtEnd
<1>6. CASE Finally \/ CheckTree \/ MaybeKill \/ Kill \/ DrainCheck
  BY <1>6 DEF Finally, CleanupDeadline, Least, CheckTree, Empty, MaybeKill, Polled,
     MustKill, RootExited, Kill, Victims, DrainCheck
<1>7. CASE DrainRead
  BY <1>7 DEF DrainRead, DrainStep, Held
<1>8. CASE DrainTest
  BY <1>8 DEF DrainTest, Polled, Empty, RootExited, AtEnd
<1>9. CASE Close \/ Evaluate \/ Return \/ Judge
  BY <1>9 DEF Close, Evaluate, Polled, CleanupComplete, RootExited, AtEnd, Return,
     Judge, Code, OutputCode
<1>10. CASE PopenRaises \/ StartOld \/ CommunicateTimesOut \/ KillTree
            \/ GraceStarts \/ KillRoot
  BY <1>10 DEF PopenRaises, StartOld, Started, Clip, Least, CommunicateTimesOut,
     KillTree, Reachable, Polled, RootExited, GraceStarts, KillRoot
<1>11. CASE Communicate \/ Reap
  BY <1>11 DEF Communicate, Communicated, PipesDone, OldCode, Polled, RootExited, Held,
     Reap
<1>12. CASE \E p \in Procs : End(p)
  BY <1>12 DEF End
<1>13. CASE \E p \in Procs, k \in Kids : Spawn(p, k)
  BY <1>13 DEF Spawn, Free
<1>14. CASE \E p \in Procs, s \in Streams : Write(p, s)
  BY <1>14 DEF Write, Free
<1>15. CASE \E p \in Procs, s \in Streams : LetGo(p, s)
  BY <1>15 DEF LetGo, Free
<1>16. CASE \E value \in {"ok", "refused"} : Answer(value)
  BY <1>16 DEF Answer, Free
<1>17. CASE Tick \/ UNCHANGED vars
  BY <1>17 DEF Tick
<1> QED
  BY <1>1, <1>2, <1>3, <1>4, <1>5, <1>6, <1>7, <1>8, <1>9, <1>10, <1>11, <1>12, <1>13,
     <1>14, <1>15, <1>16, <1>17 DEF Next, World, Bounded, Older

\* What a complete cleanup has seen stays so.
LEMMA CleanStep == ASSUME IInv, [Next]_vars PROVE CleanInv'
<1> USE WorkerAssumption
    DEF vars, call, still, limits, objects, output, flags, found, outcome, world, processes,
        IInv, TypeOK, PathInv, ProcessInv, EmptyInv, NormalInv, CleanInv, Over,
        Running, Procs, RootExited, AtEnd, Opening, Setup, Cleaning, Waiting
<1>1. CASE Raises \/ Proceeds \/ TimesOut \/ CleanupRaises
  BY <1>1 DEF Raises, Proceeds, NextInTime, TimesOut, CleanupRaises, NextPart
<1>2. CASE Popen
  BY <1>2 DEF Popen, Started
<1>3. CASE CreateScope \/ CreateDrain \/ WriteTask
  BY <1>3 DEF CreateScope, CreateDrain, WriteTask
<1>4. CASE Read
  BY <1>4 DEF Read, DrainStep, Held
<1>5. CASE Test
  BY <1>5 DEF Test, Polled, NormalExit, Empty
<1>6. CASE Finally \/ CheckTree \/ MaybeKill \/ Kill \/ DrainCheck
  BY <1>6 DEF Finally, CleanupDeadline, Least, CheckTree, Empty, MaybeKill, Polled,
     MustKill, Kill, Victims, DrainCheck
<1>7. CASE DrainRead
  BY <1>7 DEF DrainRead, DrainStep, Held
<1>8. CASE DrainTest
  BY <1>8 DEF DrainTest, Polled, Empty
<1>9. CASE Close \/ Evaluate \/ Return \/ Judge
  BY <1>9 DEF Close, Evaluate, Polled, CleanupComplete, Return, Judge, Code, OutputCode
<1>10. CASE PopenRaises \/ StartOld \/ CommunicateTimesOut \/ KillTree
            \/ GraceStarts \/ KillRoot
  BY <1>10 DEF PopenRaises, StartOld, Started, Clip, Least, CommunicateTimesOut,
     KillTree, Reachable, Polled, GraceStarts, KillRoot
<1>11. CASE Communicate \/ Reap
  BY <1>11 DEF Communicate, Communicated, PipesDone, OldCode, Polled, Held, Reap
<1>12. CASE \E p \in Procs : End(p)
  BY <1>12 DEF End
<1>13. CASE \E p \in Procs, k \in Kids : Spawn(p, k)
  BY <1>13 DEF Spawn, Free
<1>14. CASE \E p \in Procs, s \in Streams : Write(p, s)
  BY <1>14 DEF Write, Free
<1>15. CASE \E p \in Procs, s \in Streams : LetGo(p, s)
  BY <1>15 DEF LetGo, Free
<1>16. CASE \E value \in {"ok", "refused"} : Answer(value)
  BY <1>16 DEF Answer, Free
<1>17. CASE Tick \/ UNCHANGED vars
  BY <1>17 DEF Tick
<1> QED
  BY <1>1, <1>2, <1>3, <1>4, <1>5, <1>6, <1>7, <1>8, <1>9, <1>10, <1>11, <1>12, <1>13,
     <1>14, <1>15, <1>16, <1>17 DEF Next, World, Bounded, Older

\* A call starts with no process and nothing read.
LEMMA InitIInv == ASSUME Init PROVE IInv
<1> USE WorkerAssumption DEF Init, Procs
<1>1. deadline \in Nat /\ pc \in {"prepare", "popen"}
  BY DEF Least
<1>2. TypeOK
  <2>1. /\ holds \in [Procs -> SUBSET Streams]
        /\ life \in [Procs -> {"none", "running", "exited", "reaped"}]
    OBVIOUS
  <2>2. /\ now \in 0..MaxTime /\ cleanupDeadline \in Nat
        /\ bounded \in BOOLEAN /\ platform \in Platforms
    BY <1>1
  <2>3. /\ pc \in Steps /\ result \in Codes
        /\ doomed \subseteq Procs /\ tracked \subseteq Procs
        /\ unread \subseteq Streams /\ eof \subseteq Streams
    BY <1>1 DEF Steps, Codes
  <2>4. /\ answer \in {"none", "ok", "refused"} /\ kept \in {"none", "ok", "refused"}
        /\ returncode \in {0, 1} /\ released \in BOOLEAN /\ scope \in BOOLEAN
        /\ drain \in BOOLEAN /\ timedOut \in BOOLEAN /\ failed \in BOOLEAN
        /\ terminated \in BOOLEAN /\ treeEmpty \in BOOLEAN /\ pipesClosed \in BOOLEAN
        /\ clean \in BOOLEAN
    OBVIOUS
  <2> QED BY <1>1, <2>1, <2>2, <2>3, <2>4 DEF TypeOK
<1>3. PathInv
  BY DEF PathInv, Opening, Setup, Cleaning, Waiting
<1>4. ProcessInv /\ PipeInv
  BY DEF ProcessInv, PipeInv
<1>5. EmptyInv /\ NormalInv /\ CleanInv
  BY DEF EmptyInv, NormalInv, CleanInv, Setup
<1> QED BY <1>2, <1>3, <1>4, <1>5 DEF IInv

\* IInv is inductive: the theorems below are read off it.
THEOREM Invariance == Spec => []IInv
<1>1. IInv /\ [Next]_vars => IInv'
  BY TypeStep, PathStep, ProcessStep, PipeStep, EmptyStep, NormalStep, CleanStep DEF IInv
<1> QED BY InitIInv, <1>1, PTL DEF Spec

\* Types, for the whole call and for the processes around it.
THEOREM TypeCorrect == Spec => []TypeOK
<1>1. IInv => TypeOK
  BY DEF IInv
<1> QED BY Invariance, <1>1, PTL

\* An accepted answer is complete and its worker is over: line 528 of
\* probe_worker_process.py accepts nothing else.
THEOREM OkIsOver == Spec => []OkMeansOver
<1>1. ASSUME IInv PROVE OkMeansOver
  <2> SUFFICES ASSUME bounded, result = "ok" PROVE OkMeansOver
    BY DEF OkMeansOver
  <2>1. pc = "done" /\ clean /\ ~timedOut /\ ~failed /\ returncode = 0
    BY <1>1 DEF IInv, PathInv, CleanInv
  <2>2. Over /\ ~terminated
    BY <1>1, <2>1 DEF IInv, NormalInv, Setup
  <2>3. eof = Streams
    BY <1>1, <2>1, <2>2 DEF IInv, CleanInv, Over, AtEnd
  <2>4. unread = {} /\ kept = answer
    BY <1>1, <2>3 DEF IInv, TypeOK, PipeInv, Streams
  <2> QED BY <2>1, <2>2, <2>4 DEF OkMeansOver, Over, RootExited
<1> QED BY Invariance, <1>1, PTL

\* A caller that is not told of an incomplete cleanup has no process left.
THEOREM NothingIsLeftUntold == Spec => []NothingLeftUntold
<1>1. ASSUME IInv PROVE NothingLeftUntold
  <2> SUFFICES ASSUME bounded, pc = "done", result # "cleanup"
               PROVE  \A p \in tracked \union {Root} : ~Running(p)
    BY DEF NothingLeftUntold
  <2>1. clean
    BY <1>1 DEF IInv, CleanInv
  <2>2. CASE life[Root] = "none"
    BY <1>1, <2>2 DEF IInv, TypeOK, ProcessInv, Running
  <2>3. CASE life[Root] # "none"
    BY <1>1, <2>1, <2>3 DEF IInv, CleanInv, EmptyInv, RootExited, Running
  <2> QED BY <2>2, <2>3
<1> QED BY Invariance, <1>1, PTL

\* The task is written to a child that is tracked, and forks inherit that.
LEMMA TrackingStep ==
  ASSUME IInv, TrackingInv, ~EarlySpawn, [Next]_vars PROVE TrackingInv'
<1> USE WorkerAssumption
    DEF vars, call, still, limits, objects, output, flags, found, outcome, world, processes,
        IInv, TypeOK, PathInv, ProcessInv, TrackingInv, Running, Procs, Opening,
        Setup, Cleaning, Waiting
<1>1. CASE Raises \/ Proceeds \/ TimesOut \/ CleanupRaises
  BY <1>1 DEF Raises, RootExited, AtEnd, Proceeds, NextInTime, TimesOut, CleanupRaises,
     NextPart
<1>2. CASE Popen
  BY <1>2 DEF Popen, Started
<1>3. CASE CreateScope \/ CreateDrain \/ WriteTask
  BY <1>3 DEF CreateScope, CreateDrain, WriteTask
<1>4. CASE Read
  BY <1>4 DEF Read, DrainStep, Held
<1>5. CASE Test
  BY <1>5 DEF Test, Polled, NormalExit, RootExited, Empty, AtEnd
<1>6. CASE Finally \/ CheckTree \/ MaybeKill \/ Kill \/ DrainCheck
  BY <1>6 DEF Finally, CleanupDeadline, Least, CheckTree, Empty, MaybeKill, Polled,
     MustKill, RootExited, Kill, Victims, DrainCheck
<1>7. CASE DrainRead
  BY <1>7 DEF DrainRead, DrainStep, Held
<1>8. CASE DrainTest
  BY <1>8 DEF DrainTest, Polled, Empty, RootExited, AtEnd
<1>9. CASE Close \/ Evaluate \/ Return \/ Judge
  BY <1>9 DEF Close, Evaluate, Polled, CleanupComplete, RootExited, AtEnd, Return,
     Judge, Code, OutputCode
<1>10. CASE PopenRaises \/ StartOld \/ CommunicateTimesOut \/ KillTree
            \/ GraceStarts \/ KillRoot
  BY <1>10 DEF PopenRaises, StartOld, Started, Clip, Least, CommunicateTimesOut,
     KillTree, Reachable, Polled, RootExited, GraceStarts, KillRoot
<1>11. CASE Communicate \/ Reap
  BY <1>11 DEF Communicate, Communicated, PipesDone, OldCode, Polled, RootExited, Held,
     Reap
<1>12. CASE \E p \in Procs : End(p)
  BY <1>12 DEF End
<1>13. CASE \E p \in Procs, k \in Kids : Spawn(p, k)
  BY <1>13 DEF Spawn, Free
<1>14. CASE \E p \in Procs, s \in Streams : Write(p, s)
  BY <1>14 DEF Write, Free
<1>15. CASE \E p \in Procs, s \in Streams : LetGo(p, s)
  BY <1>15 DEF LetGo, Free
<1>16. CASE \E value \in {"ok", "refused"} : Answer(value)
  BY <1>16 DEF Answer, Free
<1>17. CASE Tick \/ UNCHANGED vars
  BY <1>17 DEF Tick
<1> QED
  BY <1>1, <1>2, <1>3, <1>4, <1>5, <1>6, <1>7, <1>8, <1>9, <1>10, <1>11, <1>12, <1>13,
     <1>14, <1>15, <1>16, <1>17 DEF Next, World, Bounded, Older

\* Descendants of a worker that forks only after it has its task are tracked,
\* whatever the platform: the order of lines 487 to 492 suffices.
THEOREM ScopeCoversDescendants ==
  ASSUME ~EarlySpawn PROVE Spec => []DescendantsTracked
<1>1. Init => TrackingInv
  BY DEF Init, TrackingInv, Procs
<1>2. IInv /\ TrackingInv /\ [Next]_vars => TrackingInv'
  BY TrackingStep
<1>3. TrackingInv => DescendantsTracked
  BY DEF TrackingInv, DescendantsTracked
<1> QED BY Invariance, <1>1, <1>2, <1>3, PTL DEF Spec

=============================================================================
