------------------------ MODULE CloseCollectorProofs ------------------------
(* The safety properties of CloseCollector for every number of providers,  *)
(* hosts, workers, requests, attempts and collections.                     *)
EXTENDS CloseCollector, TLAPS

Asking == {"submit", "wait", "cancel", "stop", "join", "gather"}
Begun == {"running", "returning", "done"}

\* The deadline of the transport follows the collection.
Armed ==
  /\ pc \in Asking => timer \in Nat /\ globalDeadline = timer
  /\ pc \notin Asking => globalDeadline = NoTime /\ ~cancelled
  /\ cancelled => now >= timer
  /\ pc # "idle" => deadline \in Deadlines /\ observed <= deadline /\ runs \in Snapshots

\* What became of the providers at each place of the collecting thread.
TasksFollow ==
  /\ pc \in {"idle", "begin"} => \A p \in Provider : task[p] = "new"
  /\ pc \in {"idle", "begin", "submit", "wait"} =>
       completed = {} /\ late = {} /\ \A p \in Provider : task[p] # "cancelled"
  /\ pc \notin {"idle", "begin", "submit"} => \A p \in Provider : task[p] # "new"
  /\ pc \in {"stop", "join", "gather"} \union Publishing => \A p \in Provider : task[p] # "queued"
  /\ pc \in {"gather"} \union Publishing =>
       \A p \in Provider : task[p] \notin {"running", "returning"}
  /\ \A p \in completed : task[p] = "done"
  /\ \A p \in late : task[p] \in Begun
  /\ \A p \in Provider : stage[p] # "out" => task[p] = "running"
  /\ \A p \in Provider : slot[p] # NoTime => stage[p] \in {"asleep", "ready"}
  /\ \A p \in Provider : outcome[p] # "none" => finished[p] # NoTime

\* A provider is passed over, or given up, only when the time is over.
GivenUpInTime ==
  /\ pc \in Asking => \A p \in Provider : task[p] = "skipped" => now >= timer
  /\ pc \in {"cancel", "stop"} /\ completed # Provider => now >= timer

\* Providers are submitted, and begin, in their order.
InOrder ==
  \A p, q \in Provider : rank[p] < rank[q] =>
     /\ task[q] \notin {"new", "skipped"} => task[p] \notin {"new", "skipped"}
     /\ pc \in {"submit", "wait"} /\ task[q] \in Begun => task[p] \in Begun
     /\ q \in completed => task[p] \in Begun

\* The newest slot of a host is not before any other.
SlotsBounded ==
  \A c \in Caller : slot[c] # NoTime =>
     /\ lastHostRequest[hostOf[c]] # NoTime
     /\ slot[c] <= lastHostRequest[hostOf[c]]

\* A snapshot is written only where none is.
FreeFile == pc \in {"write", "replace"} => store[SnapshotId] = NoSnapshot

IInv ==
  TypeOK /\ Armed /\ TasksFollow /\ GivenUpInTime /\ InOrder
         /\ SlotsBounded /\ SlotsApart /\ FreeFile

\* A step of a thread inside request.
Asks(p) == RequestStep(p) /\ UNCHANGED <<pc, runs, localVars, fileVars>>

-----------------------------------------------------------------------------
\* What a step of a thread inside request does to the others: nothing.
LEMMA AsksEffect ==
  ASSUME TypeOK, NEW p \in Provider, Asks(p)
  PROVE  /\ UNCHANGED <<now, globalDeadline, cancelled, pc, runs, localVars, fileVars>>
         /\ stage[p] # "out"
         /\ \E s \in Stages \ {"out"} : stage' = [stage EXCEPT ![p] = s]
  BY DEF Asks, RequestStep, RequestAgain, Attempt, Wake, Send, Answer, Break, To, Checked,
         TypeOK, TransportTypeOK, Stages, Ended

\* The steps of Next, one by one.
LEMMA NextCases ==
  ASSUME [Next]_vars
  PROVE  \/ Collect \/ SetDeadline \/ Submit \/ Wait \/ CancelPending \/ CancelProviders
         \/ Shutdown \/ Gather \/ WriteOnceExists \/ WriteTemporary \/ Replace
         \/ Crash \/ Time
         \/ \E p \in Provider : Start(p) \/ ProviderReturns(p) \/ FutureDone(p) \/ Asks(p)
         \/ UNCHANGED vars
  BY DEF Next, CollectorStep, ThreadStep, Asks

\* What collect leaves when it returns is typed.
LEMMA ReturnTypes ==
  ASSUME Return
  PROVE  /\ pc' \in Places /\ observed' \in 0..MaxTime
         /\ deadline' \in Deadlines \union {NoTime} /\ timer' \in Nat \union {NoTime}
         /\ task' \in [Provider -> Tasks] /\ outcome' \in [Provider -> Outcomes]
         /\ finished' \in [Provider -> 0..MaxTime \union {NoTime}]
         /\ completed' \subseteq Provider /\ late' \subseteq Provider
BY TransportAssumption DEF Return, Blank, Places, Tasks, Outcomes

\* Every variable keeps its type.
LEMMA TypeStep == ASSUME TypeOK, Armed, [Next]_vars PROVE TypeOK'
<1> USE CollectorAssumption, TransportAssumption
        DEF vars, transportVars, threadVars, localVars, fileVars, TypeOK,
            TransportTypeOK, Armed, Asking, Places, Tasks, Outcomes, Snapshots, Ended,
            Stages
<1>1. CASE Collect
  BY <1>1 DEF Collect, Return, Blank
<1>2. CASE SetDeadline
  <2>1. deadline \in Nat /\ observed \in Nat /\ now \in Nat /\ observed <= deadline
    BY <1>2 DEF SetDeadline
  <2>2. now + (deadline - observed) \in Nat
    BY <2>1
  <2> QED BY <1>2, <2>2 DEF SetDeadline, SetGlobalDeadline
<1>3. CASE Submit
  BY <1>3 DEF Submit, New, First
<1>4. CASE Wait
  BY <1>4 DEF Wait, Submitted, Done
<1>5. CASE CancelPending
  <2>1. /\ pc' \in Places
        /\ task' \in [Provider -> Tasks]
        /\ late' \subseteq Provider
    <3>1. \/ pc' = "stop" /\ task' = task /\ late' = late
          \/ \E p \in Pending :
               /\ pc' = pc
               /\ \/ task' = [task EXCEPT ![p] = "cancelled"] /\ late' = late
                  \/ task' = task /\ late' = late \union {p}
      BY ONLY <1>5 DEF CancelPending
    <3>2. Pending \subseteq Provider
      BY ONLY DEF Pending, Submitted
    <3>3. /\ pc \in Places /\ late \subseteq Provider
          /\ task \in [Provider -> Tasks]
      OBVIOUS
    <3> QED
      BY ONLY <3>1, <3>2, <3>3 DEF Places, Tasks
  <2> QED BY <1>5, <2>1 DEF CancelPending
<1>6. CASE CancelProviders
  BY <1>6 DEF CancelProviders, CancelCurrentCollection
<1>7. CASE Shutdown
  BY <1>7 DEF Shutdown, Active
<1>8. CASE Gather
  <2>1. CASE Return
    BY <1>8, <2>1, ReturnTypes DEF Gather, SetGlobalDeadline
  <2>2. CASE ~Return
    BY <1>8, <2>2 DEF Gather, SetGlobalDeadline
  <2> QED BY <2>1, <2>2
<1>9. CASE WriteOnceExists
  BY <1>9 DEF WriteOnceExists, Return, Blank
<1>10. CASE WriteTemporary
  BY <1>10 DEF WriteTemporary, Snapshot
<1>11. CASE Replace
  <2>1. /\ store' \in [Seconds -> Snapshots \union {NoSnapshot}]
        /\ temporary' \in [Seconds -> Snapshots \union {NoSnapshot}]
    <3>1. CASE SnapshotId \in Seconds
      BY <1>11, <3>1 DEF Replace
    <3>2. CASE SnapshotId \notin Seconds
      BY <1>11, <3>2 DEF Replace
    <3> QED BY <3>1, <3>2
  <2> QED BY <1>11, <2>1, ReturnTypes DEF Replace
<1>12. CASE Crash
  <2>1. TransportTypeOK'
    <3>1. 0 \in 0..MaxAttempts
      OBVIOUS
    <3>2. attempt' \in [Caller -> 0..MaxAttempts]
      BY <1>12, <3>1 DEF Crash
    <3>3. now' \in 0..MaxTime
      BY <1>12 DEF Crash
    <3> QED BY <1>12, <3>2, <3>3 DEF Crash
  <2> QED BY <1>12, <2>1, ReturnTypes DEF Crash
<1>13. CASE Time
  BY <1>13 DEF Time, Tick
<1>14. ASSUME NEW p \in Provider, Start(p) \/ ProviderReturns(p) \/ FutureDone(p) \/ Asks(p)
       PROVE TypeOK'
  <2>1. CASE Start(p)
    BY <2>1 DEF Start, Request, To, First, Queued
  <2>2. CASE ProviderReturns(p)
    BY <2>2 DEF ProviderReturns, To
  <2>3. CASE FutureDone(p)
    BY <2>3 DEF FutureDone
  <2>4. CASE Asks(p)
    <3>1. UNCHANGED <<pc, runs, localVars, fileVars>>
      BY <2>4 DEF Asks
    <3>2. TransportTypeOK'
      <4>1. CASE RequestAgain(p)
        BY <4>1 DEF RequestAgain, To, Checked
      <4>2. CASE Attempt(p)
        <5>1. NextSlot(hostOf[p]) \in Nat /\ hostOf[p] \in Host
          BY DEF NextSlot
        <5> QED BY <4>2, <5>1 DEF Attempt, To
      <4>3. CASE Wake(p)
        BY <4>3 DEF Wake, To, Checked
      <4>4. CASE Send(p)
        BY <4>4 DEF Send, To, Checked
      <4>5. CASE Answer(p)
        BY <4>5 DEF Answer, To, Checked
      <4>6. CASE Break(p)
        BY <4>6 DEF Break, To, Checked
      <4> QED BY <2>4, <4>1, <4>2, <4>3, <4>4, <4>5, <4>6 DEF Asks, RequestStep
    <3> QED BY <3>1, <3>2
  <2> QED BY <1>14, <2>1, <2>2, <2>3, <2>4
<1>15. CASE UNCHANGED vars
  BY <1>15
<1> QED BY NextCases, <1>1, <1>2, <1>3, <1>4, <1>5, <1>6, <1>7, <1>8, <1>9, <1>10, <1>11,
            <1>12, <1>13, <1>14, <1>15

\* The transport has the deadline of the collection.
LEMMA ArmedStep == ASSUME IInv, [Next]_vars PROVE Armed'
<1> USE CollectorAssumption, TransportAssumption
        DEF vars, transportVars, threadVars, localVars, fileVars, IInv, TypeOK,
            TransportTypeOK, Armed, TasksFollow, GivenUpInTime, Asking, Snapshots,
            Places
<1>1. CASE Collect
  BY <1>1 DEF Collect, Return, Blank
<1>2. CASE SetDeadline
  BY <1>2 DEF SetDeadline, SetGlobalDeadline
<1>3. CASE Submit
  BY <1>3 DEF Submit, New, First
<1>4. CASE Wait
  BY <1>4 DEF Wait, Submitted, Done
<1>5. CASE CancelPending
  BY <1>5 DEF CancelPending, Pending, Submitted
<1>6. CASE CancelProviders
  BY <1>6 DEF CancelProviders, CancelCurrentCollection
<1>7. CASE Shutdown
  BY <1>7 DEF Shutdown, Active
<1>8. CASE Gather
  BY <1>8 DEF Gather, SetGlobalDeadline, Return, Blank
<1>9. CASE WriteOnceExists
  BY <1>9 DEF WriteOnceExists, Return, Blank
<1>10. CASE WriteTemporary
  BY <1>10 DEF WriteTemporary, Snapshot
<1>11. CASE Replace
  BY <1>11 DEF Replace, Return, Blank
<1>12. CASE Crash
  BY <1>12 DEF Crash, Return, Blank
<1>13. CASE Time
  BY <1>13 DEF Time, Tick
<1>14. ASSUME NEW p \in Provider, Start(p) \/ ProviderReturns(p) \/ FutureDone(p) \/ Asks(p)
       PROVE Armed'
  <2>1. CASE Start(p)
    BY <2>1 DEF Start, Request, To, First, Queued
  <2>2. CASE ProviderReturns(p)
    BY <2>2 DEF ProviderReturns, To
  <2>3. CASE FutureDone(p)
    BY <2>3 DEF FutureDone
  <2>4. CASE Asks(p)
    BY <2>4, AsksEffect
  <2> QED BY <1>14, <2>1, <2>2, <2>3, <2>4
<1>15. CASE UNCHANGED vars
  BY <1>15
<1> QED BY NextCases, <1>1, <1>2, <1>3, <1>4, <1>5, <1>6, <1>7, <1>8, <1>9, <1>10, <1>11,
            <1>12, <1>13, <1>14, <1>15

\* The tasks follow the collecting thread.
LEMMA TasksFollowStep == ASSUME IInv, [Next]_vars PROVE TasksFollow'
<1> USE CollectorAssumption, TransportAssumption
        DEF vars, transportVars, threadVars, localVars, fileVars, IInv, TypeOK,
            TransportTypeOK, TasksFollow, Asking, Begun, Publishing, Tasks, Stages,
            Ended
<1>1. CASE Collect
  BY <1>1 DEF Collect, Return, Blank
<1>2. CASE SetDeadline
  BY <1>2 DEF SetDeadline, SetGlobalDeadline
<1>3. CASE Submit
  BY <1>3 DEF Submit, New, First
<1>4. CASE Wait
  BY <1>4 DEF Wait, Submitted, Done
<1>5. CASE CancelPending
  BY <1>5 DEF CancelPending, Pending, Submitted
<1>6. CASE CancelProviders
  BY <1>6 DEF CancelProviders, CancelCurrentCollection
<1>7. CASE Shutdown
  BY <1>7 DEF Shutdown, Active
<1>8. CASE Gather
  BY <1>8 DEF Gather, SetGlobalDeadline, Return, Blank
<1>9. CASE WriteOnceExists
  BY <1>9 DEF WriteOnceExists, Return, Blank
<1>10. CASE WriteTemporary
  BY <1>10 DEF WriteTemporary, Snapshot
<1>11. CASE Replace
  BY <1>11 DEF Replace, Return, Blank
<1>12. CASE Crash
  BY <1>12 DEF Crash, Return, Blank
<1>13. CASE Time
  BY <1>13 DEF Time, Tick
<1>14. ASSUME NEW p \in Provider, Start(p) \/ ProviderReturns(p) \/ FutureDone(p) \/ Asks(p)
       PROVE TasksFollow'
  <2>1. CASE Start(p)
    BY <2>1 DEF Start, Request, To, First, Queued
  <2>2. CASE ProviderReturns(p)
    BY <2>2 DEF ProviderReturns, To
  <2>3. CASE FutureDone(p)
    BY <2>3 DEF FutureDone
  <2>4. CASE Asks(p)
    BY <2>4, AsksEffect
       DEF Asks, RequestStep, RequestAgain, Attempt, Wake, Send, Answer, Break, To,
           Checked
  <2> QED BY <1>14, <2>1, <2>2, <2>3, <2>4
<1>15. CASE UNCHANGED vars
  BY <1>15
<1> QED BY NextCases, <1>1, <1>2, <1>3, <1>4, <1>5, <1>6, <1>7, <1>8, <1>9, <1>10, <1>11,
            <1>12, <1>13, <1>14, <1>15

\* Nothing is given up early.
LEMMA GivenUpInTimeStep == ASSUME IInv, [Next]_vars PROVE GivenUpInTime'
<1> USE CollectorAssumption, TransportAssumption
        DEF vars, transportVars, threadVars, localVars, fileVars, IInv, TypeOK,
            TransportTypeOK, Armed, TasksFollow, GivenUpInTime, Asking, Tasks
<1>1. CASE Collect
  BY <1>1 DEF Collect, Return, Blank
<1>2. CASE SetDeadline
  BY <1>2 DEF SetDeadline, SetGlobalDeadline
<1>3. CASE Submit
  BY <1>3 DEF Submit, New, First
<1>4. CASE Wait
  BY <1>4 DEF Wait, Submitted, Done
<1>5. CASE CancelPending
  BY <1>5 DEF CancelPending, Pending, Submitted
<1>6. CASE CancelProviders
  BY <1>6 DEF CancelProviders, CancelCurrentCollection
<1>7. CASE Shutdown
  BY <1>7 DEF Shutdown, Active
<1>8. CASE Gather
  BY <1>8 DEF Gather, SetGlobalDeadline, Return, Blank
<1>9. CASE WriteOnceExists
  BY <1>9 DEF WriteOnceExists, Return, Blank
<1>10. CASE WriteTemporary
  BY <1>10 DEF WriteTemporary, Snapshot
<1>11. CASE Replace
  BY <1>11 DEF Replace, Return, Blank
<1>12. CASE Crash
  BY <1>12 DEF Crash, Return, Blank
<1>13. CASE Time
  BY <1>13 DEF Time, Tick
<1>14. ASSUME NEW p \in Provider, Start(p) \/ ProviderReturns(p) \/ FutureDone(p) \/ Asks(p)
       PROVE GivenUpInTime'
  <2>1. CASE Start(p)
    BY <2>1 DEF Start, Request, To, First, Queued
  <2>2. CASE ProviderReturns(p)
    BY <2>2 DEF ProviderReturns, To
  <2>3. CASE FutureDone(p)
    BY <2>3 DEF FutureDone
  <2>4. CASE Asks(p)
    BY <2>4, AsksEffect
  <2> QED BY <1>14, <2>1, <2>2, <2>3, <2>4
<1>15. CASE UNCHANGED vars
  BY <1>15
<1> QED BY NextCases, <1>1, <1>2, <1>3, <1>4, <1>5, <1>6, <1>7, <1>8, <1>9, <1>10, <1>11,
            <1>12, <1>13, <1>14, <1>15

\* The order of the providers is kept.
LEMMA InOrderStep == ASSUME IInv, [Next]_vars PROVE InOrder'
<1> USE CollectorAssumption, TransportAssumption
        DEF vars, transportVars, threadVars, localVars, fileVars, IInv, TypeOK,
            TransportTypeOK, Armed, TasksFollow, GivenUpInTime, InOrder, Asking, Begun,
            Publishing, Tasks
<1>1. CASE Collect
  BY <1>1 DEF Collect, Return, Blank
<1>2. CASE SetDeadline
  BY <1>2 DEF SetDeadline, SetGlobalDeadline
<1>3. CASE Submit
  BY <1>3 DEF Submit, New, First
<1>4. CASE Wait
  BY <1>4 DEF Wait, Submitted, Done
<1>5. CASE CancelPending
  BY <1>5 DEF CancelPending, Pending, Submitted
<1>6. CASE CancelProviders
  BY <1>6 DEF CancelProviders, CancelCurrentCollection
<1>7. CASE Shutdown
  BY <1>7 DEF Shutdown, Active
<1>8. CASE Gather
  BY <1>8 DEF Gather, SetGlobalDeadline, Return, Blank
<1>9. CASE WriteOnceExists
  BY <1>9 DEF WriteOnceExists, Return, Blank
<1>10. CASE WriteTemporary
  BY <1>10 DEF WriteTemporary, Snapshot
<1>11. CASE Replace
  BY <1>11 DEF Replace, Return, Blank
<1>12. CASE Crash
  BY <1>12 DEF Crash, Return, Blank
<1>13. CASE Time
  BY <1>13 DEF Time, Tick
<1>14. ASSUME NEW p \in Provider, Start(p) \/ ProviderReturns(p) \/ FutureDone(p) \/ Asks(p)
       PROVE InOrder'
  <2>1. CASE Start(p)
    BY <2>1 DEF Start, Request, To, First, Queued
  <2>2. CASE ProviderReturns(p)
    BY <2>2 DEF ProviderReturns, To
  <2>3. CASE FutureDone(p)
    BY <2>3 DEF FutureDone
  <2>4. CASE Asks(p)
    BY <2>4, AsksEffect
  <2> QED BY <1>14, <2>1, <2>2, <2>3, <2>4
<1>15. CASE UNCHANGED vars
  BY <1>15
<1> QED BY NextCases, <1>1, <1>2, <1>3, <1>4, <1>5, <1>6, <1>7, <1>8, <1>9, <1>10, <1>11,
            <1>12, <1>13, <1>14, <1>15
\* Slots of one host stay apart, and the newest is known.
LEMMA SlotsStep ==
  ASSUME IInv, [Next]_vars
  PROVE  SlotsBounded' /\ SlotsApart'
<1> USE TransportAssumption, CollectorAssumption
        DEF IInv, TypeOK, TransportTypeOK, SlotsBounded, SlotsApart, vars, transportVars, threadVars
<1>1. CASE UNCHANGED <<slot, lastHostRequest>>
  BY <1>1
<1>2. CASE Crash
  BY <1>2 DEF Crash
<1>3. ASSUME NEW p \in Provider, Asks(p)
      PROVE  SlotsBounded' /\ SlotsApart'
  <2>1. CASE RequestAgain(p) \/ Answer(p) \/ Break(p)
    BY <2>1, <1>1 DEF RequestAgain, Answer, Break
  <2>2. CASE Wake(p)
    BY <2>2 DEF Wake
  <2>3. CASE Send(p)
    BY <2>3 DEF Send
  <2>4. CASE Attempt(p)
    <3> DEFINE h == hostOf[p]
               s == NextSlot(h)
    <3>1. /\ h \in Host /\ s \in Nat
          /\ lastHostRequest[h] # NoTime => s >= lastHostRequest[h] + HostInterval
      BY DEF NextSlot
    <3>2. ASSUME NEW c \in Caller, hostOf[c] = h, slot[c] # NoTime
          PROVE  slot[c] \in Nat /\ slot[c] <= s /\ s >= slot[c] + HostInterval
      BY <3>1, <3>2
    <3>3. CASE UNCHANGED <<slot, lastHostRequest>>
      BY <3>3, <1>1
    <3>4. CASE /\ lastHostRequest' = [lastHostRequest EXCEPT ![h] = s]
               /\ UNCHANGED slot
      BY <3>1, <3>2, <3>4
    <3>5. CASE /\ lastHostRequest' = [lastHostRequest EXCEPT ![h] = s]
               /\ slot' = [slot EXCEPT ![p] = s]
      BY <3>1, <3>2, <3>5
    <3> QED BY <2>4, <3>3, <3>4, <3>5 DEF Attempt
  <2> QED BY <1>3, <2>1, <2>2, <2>3, <2>4 DEF Asks, RequestStep
<1>4. ASSUME NEW p \in Provider, Start(p) \/ ProviderReturns(p) \/ FutureDone(p)
      PROVE  UNCHANGED <<slot, lastHostRequest>>
  BY <1>4 DEF Start, Request, ProviderReturns, FutureDone
<1>5. CASE Collect \/ SetDeadline \/ Submit \/ Wait \/ CancelPending \/ CancelProviders
  BY <1>5, <1>1 DEF Collect, SetDeadline, Submit, Wait, CancelPending, CancelProviders
<1>6. CASE Shutdown \/ Gather \/ WriteOnceExists \/ WriteTemporary \/ Replace \/ Time
  BY <1>6, <1>1 DEF Shutdown, Gather, WriteOnceExists, WriteTemporary, Replace, Time, Tick
<1> QED BY NextCases, <1>1, <1>2, <1>3, <1>4, <1>5, <1>6

\* The file of the collection stays free until it is written.
LEMMA FreeFileStep == ASSUME IInv, [Next]_vars PROVE FreeFile'
<1> USE DEF IInv, FreeFile, SnapshotId, vars, localVars, fileVars
<1>1. ASSUME pc' \in {"write", "replace"}
      PROVE  /\ UNCHANGED <<store, observed>>
             /\ pc \notin {"write", "replace"} => store[SnapshotId] = NoSnapshot
  <2>1. ASSUME NEW p \in Provider, Start(p) \/ ProviderReturns(p) \/ FutureDone(p) \/ Asks(p)
        PROVE  UNCHANGED <<store, observed, pc>>
    BY <2>1 DEF Start, ProviderReturns, FutureDone, Asks
  <2>2. CASE Collect \/ SetDeadline \/ Submit \/ Wait \/ CancelPending \/ CancelProviders
    BY <1>1, <2>2
       DEF Collect, Return, SetDeadline, Submit, Wait, CancelPending, CancelProviders
  <2>3. CASE Shutdown \/ Gather \/ WriteOnceExists \/ WriteTemporary \/ Replace \/ Crash \/ Time
    BY <1>1, <2>3
       DEF Shutdown, Gather, WriteOnceExists, WriteTemporary, Replace, Crash, Return, Time
  <2> QED BY <1>1, <2>1, <2>2, <2>3, NextCases
<1> QED BY <1>1

-----------------------------------------------------------------------------
\* The invariant holds at the start and is kept.
LEMMA Initially == Init => IInv
<1> SUFFICES ASSUME Init PROVE IInv
  OBVIOUS
<1> USE TransportAssumption, CollectorAssumption DEF Init, TransportInit
<1>1. TypeOK
  <2>1. 0 \in 0..MaxTime /\ 0 \in 0..MaxRuns /\ 0 \in 0..MaxAttempts
    OBVIOUS
  <2> QED BY <2>1 DEF TypeOK, TransportTypeOK, Places, Tasks, Outcomes, Stages
<1>2. Armed /\ TasksFollow /\ GivenUpInTime
  BY DEF Armed, TasksFollow, GivenUpInTime, Asking, Publishing
<1>3. InOrder /\ SlotsBounded /\ SlotsApart /\ FreeFile
  BY DEF InOrder, SlotsBounded, SlotsApart, FreeFile, Begun
<1> QED BY <1>1, <1>2, <1>3 DEF IInv

LEMMA Kept == IInv /\ [Next]_vars => IInv'
BY TypeStep, ArmedStep, TasksFollowStep, GivenUpInTimeStep, InOrderStep, SlotsStep, FreeFileStep
   DEF IInv

LEMMA Inductive == Spec => []IInv
BY Initially, Kept, PTL DEF Spec

(* Every variable keeps its type, whatever the providers do.               *)
THEOREM TypeCorrect == Spec => []TypeOK
BY Inductive, PTL DEF IInv

(* Whatever the threads do, the slots they hold on one host stay apart.    *)
THEOREM HostSpacing == Spec => []SlotsApart
BY Inductive, PTL DEF IInv

(* A collection leaves no thread, request, slot, deadline or cancellation. *)
THEOREM CollectionIsContained == Spec => []NothingOutlivesCollect
<1>1. IInv => NothingOutlivesCollect
  BY CollectorAssumption
     DEF IInv, NothingOutlivesCollect, Armed, TasksFollow, TypeOK, TransportTypeOK, Asking,
         Publishing, Places, Collecting, Active, Queued
<1> QED BY <1>1, Inductive, PTL

(* No result is taken when a more important provider was not asked.        *)
THEOREM PriorityIsKept == Spec => []PriorityKept
<1>1. IInv => PriorityKept
  BY DEF IInv, InOrder, PriorityKept, TypeOK, Begun
<1> QED BY <1>1, Inductive, PTL

(* No request is sent after the deadline or after the providers were given *)
(* up.                                                                     *)
THEOREM DeadlineIsObeyed == Spec => NoRequestAfterDeadline
<1> DEFINE Sent(p) == stage[p] # "wire" /\ stage'[p] = "wire"
           Allowed == ~cancelled /\ globalDeadline # NoTime /\ now < globalDeadline
<1>1. ASSUME IInv, [Next]_vars, NEW p \in Provider, Sent(p)
      PROVE  Send(p) /\ ~OutOfTime
  <2> USE CollectorAssumption DEF IInv, TypeOK, TransportTypeOK, vars, transportVars, threadVars
  <2>1. ASSUME NEW q \in Provider, Start(q) \/ ProviderReturns(q) \/ FutureDone(q)
        PROVE  ~Sent(p)
    BY <1>1, <2>1 DEF Start, Request, To, ProviderReturns, FutureDone
  <2>2. CASE Collect \/ SetDeadline \/ Submit \/ Wait \/ CancelPending \/ CancelProviders \/ Crash
    BY <1>1, <2>2 DEF Collect, SetDeadline, Submit, Wait, CancelPending, CancelProviders, Crash
  <2>3. CASE Shutdown \/ Gather \/ WriteOnceExists \/ WriteTemporary \/ Replace \/ Time
    BY <1>1, <2>3 DEF Shutdown, Gather, WriteOnceExists, WriteTemporary, Replace, Time, Tick
  <2>4. CASE UNCHANGED vars
    BY <1>1, <2>4
  <2>5. ASSUME NEW q \in Provider, Asks(q)
        PROVE  Send(p) /\ ~OutOfTime
    <3>1. p = q
      BY <1>1, <2>5, AsksEffect
    <3> QED BY <1>1, <2>5, <3>1
            DEF Asks, RequestStep, RequestAgain, Attempt, Wake, Send, Answer, Break, To, Checked
  <2> QED BY <1>1, <2>1, <2>2, <2>3, <2>4, <2>5, NextCases
<1>2. ASSUME IInv, [Next]_vars
      PROVE  [\A p \in Provider : Sent(p) => Allowed]_vars
  <2> SUFFICES ASSUME NEW p \in Provider, Sent(p) PROVE Allowed
    OBVIOUS
  <2>1. stage[p] = "ready" /\ ~OutOfTime
    BY <1>1, <1>2 DEF Send
  <2>2. task[p] = "running" /\ pc \in Asking
    BY <1>2, <2>1 DEF IInv, TasksFollow, TypeOK, Places, Asking, Publishing
  <2> QED BY <1>2, <2>1, <2>2, TransportAssumption
          DEF IInv, Armed, OutOfTime, TypeOK, TransportTypeOK
<1> QED BY <1>2, Inductive, PTL DEF Spec, NoRequestAfterDeadline

(* A snapshot that was published stays as it is, across crashes too.       *)
THEOREM SnapshotsAreFinal == Spec => SnapshotIsFinal
<1>1. ASSUME IInv, [Next]_vars
      PROVE  [\A s \in Seconds : store[s] # NoSnapshot => store'[s] = store[s]]_vars
  <2> USE DEF IInv, TypeOK, vars, fileVars
  <2>1. CASE Replace
    BY <1>1, <2>1 DEF Replace, FreeFile
  <2>2. ASSUME NEW p \in Provider, Start(p) \/ ProviderReturns(p) \/ FutureDone(p) \/ Asks(p)
        PROVE  UNCHANGED store
    BY <2>2 DEF Start, ProviderReturns, FutureDone, Asks
  <2>3. CASE Collect \/ SetDeadline \/ Submit \/ Wait \/ CancelPending \/ CancelProviders
    BY <2>3 DEF Collect, SetDeadline, Submit, Wait, CancelPending, CancelProviders
  <2>4. CASE Shutdown \/ Gather \/ WriteOnceExists \/ WriteTemporary \/ Crash \/ Time
    BY <2>4 DEF Shutdown, Gather, WriteOnceExists, WriteTemporary, Crash, Time
  <2> QED BY <1>1, <2>1, <2>2, <2>3, <2>4, NextCases
<1> QED BY <1>1, Inductive, PTL DEF Spec, SnapshotIsFinal
=============================================================================
