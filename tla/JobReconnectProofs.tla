-------------------------- MODULE JobReconnectProofs --------------------------
(***************************************************************************)
(* The stream of one durable job, for every number of streams, events and  *)
(* failures: a stream recorded as active has an output loop, and a         *)
(* terminal that works is never torn down by a reconnection that finds the *)
(* job connected.                                                          *)
(***************************************************************************)
EXTENDS JobReconnect, TLAPS

USE BoundAssumption

-----------------------------------------------------------------------------
\* The loop of the current stream is the one that the record is about; a loop
\* that has not started yet is that of the current stream, or superseded.
LoopInv ==
    /\ loops \subseteq Stream /\ born \subseteq Stream
    /\ ActiveHasLoop
    /\ cur \in loops => health.active /\ health.id = cur
    /\ born \subseteq {cur} \/ cur = 0
    /\ at = "start" => cur \in Stream

\* What the invariant is about does not change.
LEMMA LoopFrame ==
    ASSUME LoopInv, UNCHANGED <<loopVars, cur>>, at' # "start"  \/ at' = at
    PROVE  LoopInv'
  BY DEF LoopInv, ActiveHasLoop, loopVars

\* The holder of the lock lets go.
LEMMA ReturnLeaves ==
    ASSUME NEW ok, Return(ok)
    PROVE  at' = "none"
  BY DEF Return

\* No stream is current when the old one is being retired.
LEMMA Retired ==
    ASSUME LoopInv, UNCHANGED loopVars, cur' = 0, at' # "start"
    PROVE  LoopInv'
  BY DEF LoopInv, ActiveHasLoop, loopVars, Stream

\* The steps of the holder of the lock up to its remote calls.
LEMMA DecideKeepsLoop ==
    ASSUME LoopInv, Decide
    PROVE  LoopInv'
  <1>1. at' # "start"
    BY ReturnLeaves DEF Decide, DoReconnectJob, RestartBlockStream, Goto
  <1> QED BY <1>1, LoopFrame DEF Decide

\* A new stream has an id that no loop has.
LEMMA PrepareKeepsLoop ==
    ASSUME LoopInv, Prepare
    PROVE  LoopInv'
  <1>1. born = {} /\ UNCHANGED loopVars
    BY DEF Prepare
  <1>2. CASE RestartFails /\ cur' = cur
    BY <1>1, <1>2, LoopFrame, ReturnLeaves DEF RestartFails
  <1>3. CASE cur' \in Stream \ loops
    BY <1>1, <1>3 DEF LoopInv, ActiveHasLoop, loopVars
  <1>4. cur' \in Stream \ loops \/ (RestartFails /\ cur' = cur)
    BY DEF Prepare
  <1> QED BY <1>2, <1>3, <1>4

\* The new loop is that of the current stream.
LEMMA StartKeepsLoop ==
    ASSUME LoopInv, StartStream
    PROVE  LoopInv'
  <1>1. UNCHANGED <<health, loops>> /\ at = "start"
    BY DEF StartStream
  <1>2. CASE born' = born \union {cur} /\ Goto("finish") /\ cur' = cur
    BY <1>1, <1>2 DEF LoopInv, ActiveHasLoop, Goto
  <1>3. CASE RestartFails /\ cur' = 0 /\ born' = born
    BY <1>1, <1>3, Retired, ReturnLeaves DEF RestartFails, loopVars
  <1> QED BY <1>2, <1>3 DEF StartStream

\* The holder of the lock.
LEMMA HolderKeepsLoop ==
    ASSUME LoopInv, HolderSteps
    PROVE  LoopInv'
  <1>1. CASE TerminateUnderLock
    BY <1>1, LoopFrame, ReturnLeaves DEF TerminateUnderLock
  <1>2. CASE RemoteReconnect
    BY <1>2, LoopFrame, ReturnLeaves DEF RemoteReconnect, Goto
  <1>3. CASE Retire
    BY <1>3, Retired DEF Retire, Goto
  <1>4. CASE Finish
    BY <1>4, LoopFrame, ReturnLeaves DEF Finish
  <1> QED BY <1>1, <1>2, <1>3, <1>4, DecideKeepsLoop, PrepareKeepsLoop, StartKeepsLoop
          DEF HolderSteps

\* The output loops.
LEMMA LoopsKeepLoop ==
    ASSUME LoopInv, LoopSteps
    PROVE  LoopInv'
  <1>1. ASSUME NEW s \in Stream, LoopStarts(s)
        PROVE  LoopInv'
    BY <1>1 DEF LoopStarts, lockVars, LoopInv, ActiveHasLoop, Stream
  <1>2. ASSUME NEW s \in Stream, LoopReturns(s), UNCHANGED <<cur, lockVars>>
        PROVE  LoopInv'
    BY <1>2 DEF LoopReturns, lockVars, LoopInv, ActiveHasLoop
  <1> QED BY <1>1, <1>2 DEF LoopSteps, LoopSuperseded, LoopEnds

\* Everything else leaves the loops and the current stream alone.
LEMMA OthersKeepLoop ==
    ASSUME LoopInv,
           \/ Disturbs \/ TerminateRequested \/ ConnReturns \/ RouteDrops \/ ExitNotified
           \/ CooldownEnds \/ EventSteps \/ EndSteps \/ \E c \in Call : Acquire(c)
    PROVE  LoopInv'
  <1>1. CASE Disturbs \/ TerminateRequested \/ ConnReturns \/ RouteDrops \/ ExitNotified
             \/ CooldownEnds
    BY <1>1, LoopFrame
       DEF Disturbs, TerminateRequested, ConnReturns, RouteDrops, ExitNotified, CooldownEnds, lockVars
  <1>2. CASE EventSteps
    BY <1>2, LoopFrame
       DEF EventSteps, RouteUpHandled, RouteDownHandled, AttemptAutoReconnect, ReconcileConn,
           RetryWakes, lockVars
  <1>3. CASE EndSteps
    BY <1>3, LoopFrame DEF EndSteps, TryTerminateJobManager, TerminateReplies, lockVars
  <1>4. CASE \E c \in Call : Acquire(c)
    BY <1>4, LoopFrame DEF Acquire
  <1> QED BY <1>1, <1>2, <1>3, <1>4

\* LoopInv holds at first, and always.
LEMMA LoopAlways == Spec => []LoopInv
  <1>1. Init => LoopInv
    BY DEF Init, LoopInv, ActiveHasLoop, Stream
  <1>2. LoopInv /\ [Next]_vars => LoopInv'
    <2> SUFFICES ASSUME LoopInv, [Next]_vars PROVE LoopInv'
      OBVIOUS
    <2>1. CASE Steps
      BY <2>1, HolderKeepsLoop, LoopsKeepLoop, OthersKeepLoop DEF Steps
    <2>2. CASE UNCHANGED vars
      BY <2>2, LoopFrame DEF vars, lockVars
    <2> QED BY <2>1, <2>2 DEF Next
  <1> QED BY <1>1, <1>2, PTL DEF Spec

\* A stream that is recorded as active has an output loop.
THEOREM RecordStandsForLoop == Spec => []ActiveHasLoop
  <1>1. LoopInv => ActiveHasLoop
    BY DEF LoopInv
  <1> QED BY <1>1, LoopAlways, PTL

\* A terminal that works is not torn down by a reconnection that finds the job
\* connected.
THEOREM WorkingStreamIsKept == Spec => NoNeedlessRestart
  <1>1. LoopInv /\ [Next]_vars
            => [at = "decide" /\ at' = "retire" /\ kind' = "stream" => ~Usable]_vars
    <2> SUFFICES ASSUME LoopInv, Next, at = "decide", at' = "retire", kind' = "stream"
                 PROVE  ~Usable
      OBVIOUS
    <2>1. Decide
      BY DEF Next, Steps, Disturbs, TerminateRequested, ConnReturns, RouteDrops, ExitNotified,
             CooldownEnds, EventSteps, RouteUpHandled, RouteDownHandled, AttemptAutoReconnect,
             ReconcileConn, RetryWakes, EndSteps, TryTerminateJobManager, TerminateReplies,
             LoopSteps, LoopStarts, LoopSuperseded, LoopEnds, Acquire, lockVars,
             HolderSteps, TerminateUnderLock, RemoteReconnect, Retire, Prepare, StartStream, Finish
    <2>2. ~RestartBlockStream
      BY ReturnLeaves DEF RestartBlockStream
    <2>3. ~health.active
      BY <2>1, <2>2, ReturnLeaves DEF Decide, DoReconnectJob, Goto
    <2> QED BY <2>3 DEF Usable, LoopInv
  <1> QED BY <1>1, LoopAlways, PTL DEF Spec, NoNeedlessRestart

-----------------------------------------------------------------------------
(* Types, in four parts that the steps disturb separately *)

BoolType ==
    /\ {conn, route, alive, ended, done, terminate, exited, streamDone, jobConn} \subseteq BOOLEAN
    /\ {cool, dirty, trying, term, excused} \subseteq BOOLEAN

StreamType ==
    /\ feed \in 0..MaxStream /\ cur \in 0..MaxStream
    /\ health \in [id : 0..MaxStream, active : BOOLEAN]
    /\ born \subseteq Stream /\ loops \subseteq Stream

LockType ==
    /\ want \subseteq Call /\ lock \in Call \union {Nobody}
    /\ lock = Nobody <=> at = "none"
    /\ at \in {"none", "decide", "terminate", "remote", "retire", "prepare", "start", "finish"}
    /\ kind \in {"none", "stream", "full", "block"}

\* The counters stay inside their bounds; a retry is owed only while there are
\* retries left.
CountType ==
    /\ ups \in 0..MaxPending /\ downs \in 0..MaxPending /\ autos \in 0..MaxPending
    /\ events \in 0..MaxEvents /\ fails \in 0..MaxFails
    /\ rec \in {"idle", "call", "sleep"} /\ tries \in 0..3
    /\ rec = "sleep" => tries < 3

\* Together the parts are the type invariant.
LEMMA TypeParts == BoolType /\ StreamType /\ LockType /\ CountType => TypeOK
  BY DEF TypeOK, BoolType, StreamType, LockType, CountType

\* What each part is about.
boolVars  == <<conn, route, alive, ended, done, terminate, exited, streamDone, jobConn,
               cool, dirty, trying, term>>
streamSet == <<feed, cur, health, born, loops>>
countVars == <<ups, downs, autos, events, fails, rec, tries>>

\* The streams keep their types when nothing of theirs changes.
LEMMA StreamFrame == ASSUME StreamType, UNCHANGED streamSet PROVE StreamType'
  BY DEF StreamType, streamSet

\* So does the lock ...
LEMMA LockFrame == ASSUME LockType, UNCHANGED lockVars PROVE LockType'
  BY DEF LockType, lockVars

\* ... and so do the counters.
LEMMA CountFrame == ASSUME CountType, UNCHANGED countVars PROVE CountType'
  BY DEF CountType, countVars

\* The steps that are not the holder's of the lock, nor a loop's.
Outside ==
    \/ Disturbs \/ TerminateRequested \/ ConnReturns \/ RouteDrops \/ ExitNotified
    \/ CooldownEnds \/ EventSteps \/ EndSteps

\* The streams, under every step.
LEMMA StreamTypeStep ==
    ASSUME StreamType, LoopInv, Steps
    PROVE  StreamType'
  <1>1. CASE Outside \/ \E c \in Call : Acquire(c)
    <2>1. CASE RouteDrops
      BY <2>1 DEF RouteDrops, StreamType, loopVars
    <2>2. UNCHANGED streamSet \/ RouteDrops
      BY <1>1 DEF Outside, Disturbs, TerminateRequested, ConnReturns, ExitNotified,
           CooldownEnds, EventSteps, RouteUpHandled, RouteDownHandled, AttemptAutoReconnect,
           ReconcileConn, RetryWakes, EndSteps, TryTerminateJobManager, TerminateReplies, Acquire,
           streamSet, loopVars
    <2> QED BY <2>1, <2>2, StreamFrame
  <1>2. CASE Decide \/ TerminateUnderLock \/ Finish
    BY <1>2, StreamFrame DEF Decide, TerminateUnderLock, Finish, streamSet, loopVars
  <1>3. CASE RemoteReconnect
    <2>1. feed' \in {0, feed} /\ UNCHANGED <<cur, health, born, loops>>
      BY <1>3 DEF RemoteReconnect, loopVars
    <2> QED BY <2>1 DEF StreamType
  <1>4. CASE Retire
    BY <1>4 DEF Retire, StreamType, loopVars
  <1>5. CASE Prepare
    <2>1. cur' \in 0..MaxStream
      <3>1. cur' \in Stream \/ cur' = cur
        BY <1>5 DEF Prepare
      <3> QED BY <3>1 DEF Stream, StreamType
    <2>2. feed' = 0 \/ feed' = feed
      BY <1>5 DEF Prepare
    <2> QED BY <1>5, <2>1, <2>2 DEF Prepare, StreamType, loopVars
  <1>6. CASE StartStream
    <2>1. cur \in Stream
      BY <1>6 DEF StartStream, LoopInv
    <2>2. /\ cur' \in {0, cur} /\ feed' \in {feed, cur} /\ born' \in {born, born \union {cur}}
          /\ UNCHANGED <<health, loops>>
      BY <1>6 DEF StartStream
    <2> QED BY <2>1, <2>2 DEF StreamType
  <1>7. ASSUME NEW s \in Stream, LoopStarts(s)
        PROVE  StreamType'
    BY <1>7 DEF LoopStarts, StreamType, Stream
  <1>8. ASSUME NEW s \in Stream, LoopReturns(s), UNCHANGED <<feed, cur>>
        PROVE  StreamType'
    BY <1>8 DEF LoopReturns, StreamType
  <1> QED BY <1>1, <1>2, <1>3, <1>4, <1>5, <1>6, <1>7, <1>8
          DEF Steps, Outside, HolderSteps, LoopSteps, LoopSuperseded, LoopEnds

\* The holder of the lock lets go.
LEMMA ReturnLock == ASSUME LockType, NEW ok, Return(ok) PROVE LockType'
  BY DEF LockType, Return

\* The holder goes on to its next call.
LEMMA GotoLock ==
    ASSUME LockType, at # "none", kind' \in {"none", "stream", "full", "block"},
           NEW w \in {"terminate", "remote", "retire", "prepare", "start", "finish"}, Goto(w)
    PROVE  LockType'
  BY DEF LockType, Goto

\* The lock and the calls that want it, under every step.
LEMMA LockTypeStep ==
    ASSUME LockType, Steps
    PROVE  LockType'
  <1>1. CASE Outside
    <2>1. want' \subseteq Call /\ UNCHANGED <<lock, at, kind>>
      <3>1. CASE Disturbs
        BY <3>1 DEF Disturbs, ConnDrops, ProgramEnds, ManagerDies, UserRestarts, LockType, Call
      <3>2. CASE TerminateRequested \/ ConnReturns \/ RouteDrops \/ ExitNotified \/ CooldownEnds
                 \/ EndSteps
        BY <3>2 DEF TerminateRequested, ConnReturns, RouteDrops, ExitNotified, CooldownEnds, EndSteps,
                    TryTerminateJobManager, TerminateReplies, lockVars, LockType
      <3>3. CASE EventSteps
        BY <3>3 DEF EventSteps, RouteUpHandled, RouteDownHandled, AttemptAutoReconnect,
                    ReconcileConn, RetryWakes, lockVars, LockType, Call
      <3> QED BY <1>1, <3>1, <3>2, <3>3 DEF Outside
    <2> QED BY <2>1 DEF LockType
  <1>2. CASE LoopSteps
    BY <1>2, LockFrame DEF LoopSteps, LoopStarts, LoopSuperseded, LoopEnds
  <1>3. ASSUME NEW c \in Call, Acquire(c)
        PROVE  LockType'
    BY <1>3 DEF Acquire, LockType, Call, Nobody
  <1>4. CASE HolderSteps
    <2>1. \/ \E ok : Return(ok)
          \/ /\ kind' \in {"stream", "full", "block", kind}
             /\ \E w \in {"terminate", "remote", "retire", "prepare", "start", "finish"} : Goto(w)
      BY <1>4 DEF HolderSteps, Decide, DoReconnectJob, RestartBlockStream, TerminateUnderLock,
                  RemoteReconnect, Retire, Prepare, StartStream, Finish, RestartFails
    <2>2. at # "none"
      BY <1>4 DEF HolderSteps, Decide, TerminateUnderLock, RemoteReconnect, Retire, Prepare,
                  StartStream, Finish
    <2>3. kind \in {"none", "stream", "full", "block"}
      BY DEF LockType
    <2> QED BY <2>1, <2>2, <2>3, ReturnLock, GotoLock
  <1> QED BY <1>1, <1>2, <1>3, <1>4 DEF Steps, Outside

\* The retries, when the holder of the lock lets go.
LEMMA ReturnCount ==
    ASSUME CountType, NEW ok, Return(ok)
    PROVE  rec' \in {"idle", "call", "sleep"} /\ tries' \in 0..3 /\ (rec' = "sleep" => tries' < 3)
  BY DEF CountType, Return

\* A bounded counter goes up, ...
LEMMA Up == ASSUME NEW m \in Nat, NEW n \in 0..m, n < m PROVE n + 1 \in 0..m
  OBVIOUS

\* ... down.
LEMMA Down == ASSUME NEW m \in Nat, NEW n \in 0..m, n > 0 PROVE n - 1 \in 0..m
  OBVIOUS

\* A remote call that fails is counted.
LEMMA FailsCount == ASSUME CountType, NEW b, Fails(b) PROVE fails' \in 0..MaxFails
  BY Up DEF CountType, Fails

\* The counters, under every step.
LEMMA CountTypeStep ==
    ASSUME CountType, Steps
    PROVE  CountType'
  <1> USE DEF CountType
  <1>1. CASE Disturbs \/ TerminateRequested
    <2>1. events' \in 0..MaxEvents
      BY <1>1, Up DEF Disturbs, ConnDrops, ProgramEnds, ManagerDies, UserRestarts,
                      TerminateRequested, Happens
    <2>2. UNCHANGED <<ups, downs, autos, fails, rec, tries>>
      BY <1>1 DEF Disturbs, ConnDrops, ProgramEnds, ManagerDies, UserRestarts,
                  TerminateRequested, autoVars, recVars
    <2> QED BY <2>1, <2>2
  <1>2. CASE RouteDrops
    <2>1. events' \in 0..MaxEvents /\ downs' \in 0..MaxPending
      BY <1>2, Up DEF RouteDrops, Happens
    <2>2. UNCHANGED <<ups, autos, fails, rec, tries>>
      BY <1>2 DEF RouteDrops, autoVars, recVars
    <2> QED BY <2>1, <2>2
  <1>3. CASE ConnReturns \/ ExitNotified \/ CooldownEnds \/ LoopSteps \/ (\E c \in Call : Acquire(c))
    BY <1>3, CountFrame
       DEF ConnReturns, ExitNotified, CooldownEnds, LoopSteps, LoopStarts, LoopSuperseded, LoopEnds,
           Acquire, autoVars, recVars, countVars
  <1>4. CASE RouteUpHandled
    <2>1. ups' \in 0..MaxPending
      BY <1>4, Down DEF RouteUpHandled
    <2> QED BY <1>4, <2>1 DEF RouteUpHandled, autoVars, recVars
  <1>5. CASE RouteDownHandled
    <2>1. downs' \in 0..MaxPending /\ autos' \in 0..MaxPending
      BY <1>5, Up, Down DEF RouteDownHandled
    <2> QED BY <1>5, <2>1 DEF RouteDownHandled, recVars
  <1>6. CASE AttemptAutoReconnect
    <2>1. autos' \in 0..MaxPending
      BY <1>6, Down DEF AttemptAutoReconnect
    <2> QED BY <1>6, <2>1 DEF AttemptAutoReconnect, recVars
  <1>7. CASE ReconcileConn
    BY <1>7 DEF ReconcileConn, autoVars
  <1>8. CASE RetryWakes
    <2>1. tries' \in 0..3 /\ rec' \in {"idle", "call"}
      BY <1>8 DEF RetryWakes
    <2> QED BY <1>8, <2>1 DEF RetryWakes, autoVars
  <1>9. CASE TryTerminateJobManager
    BY <1>9 DEF TryTerminateJobManager, autoVars, recVars
  <1>10. CASE TerminateReplies
    BY <1>10, FailsCount DEF TerminateReplies, autoVars, recVars
  <1>11. CASE Decide \/ Retire \/ Finish
    <2>1. UNCHANGED <<ups, downs, autos, events, fails>>
      BY <1>11 DEF Decide, Retire, Finish, autoVars
    <2>2. UNCHANGED <<rec, tries>> \/ \E ok : Return(ok)
      BY <1>11 DEF Decide, DoReconnectJob, RestartBlockStream, Retire, Finish, Goto, recVars
    <2> QED BY <2>1, <2>2, ReturnCount
  <1>12. CASE TerminateUnderLock \/ Prepare \/ StartStream
    <2>1. UNCHANGED <<ups, downs, autos, events>>
      BY <1>12 DEF TerminateUnderLock, Prepare, StartStream, autoVars
    <2>2. UNCHANGED <<rec, tries>> \/ \E ok : Return(ok)
      BY <1>12 DEF TerminateUnderLock, Prepare, StartStream, RestartFails, Goto, recVars
    <2>3. fails' = fails \/ \E b : Fails(b)
      BY <1>12 DEF TerminateUnderLock, Prepare, StartStream
    <2> QED BY <2>1, <2>2, <2>3, ReturnCount, FailsCount
  <1>13. CASE RemoteReconnect
    <2>1. UNCHANGED <<autos, events>>
      BY <1>13 DEF RemoteReconnect, autoVars
    <2>2. UNCHANGED <<rec, tries>> \/ \E ok : Return(ok)
      BY <1>13 DEF RemoteReconnect, Goto, recVars
    <2>3. fails' = fails \/ \E b : Fails(b)
      BY <1>13 DEF RemoteReconnect
    <2>4. ups' \in 0..MaxPending /\ downs' \in 0..MaxPending
      <3>1. ups' = ups \/ (ups < MaxPending /\ ups' = ups + 1)
        BY <1>13 DEF RemoteReconnect
      <3>2. downs' = downs \/ (downs < MaxPending /\ downs' = downs + 1)
        BY <1>13 DEF RemoteReconnect
      <3> QED BY <3>1, <3>2, Up
    <2> QED BY <2>1, <2>2, <2>3, <2>4, ReturnCount, FailsCount
  <1> QED BY <1>1, <1>2, <1>3, <1>4, <1>5, <1>6, <1>7, <1>8, <1>9, <1>10, <1>11, <1>12, <1>13
          DEF Steps, HolderSteps, EventSteps, EndSteps

\* The flags, under every step.
LEMMA BoolTypeStep ==
    ASSUME BoolType, Steps, Remember
    PROVE  BoolType'
  <1> USE DEF BoolType
  <1>1. excused' \in BOOLEAN
    BY DEF Remember
  <1>2. CASE Disturbs
    BY <1>1, <1>2 DEF Disturbs, ConnDrops, ProgramEnds, ManagerDies, UserRestarts, Happens,
                      remoteVars, recVars, jobVars, autoVars, termVars
  <1>3. CASE TerminateRequested \/ ConnReturns \/ RouteDrops
    BY <1>1, <1>3 DEF TerminateRequested, ConnReturns, RouteDrops,
                      remoteVars, recVars, jobVars, autoVars, termVars
  <1>4. CASE ExitNotified \/ CooldownEnds \/ LoopSteps \/ (\E c \in Call : Acquire(c))
    BY <1>1, <1>4 DEF ExitNotified, CooldownEnds, LoopSteps, LoopStarts, LoopSuperseded, LoopEnds,
                      Acquire, remoteVars, recVars, jobVars, autoVars, termVars
  <1>5. CASE EventSteps
    BY <1>1, <1>5 DEF EventSteps, RouteUpHandled, RouteDownHandled, AttemptAutoReconnect,
                      ReconcileConn, RetryWakes, remoteVars, recVars, jobVars, autoVars, termVars
  <1>6. CASE EndSteps
    BY <1>1, <1>6 DEF EndSteps, TryTerminateJobManager, TerminateReplies, Terminated, remoteVars,
                      recVars, jobVars, autoVars
  <1>7. ASSUME HolderSteps
        PROVE  dirty' = dirty
    BY <1>7 DEF HolderSteps, Decide, DoReconnectJob, RestartBlockStream, TerminateUnderLock,
                RemoteReconnect, Retire, Prepare, StartStream, Finish, RestartFails, Return, Goto,
                recVars
  <1>8. CASE Decide \/ Retire \/ Finish
    BY <1>1, <1>7, <1>8 DEF HolderSteps, Decide, Retire, Finish, remoteVars, jobVars, autoVars, termVars
  <1>9. CASE TerminateUnderLock
    BY <1>1, <1>7, <1>9 DEF HolderSteps, TerminateUnderLock, Terminated, jobVars, autoVars, termVars
  <1>10. CASE RemoteReconnect
    BY <1>1, <1>7, <1>10 DEF HolderSteps, RemoteReconnect, autoVars, termVars
  <1>11. CASE Prepare
    BY <1>1, <1>7, <1>11 DEF HolderSteps, Prepare, RestartFails, remoteVars, autoVars
  <1>12. CASE StartStream
    BY <1>1, <1>7, <1>12 DEF HolderSteps, StartStream, RestartFails, remoteVars, jobVars, autoVars, termVars
  <1> QED BY <1>2, <1>3, <1>4, <1>5, <1>6, <1>8, <1>9, <1>10, <1>11, <1>12 DEF Steps, HolderSteps

\* The job's state keeps its types; the lock is free exactly when no call is in
\* its critical section.
THEOREM TypeCorrect == Spec => []TypeOK
  <1> DEFINE Parts == BoolType /\ StreamType /\ LockType /\ CountType
  <1>1. Init => Parts
    <2> SUFFICES ASSUME Init PROVE Parts
      OBVIOUS
    <2> USE BoundAssumption
    <2>1. BoolType
      BY DEF Init, BoolType
    <2>2. StreamType
      <3>1. 1 \in Stream /\ 0 \in 0..MaxStream /\ 1 \in 0..MaxStream
        BY DEF Stream
      <3> QED BY <3>1 DEF Init, StreamType
    <2>3. LockType
      BY DEF Init, LockType, Call, Nobody
    <2>4. CountType
      BY DEF Init, CountType
    <2> QED BY <2>1, <2>2, <2>3, <2>4
  <1>2. Parts /\ LoopInv /\ [Next]_vars => Parts'
    <2> SUFFICES ASSUME Parts, LoopInv, [Next]_vars PROVE Parts'
      OBVIOUS
    <2>1. CASE Next
      BY <2>1, BoolTypeStep, StreamTypeStep, LockTypeStep, CountTypeStep DEF Next
    <2>2. CASE UNCHANGED vars
      <3>1. BoolType'
        BY <2>2 DEF BoolType, vars, remoteVars, jobVars, autoVars, termVars, recVars
      <3>2. UNCHANGED streamSet /\ UNCHANGED lockVars /\ UNCHANGED countVars
        BY <2>2 DEF vars, streamSet, lockVars, countVars, loopVars, recVars, autoVars
      <3> QED BY <3>1, <3>2, StreamFrame, LockFrame, CountFrame
    <2> QED BY <2>1, <2>2
  <1>3. Parts => TypeOK
    BY TypeParts
  <1> QED BY <1>1, <1>2, <1>3, LoopAlways, PTL DEF Spec
=============================================================================
