----------------------------- MODULE JobReconnect -----------------------------
(***************************************************************************)
(* pkg/jobcontroller/jobcontroller.go: how one durable job gets its output *)
(* stream back, and how it ends.  The connection (ConnController) is up or *)
(* down here; the route of the job manager in pkg/wshutil/wshrouter.go is  *)
(* bound or not, and says so with events that are handled some time later. *)
(*                                                                         *)
(* Three calls restart a stream: ReconnectJob and ReconnectJobRoute, one   *)
(* singleflight group each, and RestartBlockStream.  The job's lock in     *)
(* jobReconnectLocks lets one of them in; `at` is how far that one is.     *)
(***************************************************************************)
EXTENDS Naturals, FiniteSets

CONSTANTS
    MaxStream,   \* bound: stream ids told apart at one time
    MaxPending,  \* bound: route events of a kind, and what they start, not done yet
    MaxEvents,   \* bound: what the network, the host and the user do
    MaxFails     \* bound: calls that fail although both ends are up

Stream == 1..MaxStream
Call   == {"ReconnectJob", "ReconnectJobRoute", "RestartBlockStream"}
Nobody == "nobody"

ASSUME BoundAssumption ==
    MaxStream \in Nat \ {0} /\ MaxPending \in Nat \ {0} /\ MaxEvents \in Nat /\ MaxFails \in Nat

VARIABLES
    conn,        \* IsConnected(job.Connection)
    route,       \* the router has a link for the job's route
    alive,       \* the job manager's process exists
    ended,       \* the program has exited and its output has ended
    feed,        \* the stream the job manager sends on, 0 if none
    ups, downs,  \* route events not handled yet
    done,        \* JobManagerStatus is Done
    terminate,   \* TerminateOnReconnect
    exited,      \* CmdExitTs is set
    streamDone,  \* StreamDone
    jobConn,     \* jobConnStates has the job
    health,      \* jobStreamHealth: whether it is active, and for which stream
    cur,         \* jobStreamIds; 0 for the retiring marker or a stream never started
    born,        \* output loops that have not made their first step
    loops,       \* output loops that run
    want,        \* the calls that wait for the lock, or have it
    lock,        \* who has it
    at,          \* how far that call is
    kind,        \* which restart: "stream", "full" or "block"
    autos,       \* attemptAutoReconnect goroutines in their delay
    cool,        \* lastAutoReconnectAttempt is recent
    dirty,       \* actualGen # procGen
    rec,         \* onConnectionUp: "idle", "call", "sleep"
    tries,       \* its retries so far
    trying,      \* a tryTerminateJobManager is about to read the job
    term,        \* a TerminateJobManager waits for its reply
    events, fails,
    excused      \* history: a status was stale, or nobody was left to try again

remoteVars == <<conn, route, alive, ended>>
jobVars    == <<done, terminate, exited, streamDone>>
loopVars   == <<health, born, loops>>
lockVars   == <<want, lock, at, kind>>
recVars    == <<dirty, rec, tries>>
autoVars   == <<autos, cool>>
termVars   == <<trying, term>>
vars == <<remoteVars, feed, ups, downs, jobVars, jobConn, loopVars, cur, lockVars, recVars, autoVars,
          termVars, events, fails, excused>>

\* The types; the lock is free exactly when no call is in its critical section.
TypeOK ==
    /\ {conn, route, alive, ended, done, terminate, exited, streamDone, jobConn} \subseteq BOOLEAN
    /\ {cool, dirty, trying, term, excused} \subseteq BOOLEAN
    /\ feed \in 0..MaxStream /\ cur \in 0..MaxStream
    /\ ups \in 0..MaxPending /\ downs \in 0..MaxPending /\ autos \in 0..MaxPending
    /\ health \in [id : 0..MaxStream, active : BOOLEAN]
    /\ born \subseteq Stream /\ loops \subseteq Stream /\ want \subseteq Call
    /\ lock \in Call \union {Nobody} /\ (lock = Nobody <=> at = "none")
    /\ at \in {"none", "decide", "terminate", "remote", "retire", "prepare", "start", "finish"}
    /\ kind \in {"none", "stream", "full", "block"}
    /\ rec \in {"idle", "call", "sleep"} /\ tries \in 0..3
    /\ events \in 0..MaxEvents /\ fails \in 0..MaxFails

\* A job that streams.
Init ==
    /\ conn = TRUE /\ route = TRUE /\ alive = TRUE /\ ended = FALSE
    /\ feed = 1 /\ cur = 1 /\ loops = {1} /\ born = {} /\ health = [id |-> 1, active |-> TRUE]
    /\ ups = 0 /\ downs = 0 /\ jobConn = TRUE
    /\ done = FALSE /\ terminate = FALSE /\ exited = FALSE /\ streamDone = FALSE
    /\ want = {} /\ lock = Nobody /\ at = "none" /\ kind = "none"
    /\ autos = 0 /\ cool = FALSE /\ dirty = FALSE /\ rec = "idle" /\ tries = 0
    /\ trying = FALSE /\ term = FALSE /\ events = 0 /\ fails = 0 /\ excused = FALSE

\* The terminal works: what the job manager sends is read, and input is taken.
Usable == conn /\ route /\ jobConn /\ feed = cur /\ cur \in loops

-----------------------------------------------------------------------------
(* What the network, the remote host and the user do *)

Happens == events < MaxEvents /\ events' = events + 1

ConnDrops ==
    /\ Happens /\ conn
    /\ conn' = FALSE /\ dirty' = TRUE
    /\ UNCHANGED <<route, alive, ended, rec, tries, want>>

ProgramEnds ==
    /\ Happens /\ ~ended /\ alive
    /\ ended' = TRUE
    /\ UNCHANGED <<conn, route, alive, recVars, want>>

ManagerDies ==
    /\ Happens /\ alive
    /\ alive' = FALSE
    /\ UNCHANGED <<conn, route, ended, recVars, want>>

\* "Reconnect stream", or one of the calls of ReconnectJob outside this file.
UserRestarts ==
    /\ Happens
    /\ \E c \in {"ReconnectJob", "RestartBlockStream"} : want' = want \union {c}
    /\ UNCHANGED <<remoteVars, recVars>>

Disturbs ==
    /\ ConnDrops \/ ProgramEnds \/ ManagerDies \/ UserRestarts
    /\ UNCHANGED <<feed, ups, downs, jobVars, jobConn, loopVars, cur, lock, at, kind, autoVars,
                   termVars, fails>>

\* The block is closed: doTerminateJobManager, up to its remote call.
TerminateRequested ==
    /\ Happens /\ ~done /\ ~term
    /\ terminate' = TRUE /\ term' = TRUE
    /\ UNCHANGED <<remoteVars, feed, ups, downs, done, exited, streamDone, jobConn, loopVars, cur,
                   lockVars, recVars, autoVars, trying, fails>>

\* The links of the connection before are gone when the next one comes up.
ConnReturns ==
    /\ ~conn /\ ~route
    /\ conn' = TRUE /\ dirty' = TRUE
    /\ UNCHANGED <<route, alive, ended, feed, ups, downs, jobVars, jobConn, loopVars, cur, lockVars,
                   rec, tries, autoVars, termVars, events, fails>>

\* The link ends with its connection or its job manager, or by itself:
\* unbindRoute publishes a RouteDown.
RouteDrops ==
    /\ route /\ downs < MaxPending
    /\ route' = FALSE /\ feed' = 0 /\ downs' = downs + 1
    /\ IF conn /\ alive THEN Happens ELSE UNCHANGED events
    /\ UNCHANGED <<conn, alive, ended, ups, jobVars, jobConn, loopVars, cur, lockVars, recVars,
                   autoVars, termVars, fails>>

\* Mutant: the exit handler leaves it to the output loop.
MutExitNotified ==
    /\ ended /\ route /\ ~exited
    /\ exited' = TRUE
    /\ UNCHANGED <<remoteVars, feed, ups, downs, done, terminate, streamDone, jobConn, loopVars, cur,
                   lockVars, recVars, autoVars, termVars, events, fails>>

\* JobCmdExitedCommand arrives.  HandleCmdJobExited writes, then tries.
ExitNotified ==
    /\ ended /\ route /\ ~exited
    /\ exited' = TRUE /\ trying' = TRUE
    /\ UNCHANGED <<remoteVars, feed, ups, downs, done, terminate, streamDone, jobConn, loopVars, cur,
                   lockVars, recVars, autoVars, term, events, fails>>

-----------------------------------------------------------------------------
(* Route events and the reconciliation of the connection *)

\* handleRouteEvent, up: a stream that is not active is restarted.
RouteUpHandled ==
    /\ ups > 0 /\ ups' = ups - 1
    /\ jobConn' = TRUE
    /\ want' = IF health.active THEN want ELSE want \union {"ReconnectJobRoute"}
    /\ UNCHANGED <<remoteVars, feed, downs, jobVars, loopVars, cur, lock, at, kind, recVars,
                   autoVars, termVars, events, fails>>

\* handleRouteEvent, down: a running job is looked after, unless it just was.
RouteDownHandled ==
    /\ downs > 0 /\ downs' = downs - 1 /\ autos < MaxPending
    /\ jobConn' = FALSE
    /\ autos' = IF ~done /\ ~cool THEN autos + 1 ELSE autos
    /\ UNCHANGED <<remoteVars, feed, ups, jobVars, loopVars, cur, lockVars, recVars, cool, termVars,
                   events, fails>>

AttemptAutoReconnect ==
    /\ autos > 0 /\ autos' = autos - 1
    /\ cool' = (cool \/ conn)
    /\ want' = IF conn THEN want \union {"ReconnectJobRoute"} ELSE want
    /\ UNCHANGED <<remoteVars, feed, ups, downs, jobVars, jobConn, loopVars, cur, lock, at, kind,
                   recVars, termVars, events, fails>>

\* The 30 s outlast the events and calls that the attempt causes.
CooldownEnds ==
    /\ cool /\ ups + downs + autos = 0 /\ want = {}
    /\ cool' = FALSE
    /\ UNCHANGED <<remoteVars, feed, ups, downs, jobVars, jobConn, loopVars, cur, lockVars, recVars,
                   autos, termVars, events, fails>>

\* reconcileAllConns starts onConnectionUp or onConnectionDown, one at a time.
ReconcileConn ==
    /\ dirty /\ rec = "idle"
    /\ dirty' = FALSE
    /\ IF conn /\ ~done THEN rec' = "call" /\ want' = want \union {"ReconnectJob"}
                        ELSE UNCHANGED <<rec, want>>
    /\ UNCHANGED <<remoteVars, feed, ups, downs, jobVars, jobConn, loopVars, cur, lock, at, kind,
                   tries, autoVars, termVars, events, fails>>

\* The retries of onConnectionUp, after 3, 6 and 12 seconds.
RetryWakes ==
    /\ rec = "sleep"
    /\ IF ~conn \/ done \/ (jobConn /\ health.active)
       THEN rec' = "idle" /\ tries' = 0 /\ UNCHANGED want
       ELSE rec' = "call" /\ tries' = tries + 1 /\ want' = want \union {"ReconnectJob"}
    /\ UNCHANGED <<remoteVars, feed, ups, downs, jobVars, jobConn, loopVars, cur, lock, at, kind,
                   dirty, autoVars, termVars, events, fails>>

-----------------------------------------------------------------------------
(* The call that has the lock *)

Acquire(c) ==
    /\ lock = Nobody /\ c \in want
    /\ lock' = c /\ at' = "decide"
    /\ UNCHANGED <<remoteVars, feed, ups, downs, jobVars, jobConn, loopVars, cur, want, kind,
                   recVars, autoVars, termVars, events, fails>>

\* Mutant: a path without the unlock.
MutReturn(ok) ==
    /\ at' = "none" /\ want' = want \ {lock} /\ kind' = "none" /\ tries' = 0
    /\ rec' = IF lock = "ReconnectJob" THEN "idle" ELSE rec
    /\ UNCHANGED <<lock, dirty>>

\* The call returns.  Whoever joined its group gets the same result, and only
\* onConnectionUp tries again.
Return(ok) ==
    /\ lock' = Nobody /\ at' = "none" /\ want' = want \ {lock}
    /\ rec' = IF lock # "ReconnectJob" \/ rec # "call" THEN rec
              ELSE IF ~ok /\ tries < 3 THEN "sleep" ELSE "idle"
    /\ kind' = "none" /\ tries' = IF rec' = "sleep" THEN tries ELSE 0
    /\ UNCHANGED dirty

Goto(where) == at' = where /\ UNCHANGED <<want, lock, recVars>>

\* Mutant: a connected job is skipped, whether its stream is active or not.
MutDoReconnectJob ==
    /\ lock # "RestartBlockStream"
    /\ IF ~conn \/ jobConn THEN Return(conn)
       ELSE kind' = "full" /\ Goto(IF terminate THEN "terminate" ELSE "remote")

\* doReconnectJob, up to its first call: the job is read once, here.
DoReconnectJob ==
    /\ lock # "RestartBlockStream"
    /\ IF conn /\ jobConn THEN IF health.active THEN Return(TRUE)
                               ELSE kind' = "stream" /\ Goto("retire")
       ELSE IF ~conn \/ (terminate /\ done) THEN Return(conn)
       ELSE kind' = "full" /\ Goto(IF terminate THEN "terminate" ELSE "remote")

\* restartStreaming for a job that must be connected.
RestartBlockStream ==
    /\ lock = "RestartBlockStream"
    /\ IF conn /\ jobConn THEN kind' = "block" /\ Goto("retire") ELSE Return(FALSE)

Decide ==
    /\ at = "decide"
    /\ UNCHANGED <<remoteVars, feed, ups, downs, jobVars, jobConn, loopVars, cur, autoVars,
                   termVars, events, fails>>
    /\ DoReconnectJob \/ RestartBlockStream

\* A remote call may fail when something it needs is gone, or by itself.
Fails(needed) == IF needed THEN fails < MaxFails /\ fails' = fails + 1 ELSE UNCHANGED fails

Terminated ==
    /\ done' = TRUE /\ terminate' = FALSE /\ streamDone' = TRUE
    /\ alive' = FALSE
    /\ UNCHANGED exited

\* remoteTerminateJobManager, called by doReconnectJob.
TerminateUnderLock ==
    /\ at = "terminate"
    /\ UNCHANGED <<conn, route, ended, feed, ups, downs, jobConn, loopVars, cur, autoVars,
                   termVars, events>>
    /\ \/ conn /\ Terminated /\ Return(TRUE) /\ UNCHANGED fails
       \/ Fails(conn) /\ Return(FALSE) /\ UNCHANGED <<alive, jobVars>>

\* RemoteReconnectToJobManager and WaitForRegister.  The connection server
\* closes the link it has before it makes the new one.
RemoteReconnect ==
    /\ at = "remote"
    /\ UNCHANGED <<conn, alive, ended, terminate, exited, streamDone, jobConn, loopVars, cur,
                   autoVars, termVars, events>>
    /\ \/ /\ conn /\ alive /\ ups < MaxPending /\ (route => downs < MaxPending)
          /\ route' = TRUE /\ ups' = ups + 1
          /\ downs' = IF route THEN downs + 1 ELSE downs
          /\ feed' = 0
          /\ Goto("retire") /\ UNCHANGED <<done, kind, fails>>
       \/ /\ conn /\ ~alive /\ done' = TRUE
          /\ Return(FALSE) /\ UNCHANGED <<route, feed, ups, downs, fails>>
       \/ /\ Fails(conn)
          /\ Return(FALSE) /\ UNCHANGED <<route, feed, ups, downs, done>>

\* retirePrevStream: the marker goes up, the old reader is closed.
Retire ==
    /\ at = "retire"
    /\ cur' = 0
    /\ Goto("prepare")
    /\ UNCHANGED <<remoteVars, feed, ups, downs, jobVars, jobConn, loopVars, kind, autoVars, termVars,
                   events, fails>>

\* A goroutine makes its first step before a remote call returns; an old loop
\* may outlast waitForStreamLoopExit, but not the calls that follow.
OldLoopGone == loops \union born \subseteq {cur}

\* restartStreaming fails: a reconnection leaves the job disconnected.
RestartFails ==
    /\ OldLoopGone
    /\ jobConn' = (jobConn /\ kind = "block") /\ Return(FALSE)

\* A new stream is made, and JobPrepareConnect asks for it.  The reply may say
\* that there is nothing left to stream.
Prepare ==
    /\ at = "prepare" /\ born = {}
    /\ \/ /\ route /\ alive
          /\ LET free == Stream \ (loops \union {feed}) IN free # {} /\ cur' = CHOOSE s \in free : TRUE
          /\ feed' = 0 /\ exited' = (exited \/ ended) /\ trying' = (trying \/ ended)
          /\ IF ended /\ streamDone
             THEN loops = {} /\ jobConn' = (jobConn \/ kind = "full") /\ Return(TRUE)
             ELSE Goto("start") /\ UNCHANGED <<jobConn, kind>>
          /\ UNCHANGED fails
       \/ /\ Fails(route /\ alive)
          /\ RestartFails /\ UNCHANGED <<cur, feed, exited, trying>>
    /\ UNCHANGED <<remoteVars, ups, downs, done, terminate, streamDone, loopVars, autoVars, term,
                   events>>

\* JobStartStream, and the goroutine of the new output loop.
StartStream ==
    /\ at = "start"
    /\ \/ /\ route /\ alive
          /\ feed' = cur /\ born' = born \union {cur}
          /\ Goto("finish") /\ UNCHANGED <<cur, jobConn, kind, fails>>
       \/ /\ Fails(route /\ alive)
          /\ RestartFails /\ cur' = 0 /\ UNCHANGED <<feed, born>>
    /\ UNCHANGED <<remoteVars, ups, downs, jobVars, health, loops, autoVars, termVars, events>>

\* A full reconnection sets the status last.
Finish ==
    /\ at = "finish" /\ OldLoopGone
    /\ jobConn' = (jobConn \/ kind = "full")
    /\ Return(TRUE)
    /\ UNCHANGED <<remoteVars, feed, ups, downs, jobVars, loopVars, cur, autoVars, termVars,
                   events, fails>>

-----------------------------------------------------------------------------
(* runOutputLoop *)

LoopStarts(s) ==
    /\ s \in born
    /\ born' = born \ {s} /\ loops' = loops \union {s}
    /\ health' = [id |-> s, active |-> TRUE]
    /\ UNCHANGED <<remoteVars, feed, ups, downs, jobVars, jobConn, cur, lockVars, recVars, autoVars,
                   termVars, events, fails>>

\* Mutant: the record is cleared whichever stream it is about.
MutLoopReturns(s) ==
    /\ loops' = loops \ {s}
    /\ health' = [id |-> 0, active |-> FALSE]
    /\ UNCHANGED born

\* Mutant: no clean-up.
MutLoopLeaves(s) == loops' = loops \ {s} /\ UNCHANGED <<health, born>>

\* The deferred clean-up: the record is cleared only if it is this stream's.
LoopReturns(s) ==
    /\ loops' = loops \ {s}
    /\ health' = IF health.id = s THEN [id |-> 0, active |-> FALSE] ELSE health
    /\ UNCHANGED born

LoopSuperseded(s) ==
    /\ s \in loops /\ cur # s
    /\ LoopReturns(s)
    /\ UNCHANGED <<remoteVars, feed, ups, downs, jobVars, jobConn, cur, lockVars, recVars, autoVars,
                   termVars, events, fails>>

\* The stream ends: StreamDone is written, then the job is looked at again.
LoopEnds(s) ==
    /\ s \in loops /\ cur = s /\ feed = s /\ route /\ ended
    /\ LoopReturns(s)
    /\ streamDone' = TRUE /\ trying' = TRUE
    /\ UNCHANGED <<remoteVars, feed, ups, downs, done, terminate, exited, jobConn, cur, lockVars,
                   recVars, autoVars, term, events, fails>>

-----------------------------------------------------------------------------
(* The end of the job *)

\* tryTerminateJobManager, by the exit handler, the loop or a restart.
TryTerminateJobManager ==
    /\ trying /\ trying' = FALSE
    /\ IF ~done /\ exited /\ streamDone THEN terminate' = TRUE /\ term' = TRUE
                                        ELSE UNCHANGED <<terminate, term>>
    /\ UNCHANGED <<remoteVars, feed, ups, downs, done, exited, streamDone, jobConn, loopVars, cur,
                   lockVars, recVars, autoVars, events, fails>>

\* The reply to remoteTerminateJobManager, called by doTerminateJobManager.
TerminateReplies ==
    /\ term /\ term' = FALSE
    /\ \/ conn /\ Terminated /\ UNCHANGED fails
       \/ Fails(conn) /\ UNCHANGED <<alive, jobVars>>
    /\ UNCHANGED <<conn, route, ended, feed, ups, downs, jobConn, loopVars, cur, lockVars, recVars,
                   autoVars, trying, events>>

-----------------------------------------------------------------------------
HolderSteps ==
    \/ Decide \/ TerminateUnderLock \/ RemoteReconnect \/ Retire \/ Prepare \/ StartStream \/ Finish
LoopSteps == \E s \in Stream : LoopStarts(s) \/ LoopSuperseded(s) \/ LoopEnds(s)
EventSteps ==
    RouteUpHandled \/ RouteDownHandled \/ AttemptAutoReconnect \/ ReconcileConn \/ RetryWakes
EndSteps == TryTerminateJobManager \/ TerminateReplies

Steps ==
    \/ Disturbs \/ TerminateRequested \/ ConnReturns \/ RouteDrops \/ ExitNotified \/ CooldownEnds
    \/ EventSteps \/ HolderSteps \/ LoopSteps \/ EndSteps
    \/ \E c \in Call : Acquire(c)

\* The status says connected although the news of the lost route is through.
Stale ==
    /\ jobConn' /\ ~route /\ downs = 0
    /\ ups' < ups \/ (at = "finish" /\ lock' = Nobody)

\* A call fails and nobody tries again; or an attempt is left out, because of
\* the cooldown or for one in flight that looked at the job before.
LeftAlone ==
    \/ at \in {"terminate", "remote", "prepare", "start"} /\ lock' = Nobody /\ rec' # "sleep"
    \/ downs' < downs /\ cool
    \/ autos' < autos /\ conn /\ lock = "ReconnectJobRoute"
    \/ rec' = "call" /\ rec # "call" /\ lock = "ReconnectJob"

\* An excuse is over when the terminal works, and when the connection is lost
\* unless the status still says connected.
Remember ==
    excused' = (~Usable' /\ ((excused /\ (conn' \/ jobConn')) \/ Stale \/ LeftAlone))

Next == Steps /\ Remember

\* Goroutines that can run do, a link that has lost its end is noticed, and a
\* call that waits gets the lock.
Fairness ==
    /\ WF_vars(RouteDrops /\ ~(conn /\ alive) /\ Remember)
    /\ WF_vars(EventSteps /\ Remember) /\ WF_vars(HolderSteps /\ Remember)
    /\ WF_vars(LoopSteps /\ Remember) /\ WF_vars(EndSteps /\ Remember)
    /\ \A c \in Call : WF_vars(Acquire(c) /\ Remember)

Spec == Init /\ [][Next]_vars /\ Fairness

-----------------------------------------------------------------------------
\* A stream that is recorded as active has an output loop: the reconnections
\* that are skipped because of the record are not skipped for a ghost.
ActiveHasLoop == health.active => health.id \in loops

\* A terminal that works is not torn down by a reconnection that finds the job
\* connected: the record says so, whatever older loops did to it.
NoNeedlessRestart ==
    [][at = "decide" /\ at' = "retire" /\ kind' = "stream" => ~Usable]_vars

\* A job on a connected host gets a terminal that works again, or is over, or
\* the connection drops.  Nothing else gets in the way but what Stale and
\* LeftAlone name, each of which Converges forbids.
GetsStreamAgain == conn ~> (Usable \/ ~conn \/ done \/ streamDone \/ excused)

\* "After a connection reaches Connected, every job on that connection must
\* reach a terminal state": connected, with its route up and an active stream,
\* or done.  (An output that has ended needs no stream.)
Converges ==
    conn /\ dirty ~> ~conn \/ done \/ streamDone \/ (jobConn /\ route /\ health.active)

\* A program that has exited and whose output has been read to its end has its
\* job manager terminated, or marked for the next reconnection: of the exit
\* handler and the output loop, the one that writes last sees both.
FinishedIsMarked == exited /\ streamDone ~> done \/ terminate
=============================================================================
