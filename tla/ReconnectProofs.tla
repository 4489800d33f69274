--------------------------- MODULE ReconnectProofs ---------------------------
(***************************************************************************)
(* One connection, its callers and its reconnect schedulers, for every set *)
(* of callers, number of clients and bound on the disturbances: the flag   *)
(* stands for a scheduler, the status tells the truth whenever             *)
(* lifecycleLock is free, nothing but a cause takes a connection down, and *)
(* Stop is obeyed.                                                         *)
(***************************************************************************)
EXTENDS ReconnectScheduler, TLAPS

USE CallerAssumption, BoundAssumption

-----------------------------------------------------------------------------
(* The flag of the scheduler *)

\* The states of the schedulers.
SchedType == sched \in [Scheduler -> {"off", "check", "attempt", "sleep", "exit"}]

SchedInv == SchedType /\ EntryHasScheduler

\* A scheduler that does not go off keeps what the flag stands for.
LEMMA GotoKeeps ==
    ASSUME SchedInv, NEW s \in Scheduler, NEW w \in {"check", "attempt", "sleep", "exit"},
           Goto(s, w), entry' = entry
    PROVE  SchedInv'
  BY DEF SchedInv, SchedType, EntryHasScheduler, Goto

\* A launched scheduler is one the flag stands for.
LEMMA LaunchKeeps ==
    ASSUME SchedInv, Launch
    PROVE  SchedInv'
  BY DEF SchedInv, SchedType, EntryHasScheduler, Launch

\* The flag goes down.
LEMMA FlagDown ==
    ASSUME SchedInv, entry' = FALSE, sched' = sched
    PROVE  SchedInv'
  BY DEF SchedInv, SchedType, EntryHasScheduler

\* Neither changes.
LEMMA FlagStays ==
    ASSUME SchedInv, UNCHANGED <<entry, sched>>
    PROVE  SchedInv'
  BY DEF SchedInv, SchedType, EntryHasScheduler

\* The loop of a scheduler.
LEMMA RunsKeepFlag ==
    ASSUME SchedInv, NEW s \in Scheduler, Runs(s)
    PROVE  SchedInv'
  <1>1. CASE SchedulerChecks(s)
    <2>1. PICK w \in {"attempt", "exit"} : Goto(s, w)
      BY <1>1 DEF SchedulerChecks
    <2> QED BY <1>1, <2>1, GotoKeeps DEF SchedulerChecks
  <1>2. CASE SchedulerAttempts(s)
    BY <1>2, FlagStays DEF SchedulerAttempts, svars
  <1>3. CASE SchedulerLearns(s)
    <2>1. PICK w \in {"sleep", "exit"} : Goto(s, w)
      BY <1>3 DEF SchedulerLearns
    <2> QED BY <1>3, <2>1, GotoKeeps DEF SchedulerLearns
  <1>4. CASE SchedulerWakes(s)
    BY <1>4, GotoKeeps DEF SchedulerWakes
  <1>5. CASE SchedulerExits(s)
    BY <1>5 DEF SchedulerExits, Goto, SchedInv, SchedType, EntryHasScheduler
  <1>6. CASE Alone(WaitedForConnect(s)) \/ Enters(s)
    BY <1>6, FlagStays DEF Alone, Enters, svars
  <1> QED BY <1>1, <1>2, <1>3, <1>4, <1>5, <1>6 DEF Runs

\* The steps of the callers, of the clients and of the hysteresis.
LEMMA OthersKeepFlag ==
    ASSUME SchedInv, AttemptSteps \/ CallerSteps \/ ClientSteps \/ Hysteresis
    PROVE  SchedInv'
  <1>1. CASE AttemptSteps
    BY <1>1, FlagStays DEF AttemptSteps, Alone, svars
  <1>2. CASE CallerSteps
    <2>1. CASE StartsLate
      BY <2>1, LaunchKeeps DEF StartsLate
    <2>2. CASE UserCloses \/ UserStops
      BY <2>2, FlagDown DEF UserCloses, UserStops
    <2>3. CASE ResumeCloses \/ ResumeAttempts
      BY <2>3, FlagStays DEF ResumeCloses, ResumeAttempts
    <2>4. CASE UNCHANGED svars
      BY <2>4, FlagStays DEF svars
    <2> QED BY <1>2, <2>1, <2>2, <2>3, <2>4 DEF CallerSteps, Alone, Enters
  <1>3. CASE ClientSteps
    BY <1>3, FlagStays DEF ClientSteps, Alone, svars
  <1>4. CASE Hysteresis
    <2>1. CASE Alone(HysteresisHealed)
      BY <2>1, FlagStays DEF Alone, svars
    <2>2. CASE HysteresisKicks
      BY <2>2, LaunchKeeps, FlagStays DEF HysteresisKicks, StartReconnectScheduler
    <2> QED BY <1>4, <2>1, <2>2 DEF Hysteresis
  <1> QED BY <1>1, <1>2, <1>3, <1>4

\* What the user, the network and the system do.
LEMMA DisturbancesKeepFlag ==
    ASSUME SchedInv, Disturbances
    PROVE  SchedInv'
  <1>1. CASE SystemResumes
    BY <1>1, FlagDown DEF SystemResumes
  <1>2. CASE JobsChange \/ StartRequested
    BY <1>2, FlagStays DEF JobsChange, StartRequested
  <1>3. CASE UNCHANGED svars
    BY <1>3, FlagStays DEF svars
  <1> QED BY <1>1, <1>2, <1>3 DEF Disturbances, Alone

\* SchedInv holds at first, and always.
LEMMA SchedAlways == Spec => []SchedInv
  <1>1. Init => SchedInv
    BY DEF Init, SchedInv, SchedType, EntryHasScheduler
  <1>2. SchedInv /\ [Next]_vars => SchedInv'
    <2> SUFFICES ASSUME SchedInv, [Next]_vars PROVE SchedInv'
      OBVIOUS
    <2>1. CASE Works(AttemptSteps) \/ Works(CallerSteps) \/ Works(ClientSteps) \/ Works(Hysteresis)
      BY <2>1, OthersKeepFlag DEF Works
    <2>2. CASE \E s \in Scheduler : Works(Runs(s))
      BY <2>2, RunsKeepFlag DEF Works
    <2>3. CASE Disturbances
      BY <2>3, DisturbancesKeepFlag
    <2>4. CASE UNCHANGED vars
      BY <2>4, FlagStays DEF vars, svars
    <2> QED BY <2>1, <2>2, <2>3, <2>4 DEF Next
  <1> QED BY <1>1, <1>2, PTL DEF Spec

\* The flag that keeps a second scheduler from starting stands for one.
THEOREM FlagStandsForScheduler == Spec => []EntryHasScheduler
  <1>1. SchedInv => EntryHasScheduler
    BY DEF SchedInv
  <1> QED BY <1>1, SchedAlways, PTL

-----------------------------------------------------------------------------
(* The status and the client *)

\* While somebody is in Connect the connection is not up, and has a client from
\* the end of the dial to the end of the attempt; otherwise nobody is halfway.
LockInv ==
    /\ LockFree <=> stage = "none"
    /\ LockFree => status # "connecting"
    /\ ClientMatchesStatus
    /\ ~LockFree => status # "connected"
    /\ stage \in {"begun", "dial"} => client = 0
    /\ stage = "wsh" => client # 0

\* What the invariant is about does not change.
LEMMA LockFrame ==
    ASSUME LockInv, UNCHANGED <<status, client, holder, stage>>
    PROVE  LockInv'
  BY DEF LockInv, LockFree, ClientMatchesStatus

\* The connection loses its client while lifecycleLock is free.
LEMMA LockLoses ==
    ASSUME LockInv, LockFree, client' = 0, status' \notin {"connected", "connecting"},
           UNCHANGED <<holder, stage>>
    PROVE  LockInv'
  BY DEF LockInv, LockFree, ClientMatchesStatus

\* An attempt begins, with no client.
LEMMA LockBegins ==
    ASSUME LockInv, NEW c \in Caller, Begin(c), client' = 0
    PROVE  LockInv'
  BY DEF LockInv, LockFree, ClientMatchesStatus, Begin

\* A closed connection is not up.
LEMMA Closed ==
    ASSUME LockInv, LockFree, status' = IF Alive THEN "disconnected" ELSE status
    PROVE  status' \notin {"connected", "connecting"}
  BY DEF LockInv, Alive

\* The steps of Connect.
LEMMA AttemptKeepsLock ==
    ASSUME LockInv, AttemptSteps
    PROVE  LockInv'
  <1>1. CASE ConnectArms
    BY <1>1 DEF ConnectArms, clientVars, LockInv, LockFree, ClientMatchesStatus
  <1>2. CASE DialSucceeds
    <2>1. client' \in Client
      BY <1>2 DEF DialSucceeds
    <2>2. client' # 0
      BY <2>1 DEF Client
    <2> QED BY <1>2, <2>2 DEF DialSucceeds, LockInv, LockFree, ClientMatchesStatus
  <1>3. CASE ConnectSucceeds
    BY <1>3 DEF ConnectSucceeds, Leave, clientVars, LockInv, LockFree, ClientMatchesStatus
  <1>4. ASSUME NEW err \in DialErrors \union {"transient"}, ConnectFails(err)
        PROVE  LockInv'
    <2>1. stage # "none" /\ status' = IF status = "connecting" THEN "error" ELSE status
      BY <1>4 DEF ConnectFails
    <2>2. client' = 0 /\ holder' = Nobody /\ stage' = "none"
      BY <1>4 DEF ConnectFails, CloseResources, Leave
    <2> QED BY <2>1, <2>2 DEF LockInv, LockFree, ClientMatchesStatus
  <1> QED BY <1>1, <1>2, <1>3, <1>4 DEF AttemptSteps, Alone

\* A caller who gets lifecycleLock.
LEMMA EntersKeepsLock ==
    ASSUME LockInv, NEW c \in Caller, Enters(c)
    PROVE  LockInv'
  <1>1. CASE ConnectBegins(c)
    <2>1. client' = 0
      BY <1>1 DEF ConnectBegins, clientVars, LockInv, ClientMatchesStatus, Alive
    <2> QED BY <1>1, <2>1, LockBegins DEF ConnectBegins
  <1>2. CASE ConnectRefused(c)
    BY <1>2, LockFrame DEF ConnectRefused, attemptVars, clientVars
  <1> QED BY <1>1, <1>2 DEF Enters, Alone

\* The callers' own steps, and the user's Close and Stop.
LEMMA CallersKeepLock ==
    ASSUME LockInv, CallerSteps
    PROVE  LockInv'
  <1>1. CASE \E c \in OneShot : Enters(c)
    BY <1>1, EntersKeepsLock
  <1>2. CASE EnsureRetries \/ RepromptAnswered \/ ForceNoOp \/ WaitedForConnect(Resume)
    BY <1>2, LockFrame
       DEF EnsureRetries, RepromptAnswered, ForceNoOp, WaitedForConnect, attemptVars, clientVars
  <1>3. CASE StartsLate \/ ResumeAttempts
    BY <1>3, LockFrame DEF StartsLate, ResumeAttempts, cvars, attemptVars, clientVars
  <1>4. CASE ForceBegins
    <2>1. User \in Caller
      BY DEF OneShot
    <2>2. client' = 0
      BY <1>4 DEF ForceBegins, CloseResources, LockInv, ClientMatchesStatus, Alive
    <2> QED BY <1>4, <2>1, <2>2, LockBegins DEF ForceBegins
  <1>5. CASE UserCloses
    BY <1>5, Closed, LockLoses DEF UserCloses, Close, CloseResources, attemptVars
  <1>6. CASE UserStops
    BY <1>6, LockFrame DEF UserStops, PauseAborts, clientVars
  <1>7. CASE ResumeCloses
    BY <1>7, Closed, LockLoses DEF ResumeCloses, CloseInvoluntary, CloseResources, attemptVars
  <1> QED BY <1>1, <1>2, <1>3, <1>4, <1>5, <1>6, <1>7 DEF CallerSteps, Alone

\* The end of a client.
LEMMA ClientsKeepLock ==
    ASSUME LockInv, ClientSteps
    PROVE  LockInv'
  <1>1. CASE StallCloses
    BY <1>1, Closed, LockLoses DEF StallCloses, CloseInvoluntary, CloseResources, attemptVars
  <1>2. ASSUME NEW k \in Client, WaiterStale(k)
        PROVE  LockInv'
    BY <1>2, LockFrame DEF WaiterStale, attemptVars
  <1>3. ASSUME NEW k \in Client, WaiterDisconnects(k)
        PROVE  LockInv'
    <2>1. status' \notin {"connected", "connecting"}
      BY <1>3 DEF WaiterDisconnects, LockInv, Alive
    <2> QED BY <1>3, <2>1, LockLoses DEF WaiterDisconnects, attemptVars
  <1> QED BY <1>1, <1>2, <1>3 DEF ClientSteps, Alone

\* The hysteresis and the schedulers.
LEMMA SchedulersKeepLock ==
    ASSUME LockInv, Hysteresis \/ (\E s \in Scheduler : Runs(s))
    PROVE  LockInv'
  <1>1. CASE Hysteresis
    BY <1>1, LockFrame
       DEF Hysteresis, Alone, HysteresisHealed, HysteresisKicks, HysteresisEnds, attemptVars
  <1>2. ASSUME NEW s \in Scheduler, Runs(s)
        PROVE  LockInv'
    <2>1. CASE SchedulerChecks(s) \/ SchedulerAttempts(s) \/ SchedulerLearns(s)
      BY <2>1, LockFrame
         DEF SchedulerChecks, SchedulerAttempts, SchedulerLearns, attemptVars, clientVars
    <2>2. CASE SchedulerWakes(s) \/ SchedulerExits(s)
      BY <2>2, LockFrame DEF SchedulerWakes, SchedulerExits, cvars, attemptVars, clientVars
    <2>3. CASE WaitedForConnect(s)
      BY <2>3, LockFrame DEF WaitedForConnect, attemptVars, clientVars
    <2>4. CASE Enters(s)
      BY <2>4, EntersKeepsLock DEF Scheduler
    <2> QED BY <1>2, <2>1, <2>2, <2>3, <2>4 DEF Runs, Alone
  <1> QED BY <1>1, <1>2

\* What the user, the network and the system do.
LEMMA DisturbancesKeepLock ==
    ASSUME LockInv, Disturbances
    PROVE  LockInv'
  <1>1. CASE UserConnects \/ CloseRequested \/ EnsureConnection
    BY <1>1, LockFrame
       DEF UserConnects, CloseRequested, EnsureConnection, attemptVars, clientVars
  <1>2. CASE Pause
    <2>1. status' = IF status = "connecting" THEN "disconnected" ELSE status
      BY <1>2 DEF Pause
    <2>2. UNCHANGED <<client, holder, stage>>
      BY <1>2 DEF Pause, attemptVars, clientVars
    <2> QED BY <2>1, <2>2 DEF LockInv, LockFree, ClientMatchesStatus
  <1>3. CASE SystemResumes \/ JobsChange \/ StartRequested
    BY <1>3, LockFrame DEF SystemResumes, JobsChange, StartRequested, cvars, attemptVars, clientVars
  <1>4. CASE TransportDies \/ HealthChanges \/ DisconnectOnStall
    BY <1>4, LockFrame DEF TransportDies, HealthChanges, DisconnectOnStall, attemptVars
  <1> QED BY <1>1, <1>2, <1>3, <1>4 DEF Disturbances, Alone

\* LockInv is inductive.
LEMMA LockInductive == LockInv /\ [Next]_vars => LockInv'
  <1> SUFFICES ASSUME LockInv, [Next]_vars PROVE LockInv'
    OBVIOUS
  <1>1. CASE Works(AttemptSteps)
    BY <1>1, AttemptKeepsLock DEF Works
  <1>2. CASE Works(CallerSteps)
    BY <1>2, CallersKeepLock DEF Works
  <1>3. CASE Works(ClientSteps)
    BY <1>3, ClientsKeepLock DEF Works
  <1>4. CASE Works(Hysteresis) \/ (\E s \in Scheduler : Works(Runs(s)))
    BY <1>4, SchedulersKeepLock DEF Works
  <1>5. CASE Disturbances
    BY <1>5, DisturbancesKeepLock
  <1>6. CASE UNCHANGED vars
    BY <1>6, LockFrame DEF vars, cvars, attemptVars, clientVars
  <1> QED BY <1>1, <1>2, <1>3, <1>4, <1>5, <1>6 DEF Next

\* It holds at first, and therefore always.
LEMMA LockAlways == Spec => []LockInv
  <1>1. Init => LockInv
    BY DEF Init, CInit, LockInv, LockFree, ClientMatchesStatus
  <1> QED BY <1>1, LockInductive, PTL DEF Spec

\* Whenever lifecycleLock is free, the status says "connected" exactly when the
\* connection has a client.
THEOREM StatusTellsTheTruth == Spec => []ClientMatchesStatus
  <1>1. LockInv => ClientMatchesStatus
    BY DEF LockInv
  <1> QED BY <1>1, LockAlways, PTL

-----------------------------------------------------------------------------
(* What takes a connection down *)

\* The causes that DropsForCause names.
Cause ==
    \/ client \notin live
    \/ closing /\ ~closing'
    \/ stallClose /\ ~stallClose'
    \/ resume = "close" \/ pc[User] = "force"

\* A caller who gets lifecycleLock leaves a connected status alone.
LEMMA EntersNoDrop ==
    ASSUME NEW c, Enters(c), status = "connected"
    PROVE  status' = status
  BY DEF Enters, Alone, ConnectBegins, ConnectRefused, Alive

\* A scheduler does as well.
LEMMA RunsNoDrop ==
    ASSUME NEW s \in Scheduler, Runs(s), status = "connected"
    PROVE  status' = status
  <1>1. CASE Enters(s)
    BY <1>1, EntersNoDrop
  <1>2. CASE WaitedForConnect(s)
    BY <1>2 DEF WaitedForConnect
  <1>3. CASE SchedulerChecks(s) \/ SchedulerAttempts(s) \/ SchedulerLearns(s)
    BY <1>3 DEF SchedulerChecks, SchedulerAttempts, SchedulerLearns
  <1>4. CASE SchedulerWakes(s) \/ SchedulerExits(s)
    BY <1>4 DEF SchedulerWakes, SchedulerExits, cvars
  <1> QED BY <1>1, <1>2, <1>3, <1>4 DEF Runs, Alone

\* No step of a caller takes the connection down without a cause.
LEMMA CallersDropForCause ==
    ASSUME CallerSteps, status = "connected", status' # "connected"
    PROVE  Cause
  <1>1. CASE \E c \in OneShot : Enters(c)
    BY <1>1, EntersNoDrop
  <1>2. CASE EnsureRetries \/ RepromptAnswered \/ ForceNoOp \/ WaitedForConnect(Resume)
    BY <1>2 DEF EnsureRetries, RepromptAnswered, ForceNoOp, WaitedForConnect
  <1>3. CASE StartsLate \/ ResumeAttempts
    BY <1>3 DEF StartsLate, ResumeAttempts, cvars
  <1>4. CASE ForceBegins
    BY <1>4 DEF ForceBegins, Cause
  <1>5. CASE UserCloses
    BY <1>5 DEF UserCloses, Close, Cause
  <1>6. CASE UserStops
    BY <1>6 DEF UserStops, PauseAborts
  <1>7. CASE ResumeCloses
    BY <1>7 DEF ResumeCloses, Cause
  <1> QED BY <1>1, <1>2, <1>3, <1>4, <1>5, <1>6, <1>7 DEF CallerSteps, Alone

\* No end of a client does: an older one is not the client of the connection.
LEMMA ClientsDropForCause ==
    ASSUME LockInv, ClientSteps, status = "connected", status' # "connected"
    PROVE  Cause
  <1>1. CASE StallCloses
    BY <1>1 DEF StallCloses, Cause
  <1>2. ASSUME NEW k \in Client, WaiterStale(k)
        PROVE  Cause
    BY <1>2 DEF WaiterStale
  <1>3. ASSUME NEW k \in Client, WaiterDisconnects(k)
        PROVE  Cause
    <2>1. client = k
      BY <1>3 DEF WaiterDisconnects, LockInv, ClientMatchesStatus
    <2> QED BY <1>3, <2>1 DEF WaiterDisconnects, Cause
  <1> QED BY <1>1, <1>2, <1>3 DEF ClientSteps, Alone

\* What the user and the network do leaves a connected status alone.
LEMMA DisturbancesNoDrop ==
    ASSUME Disturbances, status = "connected"
    PROVE  status' = status
  <1>1. CASE UserConnects \/ CloseRequested \/ EnsureConnection \/ Pause
    BY <1>1 DEF UserConnects, CloseRequested, EnsureConnection, Pause
  <1>2. CASE SystemResumes \/ JobsChange \/ StartRequested
    BY <1>2 DEF SystemResumes, JobsChange, StartRequested, cvars
  <1>3. CASE TransportDies \/ HealthChanges \/ DisconnectOnStall
    BY <1>3 DEF TransportDies, HealthChanges, DisconnectOnStall
  <1> QED BY <1>1, <1>2, <1>3 DEF Disturbances, Alone

\* A connected status is left only because the client in use died, or because
\* the user, the stall monitor, ForceReconnect or a resume closed it.
THEOREM OnlyCausesDrop == Spec => DropsForCause
  <1>1. LockInv /\ [Next]_vars => [status = "connected" /\ status' # "connected" => Cause]_vars
    <2> SUFFICES ASSUME LockInv, Next, status = "connected", status' # "connected"
                 PROVE  Cause
      OBVIOUS
    <2>1. CASE Works(AttemptSteps)
      BY <2>1 DEF Works, AttemptSteps, Alone, ConnectArms, DialSucceeds, ConnectSucceeds,
                  ConnectFails, LockInv
    <2>2. CASE Works(CallerSteps)
      BY <2>2, CallersDropForCause DEF Works
    <2>3. CASE Works(ClientSteps)
      BY <2>3, ClientsDropForCause DEF Works
    <2>4. CASE Works(Hysteresis)
      BY <2>4 DEF Works, Hysteresis, Alone, HysteresisHealed, HysteresisKicks, HysteresisEnds
    <2>5. CASE \E s \in Scheduler : Works(Runs(s))
      BY <2>5, RunsNoDrop DEF Works
    <2>6. CASE Disturbances
      BY <2>6, DisturbancesNoDrop
    <2> QED BY <2>1, <2>2, <2>3, <2>4, <2>5, <2>6 DEF Next
  <1> QED BY <1>1, LockAlways, PTL DEF Spec, DropsForCause, Cause

-----------------------------------------------------------------------------
(* Stop is obeyed *)

\* A caller who is about to call Connect although retries are suppressed is the
\* user, or was past his check when they were.
StopInv ==
    /\ pc \in [Caller -> {"idle", "prompt", "force", "want", "in", "wait", "back"}]
    /\ suppress \in BOOLEAN
    /\ suppress => \A c \in Caller : pc[c] = "want" => c \in late \union {User}

\* A step in which nobody but the user turns to Connect, unless retries are not
\* suppressed, keeps the invariant.
LEMMA StopFrame ==
    ASSUME StopInv, Remember, suppress' \in BOOLEAN,
           pc' \in [Caller -> {"idle", "prompt", "force", "want", "in", "wait", "back"}],
           suppress' => \A c \in Caller : pc'[c] = "want" => pc[c] = "want" \/ c = User
    PROVE  StopInv'
  BY DEF StopInv, Remember

\* Nothing that the invariant is about changes.
LEMMA StopSame ==
    ASSUME StopInv, Remember, UNCHANGED <<pc, suppress>>
    PROVE  StopInv'
  BY StopFrame DEF StopInv

\* A call that returns makes nobody turn to Connect.
LEMMA BackType ==
    ASSUME NEW p \in [Caller -> {"idle", "prompt", "force", "want", "in", "wait", "back"}], NEW c
    PROVE  /\ Back(p, c) \in [Caller -> {"idle", "prompt", "force", "want", "in", "wait", "back"}]
           /\ \A d \in Caller : Back(p, c)[d] = "want" => p[d] = "want"
  BY DEF Back

\* Nor does a prompt that is shown.
LEMMA AskingType ==
    ASSUME NEW p \in [Caller -> {"idle", "prompt", "force", "want", "in", "wait", "back"}]
    PROVE  /\ Asking(p) \in [Caller -> {"idle", "prompt", "force", "want", "in", "wait", "back"}]
           /\ \A d \in Caller : Asking(p)[d] = "want" => p[d] = "want"
  BY DEF Asking

\* The steps of Connect.
LEMMA AttemptKeepsStop ==
    ASSUME StopInv, Remember, AttemptSteps
    PROVE  StopInv'
  <1>1. CASE ConnectArms \/ DialSucceeds
    BY <1>1, StopSame DEF ConnectArms, DialSucceeds, callVars
  <1>2. CASE ConnectSucceeds
    <2>1. pc' = Back(pc, holder) /\ suppress' = suppress
      BY <1>2 DEF ConnectSucceeds, Leave
    <2> QED BY <2>1, BackType, StopFrame DEF StopInv
  <1>3. ASSUME NEW err \in DialErrors \union {"transient"}, ConnectFails(err)
        PROVE  StopInv'
    <2>1. pc' = Back(Asking(pc), holder) \/ pc' = Back(pc, holder)
      BY <1>3, Zenon DEF ConnectFails, Leave
    <2>2. suppress' \in BOOLEAN
      BY <1>3 DEF ConnectFails, StopInv
    <2>3. /\ pc' \in [Caller -> {"idle", "prompt", "force", "want", "in", "wait", "back"}]
          /\ \A c \in Caller : pc'[c] = "want" => pc[c] = "want"
      BY <2>1, BackType, AskingType DEF StopInv
    <2> QED BY <2>2, <2>3, StopFrame
  <1> QED BY <1>1, <1>2, <1>3 DEF AttemptSteps, Alone

\* A caller who gets lifecycleLock.
LEMMA EntersKeepsStop ==
    ASSUME StopInv, Remember, NEW c \in Caller, Enters(c)
    PROVE  StopInv'
  <1>1. CASE ConnectBegins(c)
    BY <1>1, StopFrame DEF ConnectBegins, Begin, StopInv
  <1>2. CASE ConnectRefused(c)
    <2>1. pc' = Back(pc, c) /\ suppress' = suppress
      BY <1>2 DEF ConnectRefused
    <2> QED BY <2>1, BackType, StopFrame DEF StopInv
  <1> QED BY <1>1, <1>2 DEF Enters, Alone

\* AttemptReconnect looks at the flag.
LEMMA AttemptReconnectKeepsStop ==
    ASSUME StopInv, Remember, NEW c \in Caller, AttemptReconnect(c), suppress' = suppress
    PROVE  StopInv'
  <1>1. CASE pc' = Back(pc, c)
    BY <1>1, BackType, StopFrame DEF StopInv
  <1>2. CASE ~suppress /\ \E w \in {"wait", "want"} : pc' = [pc EXCEPT ![c] = w]
    BY <1>2, StopFrame DEF StopInv
  <1> QED BY <1>1, <1>2 DEF AttemptReconnect, StopInv

\* WaitForConnect returns.
LEMMA WaitedKeepsStop ==
    ASSUME StopInv, Remember, NEW c \in Caller, WaitedForConnect(c)
    PROVE  StopInv'
  <1>1. pc' = Back(pc, c) /\ suppress' = suppress
    BY DEF WaitedForConnect
  <1> QED BY <1>1, BackType, StopFrame DEF StopInv

\* The callers' own steps, and the user's Close and Stop.
LEMMA CallersKeepStop ==
    ASSUME StopInv, Remember, CallerSteps
    PROVE  StopInv'
  <1> OneShot \subseteq Caller /\ {User, Ensure, Reprompt, Resume} \subseteq Caller
    BY DEF OneShot
  <1>1. CASE \E c \in OneShot : Enters(c)
    BY <1>1, EntersKeepsStop
  <1>2. CASE EnsureRetries
    <2>1. PICK w \in {"idle", "want"} : /\ pc' = [pc EXCEPT ![Ensure] = w]
                                        /\ w = "want" => ~suppress
      BY <1>2 DEF EnsureRetries, StopInv
    <2>2. suppress' = suppress
      BY <1>2 DEF EnsureRetries
    <2> QED BY <2>1, <2>2, StopFrame DEF StopInv
  <1>3. CASE RepromptAnswered
    <2>1. PICK w \in {"idle", "want"} : /\ pc' = [pc EXCEPT ![Reprompt] = w]
                                        /\ w = "want" => ~suppress
      BY <1>3 DEF RepromptAnswered
    <2>2. suppress' = suppress
      BY <1>3 DEF RepromptAnswered
    <2> QED BY <2>1, <2>2, StopFrame DEF StopInv
  <1>4. CASE ForceNoOp
    BY <1>4, StopFrame DEF ForceNoOp, StopInv
  <1>5. CASE ForceBegins
    BY <1>5, StopFrame DEF ForceBegins, Begin, StopInv
  <1>6. CASE UserStops
    <2>1. \E w \in {"idle", pc[Reprompt]} : pc' = [pc EXCEPT ![Reprompt] = w]
      BY <1>6 DEF UserStops, PauseAborts
    <2>2. suppress' = suppress
      BY <1>6 DEF UserStops, PauseAborts
    <2> QED BY <2>1, <2>2, StopFrame DEF StopInv
  <1>7. CASE UserCloses
    <2>1. pc' = pc /\ suppress' = TRUE
      BY <1>7 DEF UserCloses, Close, callVars
    <2> QED BY <2>1, StopFrame DEF StopInv
  <1>8. CASE StartsLate \/ ResumeCloses
    BY <1>8, StopSame DEF StartsLate, ResumeCloses, cvars, callVars
  <1>9. CASE ResumeAttempts
    BY <1>9, AttemptReconnectKeepsStop DEF ResumeAttempts
  <1>10. CASE WaitedForConnect(Resume)
    BY <1>10, WaitedKeepsStop
  <1> QED BY <1>1, <1>2, <1>3, <1>4, <1>5, <1>6, <1>7, <1>8, <1>9, <1>10 DEF CallerSteps, Alone

\* The clients, the hysteresis and the schedulers.
LEMMA OthersKeepStop ==
    ASSUME StopInv, Remember, ClientSteps \/ Hysteresis \/ (\E s \in Scheduler : Runs(s))
    PROVE  StopInv'
  <1>1. CASE ClientSteps
    BY <1>1, StopSame
       DEF ClientSteps, Alone, StallCloses, WaiterStale, WaiterDisconnects, callVars
  <1>2. CASE Hysteresis
    BY <1>2, StopSame
       DEF Hysteresis, Alone, HysteresisHealed, HysteresisKicks, HysteresisEnds, callVars
  <1>3. ASSUME NEW s \in Scheduler, Runs(s)
        PROVE  StopInv'
    <2>1. s \in Caller
      BY DEF Scheduler
    <2>2. CASE SchedulerChecks(s) \/ SchedulerWakes(s) \/ SchedulerExits(s)
      BY <2>2, StopSame DEF SchedulerChecks, SchedulerWakes, SchedulerExits, cvars, callVars
    <2>3. CASE SchedulerAttempts(s)
      BY <2>1, <2>3, AttemptReconnectKeepsStop DEF SchedulerAttempts
    <2>4. CASE SchedulerLearns(s)
      BY <2>1, <2>4, StopFrame DEF SchedulerLearns, StopInv
    <2>5. CASE WaitedForConnect(s)
      BY <2>1, <2>5, WaitedKeepsStop
    <2>6. CASE Enters(s)
      BY <2>1, <2>6, EntersKeepsStop
    <2> QED BY <1>3, <2>2, <2>3, <2>4, <2>5, <2>6 DEF Runs, Alone
  <1> QED BY <1>1, <1>2, <1>3

\* What the user, the network and the system do.
LEMMA DisturbancesKeepStop ==
    ASSUME StopInv, Remember, Disturbances
    PROVE  StopInv'
  <1> User \in Caller /\ Ensure \in Caller
    BY DEF OneShot
  <1>1. CASE UserConnects
    BY <1>1, StopFrame DEF UserConnects, StopInv
  <1>2. CASE EnsureConnection
    <2>1. \E w \in {"want", "wait"} : pc' = [pc EXCEPT ![Ensure] = w]
      BY <1>2 DEF EnsureConnection
    <2>2. ~suppress /\ suppress' = suppress
      BY <1>2 DEF EnsureConnection
    <2> QED BY <2>1, <2>2, StopFrame DEF StopInv
  <1>3. CASE Pause
    <2>1. pc' = pc /\ suppress' = TRUE
      BY <1>3 DEF Pause, callVars
    <2> QED BY <2>1, StopFrame DEF StopInv
  <1>4. CASE CloseRequested \/ SystemResumes \/ JobsChange \/ StartRequested
    BY <1>4, StopSame DEF CloseRequested, SystemResumes, JobsChange, StartRequested, cvars, callVars
  <1>5. CASE TransportDies \/ HealthChanges \/ DisconnectOnStall
    BY <1>5, StopSame DEF TransportDies, HealthChanges, DisconnectOnStall, callVars
  <1> QED BY <1>1, <1>2, <1>3, <1>4, <1>5 DEF Disturbances, Alone

\* StopInv is inductive.
LEMMA StopInductive == StopInv /\ [Next]_vars => StopInv'
  <1> SUFFICES ASSUME StopInv, [Next]_vars PROVE StopInv'
    OBVIOUS
  <1>1. CASE Works(AttemptSteps)
    BY <1>1, AttemptKeepsStop DEF Works
  <1>2. CASE Works(CallerSteps)
    BY <1>2, CallersKeepStop DEF Works
  <1>3. CASE Works(ClientSteps) \/ Works(Hysteresis) \/ (\E s \in Scheduler : Works(Runs(s)))
    BY <1>3, OthersKeepStop DEF Works
  <1>4. CASE Disturbances /\ Remember
    BY <1>4, DisturbancesKeepStop
  <1>5. CASE UNCHANGED vars
    BY <1>5 DEF vars, cvars, callVars, hvars, StopInv
  <1> QED BY <1>1, <1>2, <1>3, <1>4, <1>5 DEF Next

\* It holds at first, and therefore always.
LEMMA StopAlways == Spec => []StopInv
  <1>1. Init => StopInv
    BY DEF Init, CInit, StopInv
  <1> QED BY <1>1, StopInductive, PTL DEF Spec

\* Only two steps take the suppress flag down, both of them Connect's.
LEMMA OnlyConnectResumes ==
    ASSUME Next, suppress, ~suppress'
    PROVE  \/ ForceBegins
           \/ \E c \in Caller : ConnectBegins(c)
  <1> OneShot \subseteq Caller /\ Scheduler \subseteq Caller
    BY DEF Scheduler
  <1>1. CASE Works(AttemptSteps)
    BY <1>1 DEF Works, AttemptSteps, Alone, ConnectArms, DialSucceeds, ConnectSucceeds, ConnectFails
  <1>2. CASE Works(CallerSteps)
    BY <1>2 DEF Works, CallerSteps, Alone, Enters, ConnectRefused, EnsureRetries, RepromptAnswered,
                StartsLate, ForceNoOp, UserCloses, Close, UserStops, PauseAborts, ResumeCloses,
                ResumeAttempts, WaitedForConnect, cvars
  <1>3. CASE Works(ClientSteps) \/ Works(Hysteresis)
    BY <1>3 DEF Works, ClientSteps, Alone, StallCloses, WaiterStale, WaiterDisconnects,
                Hysteresis, HysteresisHealed, HysteresisKicks, HysteresisEnds
  <1>4. CASE \E s \in Scheduler : Works(Runs(s))
    BY <1>4 DEF Works, Runs, Alone, Enters, ConnectRefused, SchedulerChecks, SchedulerAttempts,
                SchedulerLearns, SchedulerWakes, SchedulerExits, WaitedForConnect, cvars
  <1>5. CASE Disturbances
    BY <1>5 DEF Disturbances, Alone, UserConnects, CloseRequested, Pause, EnsureConnection,
                SystemResumes, JobsChange, StartRequested, TransportDies, HealthChanges,
                DisconnectOnStall, cvars
  <1> QED BY <1>1, <1>2, <1>3, <1>4, <1>5 DEF Next

\* Once the user has said Disconnect, Stop or Cancel, only an explicit Connect
\* takes that back, or an attempt that was past its check when he said it.
THEOREM StopIsObeyed == Spec => SuppressHolds
  <1>1. StopInv /\ [Next]_vars
            => [suppress /\ ~suppress' => holder' = User \/ holder' \in late]_vars
    <2> SUFFICES ASSUME StopInv, Next, suppress, ~suppress'
                 PROVE  holder' = User \/ holder' \in late
      OBVIOUS
    <2>1. CASE ForceBegins
      BY <2>1 DEF ForceBegins, Begin
    <2>2. ASSUME NEW c \in Caller, ConnectBegins(c)
          PROVE  holder' = User \/ holder' \in late
      BY <2>2 DEF ConnectBegins, Begin, StopInv
    <2> QED BY <2>1, <2>2, OnlyConnectResumes
  <1> QED BY <1>1, StopAlways, PTL DEF Spec, SuppressHolds
-----------------------------------------------------------------------------
(* Types, in parts that the steps disturb separately *)

EnumType ==
    /\ status \in Statuses /\ lastErr \in ErrorCodes /\ cred \in {"cached", "key", "asks"}
    /\ cancel \in {"none", "set", "fired"} /\ holder \in Caller \union {Nobody}
    /\ stage \in {"none", "begun", "dial", "wsh"} /\ health \in {"good", "stalled"}
    /\ resume \in {"idle", "close", "attempt"}

FlagType ==
    /\ gaveUp \in BOOLEAN /\ userAbort \in BOOLEAN /\ stallClose \in BOOLEAN
    /\ closing \in BOOLEAN /\ pausing \in BOOLEAN /\ starting \in BOOLEAN
    /\ jobs \in BOOLEAN /\ entry \in BOOLEAN

FieldType == EnumType /\ FlagType

ClientType ==
    /\ client \in 0..MaxClient /\ live \subseteq Client /\ waiting \subseteq Client
    /\ delayed \in 0..MaxDelayed

ResType == res \in [Caller -> Results]

HistoryType == late \subseteq Caller /\ lost \in BOOLEAN /\ events \in 0..MaxEvents

\* What the first three parts are about.
fieldVars == <<status, lastErr, cred, gaveUp, userAbort, cancel, holder, stage, health, stallClose,
               closing, pausing, starting, resume, jobs, entry>>
clientSet == <<client, live, waiting, delayed>>

\* The fields keep their types when nothing of theirs changes, ...
LEMMA FieldFrame == ASSUME FieldType, UNCHANGED fieldVars PROVE FieldType'
  BY DEF FieldType, EnumType, FlagType, fieldVars

\* ... so do the clients ...
LEMMA ClientFrame == ASSUME ClientType, UNCHANGED clientSet PROVE ClientType'
  BY DEF ClientType, clientSet

\* ... and the results.
LEMMA ResFrame == ASSUME ResType, UNCHANGED res PROVE ResType'
  BY DEF ResType

\* A call that returns one of the results.
LEMMA AnswerType ==
    ASSUME ResType, NEW c, NEW r \in Results, res' = Answer(c, r)
    PROVE  ResType'
  BY DEF ResType, Answer

\* Errors of a dial are results, and what a handshake leaves is a credential.
LEMMA DialTypes ==
    /\ DialErrors \union {"transient"} \subseteq ErrorCodes /\ ErrorCodes \subseteq Results
    /\ Creds \subseteq {"cached", "key", "asks"} /\ ClearedCache \in {cred, "asks"}
  BY DialErrorsAssumption, CredsAssumption DEF ErrorCodes, Results, ClearedCache

\* A scheduled settlement is counted.
LEMMA DelayedUp ==
    ASSUME ClientType, Settled,
           delayed' = IF CanReconnectWithoutPrompt THEN delayed + 1 ELSE delayed
    PROVE  delayed' \in 0..MaxDelayed
  BY DEF ClientType, Settled

\* The connection's resources are taken.
LEMMA ResourcesType ==
    ASSUME ClientType, CloseResources, waiting' = waiting, delayed' \in 0..MaxDelayed
    PROVE  ClientType'
  BY DEF ClientType, CloseResources

\* The steps of Connect.
LEMMA AttemptTypes ==
    ASSUME FieldType, ClientType, ResType, AttemptSteps
    PROVE  FieldType' /\ ClientType' /\ ResType'
  <1> UNCHANGED svars
    BY DEF AttemptSteps, Alone
  <1>1. CASE ConnectArms
    <2>1. /\ userAbort' = FALSE /\ cancel' = "set" /\ stage' = "dial"
          /\ UNCHANGED <<status, lastErr, cred, gaveUp, holder, health, stallClose, closing, pausing,
                         starting, resume, jobs, entry>>
          /\ UNCHANGED clientSet /\ UNCHANGED res
      BY <1>1 DEF ConnectArms, clientVars, clientSet, callVars, userVars, svars
    <2>2. EnumType'
      BY <2>1 DEF FieldType, EnumType
    <2>3. FlagType'
      BY <2>1, Zenon DEF FieldType, FlagType
    <2> QED BY <2>1, <2>2, <2>3, ClientFrame, ResFrame DEF FieldType
  <1>2. CASE DialSucceeds
    <2>1. cred' \in Creds /\ ResType'
      BY <1>2, ResFrame DEF DialSucceeds, callVars
    <2>2. FieldType'
      <3>1. EnumType'
        BY <1>2, <2>1, DialTypes DEF DialSucceeds, FieldType, EnumType, svars
      <3>2. FlagType'
        BY <1>2 DEF DialSucceeds, FieldType, FlagType, userVars, svars
      <3> QED BY <3>1, <3>2 DEF FieldType
    <2>3. client' \in Client
      BY <1>2 DEF DialSucceeds
    <2>4. live' \subseteq Client /\ waiting' \subseteq Client /\ delayed' = delayed
      BY <1>2, <2>3 DEF DialSucceeds, ClientType
    <2> QED BY <2>1, <2>2, <2>3, <2>4 DEF ClientType, Client
  <1>3. CASE ConnectSucceeds
    <2>1. ResType'
      BY <1>3, AnswerType DEF ConnectSucceeds, Leave, Results
    <2>2. FieldType'
      <3>1. EnumType'
        BY <1>3 DEF ConnectSucceeds, Leave, FieldType, EnumType, Statuses, ErrorCodes, svars, clientVars
      <3>2. FlagType'
        BY <1>3 DEF ConnectSucceeds, FieldType, FlagType, userVars, svars, clientVars
      <3> QED BY <3>1, <3>2 DEF FieldType
    <2>3. ClientType'
      BY <1>3, ClientFrame DEF ConnectSucceeds, clientVars, clientSet
    <2> QED BY <2>1, <2>2, <2>3
  <1>4. ASSUME NEW err \in DialErrors \union {"transient"}, ConnectFails(err)
        PROVE  FieldType' /\ ClientType' /\ ResType'
    <2>1. err \in ErrorCodes /\ err \in Results
      BY <1>4, DialTypes
    <2>2. ResType'
      BY <1>4, <2>1, AnswerType DEF ConnectFails, Leave
    <2>3. lastErr' \in {"user-cancelled", err} /\ cred' \in {ClearedCache, cred}
      BY <1>4 DEF ConnectFails
    <2>4. lastErr' \in ErrorCodes /\ cred' \in {"cached", "key", "asks"}
      BY <2>1, <2>3, DialTypes DEF ErrorCodes, FieldType, EnumType
    <2>5. status' \in Statuses
      BY <1>4 DEF ConnectFails, FieldType, EnumType, Statuses
    <2>6. FieldType'
      <3>1. EnumType'
        BY <1>4, <2>4, <2>5 DEF ConnectFails, Leave, FieldType, EnumType, svars
      <3>2. FlagType'
        BY <1>4 DEF ConnectFails, FieldType, FlagType, userVars, svars
      <3> QED BY <3>1, <3>2 DEF FieldType
    <2>7. ClientType'
      BY <1>4, ResourcesType DEF ConnectFails, ClientType
    <2> QED BY <2>2, <2>6, <2>7
  <1> QED BY <1>1, <1>2, <1>3, <1>4 DEF AttemptSteps, Alone

\* A caller who gets lifecycleLock.
LEMMA EntersTypes ==
    ASSUME FieldType, ClientType, ResType, NEW c \in Caller, Enters(c)
    PROVE  FieldType' /\ ClientType' /\ ResType'
  <1>1. CASE Alone(ConnectBegins(c))
    <2>1. FieldType'
      <3>1. /\ status' = "connecting" /\ gaveUp' = FALSE /\ holder' = c /\ stage' = "begun"
            /\ UNCHANGED <<lastErr, cred, userAbort, cancel, health, stallClose, closing, pausing,
                           starting, resume, jobs, entry>>
        BY <1>1 DEF Alone, ConnectBegins, Begin, userVars, clientVars, svars
      <3>2. EnumType'
        BY <3>1 DEF FieldType, EnumType, Statuses
      <3>3. FlagType'
        BY <3>1, Zenon DEF FieldType, FlagType
      <3> QED BY <3>2, <3>3 DEF FieldType
    <2> QED BY <1>1, <2>1, ClientFrame, ResFrame DEF Alone, ConnectBegins, clientVars, clientSet
  <1>2. CASE Alone(ConnectRefused(c))
    <2>1. ResType'
      BY <1>2, AnswerType DEF Alone, ConnectRefused, Results
    <2> QED BY <1>2, <2>1, FieldFrame, ClientFrame
            DEF Alone, ConnectRefused, fieldVars, clientSet, userVars, attemptVars, clientVars, svars
  <1> QED BY <1>1, <1>2 DEF Enters
\* The steps of the callers, Close and Stop.
LEMMA CallerTypes ==
    ASSUME FieldType, ClientType, ResType, CallerSteps
    PROVE  FieldType' /\ ClientType' /\ ResType'
  <1>1. CASE \E c \in OneShot : Enters(c)
    BY <1>1, EntersTypes
  <1>2. CASE Alone(EnsureRetries) \/ Alone(ForceNoOp)
    BY <1>2, FieldFrame, ClientFrame, ResFrame
       DEF Alone, EnsureRetries, ForceNoOp, fieldVars, clientSet, userVars, attemptVars,
           clientVars, svars
  <1>3. CASE Alone(RepromptAnswered)
    <2>1. UNCHANGED clientSet /\ UNCHANGED res
      BY <1>3 DEF Alone, RepromptAnswered, clientVars, clientSet
    <2>2. FieldType'
      <3>1. EnumType'
        BY <1>3 DEF Alone, RepromptAnswered, FieldType, EnumType, attemptVars, clientVars, svars
      <3>2. FlagType'
        BY <1>3 DEF Alone, RepromptAnswered, FieldType, FlagType, userVars, attemptVars, clientVars, svars
      <3> QED BY <3>1, <3>2 DEF FieldType
    <2> QED BY <2>1, <2>2, ClientFrame, ResFrame
  <1>4. CASE StartsLate
    <2>1. UNCHANGED clientSet /\ UNCHANGED res
      BY <1>4 DEF StartsLate, cvars, clientVars, callVars, clientSet
    <2>2. /\ starting' = FALSE /\ entry' = TRUE
          /\ UNCHANGED <<gaveUp, userAbort, stallClose, closing, pausing, jobs>>
          /\ UNCHANGED <<status, lastErr, cred, cancel, holder, stage, health, resume>>
      BY <1>4 DEF StartsLate, Launch, cvars, userVars, attemptVars, clientVars
    <2>3. EnumType'
      BY <2>2 DEF FieldType, EnumType
    <2>4. FlagType'
      BY <2>2, Zenon DEF FieldType, FlagType
    <2> QED BY <2>1, <2>3, <2>4, ClientFrame, ResFrame DEF FieldType
  <1>5. CASE Alone(ForceBegins)
    <2>1. UNCHANGED res
      BY <1>5 DEF Alone, ForceBegins
    <2>2. /\ status' = "connecting" /\ gaveUp' = FALSE /\ holder' = User /\ stage' = "begun"
          /\ health' \in {"good", health}
          /\ UNCHANGED <<lastErr, cred, userAbort, cancel, stallClose, closing, pausing,
                         starting, resume, jobs, entry>>
      BY <1>5 DEF Alone, ForceBegins, Begin, userVars, svars
    <2>3. FieldType'
      <3>1. EnumType'
        BY <2>2 DEF FieldType, EnumType, Statuses, OneShot
      <3>2. FlagType'
        BY <2>2, Zenon DEF FieldType, FlagType
      <3> QED BY <3>1, <3>2 DEF FieldType
    <2>4. ClientType'
      BY <1>5, DelayedUp, ResourcesType, ClientFrame DEF Alone, ForceBegins, ClientType, clientSet
    <2> QED BY <2>1, <2>3, <2>4, ResFrame
  <1>6. CASE UserCloses
    <2>1. /\ status' = IF Alive THEN "disconnected" ELSE status
          /\ cred' = ClearedCache /\ health' = "good" /\ closing' = FALSE /\ entry' = FALSE
          /\ UNCHANGED <<lastErr, gaveUp, pausing, userAbort, cancel, holder, stage, stallClose,
                         starting, resume, jobs, res>>
          /\ CloseResources /\ UNCHANGED <<waiting, delayed>>
      BY <1>6 DEF UserCloses, Close, attemptVars, callVars
    <2>2. ClientType'
      BY <2>1, ResourcesType DEF ClientType
    <2>3. FieldType'
      <3>1. EnumType'
        BY <2>1, DialTypes DEF FieldType, EnumType, Statuses
      <3>2. FlagType'
        BY <2>1, DialTypes, Zenon DEF FieldType, FlagType
      <3> QED BY <3>1, <3>2 DEF FieldType
    <2> QED BY <2>1, <2>2, <2>3, ResFrame
  <1>7. CASE UserStops
    <2>1. /\ pausing' = FALSE /\ userAbort' = TRUE /\ cancel' \in {"fired", cancel} /\ entry' = FALSE
          /\ UNCHANGED <<status, cred, health, closing, lastErr, gaveUp, holder, stage, stallClose,
                         starting, resume, jobs>>
          /\ UNCHANGED clientSet /\ UNCHANGED res
      BY <1>7 DEF UserStops, PauseAborts, clientVars, clientSet
    <2>2. EnumType'
      BY <2>1 DEF FieldType, EnumType
    <2>3. FlagType'
      BY <2>1, Zenon DEF FieldType, FlagType
    <2> QED BY <2>1, <2>2, <2>3, ClientFrame, ResFrame DEF FieldType
  <1>8. CASE ResumeCloses
    <2>1. /\ status' = IF Alive THEN "disconnected" ELSE status
          /\ health' = "good" /\ resume' = "attempt"
          /\ UNCHANGED <<cred, lastErr, gaveUp, closing, pausing, userAbort, cancel, holder, stage,
                         stallClose, starting, jobs, entry, res>>
          /\ CloseResources /\ UNCHANGED waiting /\ Settled
          /\ delayed' = IF CanReconnectWithoutPrompt THEN delayed + 1 ELSE delayed
      BY <1>8 DEF ResumeCloses, CloseInvoluntary, attemptVars, userVars, callVars
    <2>2. ClientType'
      BY <2>1, ResourcesType, DelayedUp
    <2>3. FieldType'
      <3>1. EnumType'
        BY <2>1 DEF FieldType, EnumType, Statuses
      <3>2. FlagType'
        BY <2>1, Zenon DEF FieldType, FlagType
      <3> QED BY <3>1, <3>2 DEF FieldType
    <2> QED BY <2>1, <2>2, <2>3, ResFrame
  <1>9. CASE ResumeAttempts
    <2>1. ResType'
      BY <1>9, AnswerType, ResFrame DEF ResumeAttempts, AttemptReconnect, Results
    <2>2. /\ resume' = "idle"
          /\ UNCHANGED <<status, cred, lastErr, gaveUp, closing, pausing, userAbort, cancel, holder,
                         stage, health, stallClose, starting, jobs, entry>>
          /\ UNCHANGED clientSet
      BY <1>9 DEF ResumeAttempts, userVars, attemptVars, clientVars, clientSet
    <2>3. EnumType'
      BY <2>2 DEF FieldType, EnumType
    <2>4. FlagType'
      BY <2>2, Zenon DEF FieldType, FlagType
    <2> QED BY <2>1, <2>2, <2>3, <2>4, ClientFrame DEF FieldType
  <1>10. CASE Alone(WaitedForConnect(Resume))
    <2>1. ResType'
      BY <1>10, AnswerType DEF Alone, WaitedForConnect, Results, ErrorCodes
    <2> QED BY <1>10, <2>1, FieldFrame, ClientFrame
            DEF Alone, WaitedForConnect, fieldVars, clientSet, userVars, attemptVars, clientVars, svars
  <1> QED BY <1>1, <1>2, <1>3, <1>4, <1>5, <1>6, <1>7, <1>8, <1>9, <1>10 DEF CallerSteps

\* The end of a client, and the hysteresis.
LEMMA ClientTypes ==
    ASSUME FieldType, ClientType, ResType, ClientSteps \/ Hysteresis
    PROVE  FieldType' /\ ClientType' /\ ResType'
  <1>1. CASE Alone(StallCloses)
    <2>1. /\ status' = IF Alive THEN "disconnected" ELSE status
          /\ health' = "good" /\ stallClose' = FALSE
          /\ UNCHANGED <<cred, lastErr, gaveUp, closing, pausing, userAbort, cancel, holder, stage,
                         starting, resume, jobs, entry, res>>
          /\ CloseResources /\ UNCHANGED waiting /\ Settled
          /\ delayed' = IF CanReconnectWithoutPrompt THEN delayed + 1 ELSE delayed
      BY <1>1 DEF Alone, StallCloses, CloseInvoluntary, attemptVars, userVars, callVars, svars
    <2>2. ClientType'
      BY <2>1, ResourcesType, DelayedUp
    <2>3. FieldType'
      <3>1. EnumType'
        BY <2>1 DEF FieldType, EnumType, Statuses
      <3>2. FlagType'
        BY <2>1, Zenon DEF FieldType, FlagType
      <3> QED BY <3>1, <3>2 DEF FieldType
    <2> QED BY <2>1, <2>2, <2>3, ResFrame
  <1>2. ASSUME NEW k \in Client, Alone(WaiterStale(k))
        PROVE  FieldType' /\ ClientType' /\ ResType'
    <2>1. ClientType'
      BY <1>2 DEF Alone, WaiterStale, ClientType
    <2> QED BY <1>2, <2>1, FieldFrame, ResFrame
            DEF Alone, WaiterStale, fieldVars, userVars, attemptVars, callVars, svars
  <1>3. ASSUME NEW k \in Client, Alone(WaiterDisconnects(k))
        PROVE  FieldType' /\ ClientType' /\ ResType'
    <2>1. /\ status' \in {"disconnected", status} /\ health' = "good"
          /\ UNCHANGED <<cred, lastErr, gaveUp, closing, pausing, userAbort, cancel, holder, stage,
                         stallClose, starting, resume, jobs, entry, res>>
          /\ client' = 0 /\ waiting' = waiting \ {k} /\ UNCHANGED live /\ Settled
          /\ delayed' = IF CanReconnectWithoutPrompt THEN delayed + 1 ELSE delayed
      BY <1>3 DEF Alone, WaiterDisconnects, attemptVars, userVars, callVars, svars
    <2>2. ClientType'
      BY <2>1, DelayedUp DEF ClientType
    <2>3. FieldType'
      <3>1. EnumType'
        BY <2>1 DEF FieldType, EnumType, Statuses
      <3>2. FlagType'
        BY <2>1, Zenon DEF FieldType, FlagType
      <3> QED BY <3>1, <3>2 DEF FieldType
    <2> QED BY <2>1, <2>2, <2>3, ResFrame
  <1>4. CASE Hysteresis
    <2>1. /\ delayed > 0 /\ delayed' = delayed - 1
          /\ UNCHANGED <<status, cred, lastErr, gaveUp, closing, pausing, userAbort, cancel, holder,
                         stage, health, stallClose, starting, resume, jobs, res, client, live, waiting>>
          /\ entry' \in {TRUE, entry}
      BY <1>4 DEF Hysteresis, Alone, HysteresisHealed, HysteresisKicks, HysteresisEnds,
                  StartReconnectScheduler, Launch, attemptVars, userVars, callVars, svars
    <2>2. ClientType'
      BY <2>1 DEF ClientType
    <2>3. FieldType'
      <3>1. EnumType'
        BY <2>1 DEF FieldType, EnumType
      <3>2. FlagType'
        BY <2>1, Zenon DEF FieldType, FlagType
      <3> QED BY <3>1, <3>2 DEF FieldType
    <2> QED BY <2>1, <2>2, <2>3, ResFrame
  <1> QED BY <1>1, <1>2, <1>3, <1>4 DEF ClientSteps
\* The loop of a scheduler.
LEMMA RunsTypes ==
    ASSUME FieldType, ClientType, ResType, NEW s \in Scheduler, Runs(s)
    PROVE  FieldType' /\ ClientType' /\ ResType'
  <1>1. CASE SchedulerChecks(s)
    <2>1. /\ gaveUp' \in BOOLEAN
          /\ UNCHANGED <<userAbort, stallClose, closing, pausing, starting, jobs, entry>>
          /\ UNCHANGED <<status, lastErr, cred, cancel, holder, stage, health, resume>>
          /\ UNCHANGED clientSet /\ UNCHANGED res
      BY <1>1 DEF SchedulerChecks, userVars, attemptVars, clientVars, callVars, clientSet, FieldType,
                  FlagType
    <2>2. EnumType'
      BY <2>1 DEF FieldType, EnumType
    <2>3. FlagType'
      BY <2>1, Zenon DEF FieldType, FlagType
    <2> QED BY <2>1, <2>2, <2>3, ClientFrame, ResFrame DEF FieldType
  <1>2. CASE SchedulerAttempts(s)
    <2>1. ResType'
      BY <1>2, AnswerType, ResFrame DEF SchedulerAttempts, AttemptReconnect, Results
    <2> QED BY <1>2, <2>1, FieldFrame, ClientFrame
            DEF SchedulerAttempts, fieldVars, clientSet, userVars, attemptVars, clientVars, svars
  <1>3. CASE SchedulerLearns(s)
    <2>1. ResType'
      BY <1>3 DEF SchedulerLearns, ResType, Results, ErrorCodes
    <2>2. gaveUp' \in BOOLEAN
      BY <1>3 DEF SchedulerLearns, FieldType, FlagType
    <2>3. /\ UNCHANGED <<userAbort, stallClose, closing, pausing, starting, jobs, entry>>
          /\ UNCHANGED <<status, lastErr, cred, cancel, holder, stage, health, resume>>
          /\ UNCHANGED clientSet
      BY <1>3 DEF SchedulerLearns, userVars, attemptVars, clientVars, clientSet
    <2>4. EnumType'
      BY <2>3 DEF FieldType, EnumType
    <2>5. FlagType'
      BY <2>2, <2>3, Zenon DEF FieldType, FlagType
    <2> QED BY <2>1, <2>3, <2>4, <2>5, ClientFrame DEF FieldType
  <1>4. CASE SchedulerWakes(s)
    BY <1>4, FieldFrame, ClientFrame, ResFrame
       DEF SchedulerWakes, cvars, fieldVars, clientSet, userVars, attemptVars, clientVars, callVars
  <1>5. CASE SchedulerExits(s)
    <2>1. /\ entry' = FALSE
          /\ UNCHANGED <<gaveUp, userAbort, stallClose, closing, pausing, starting, jobs>>
          /\ UNCHANGED <<status, lastErr, cred, cancel, holder, stage, health, resume>>
          /\ UNCHANGED clientSet /\ UNCHANGED res
      BY <1>5 DEF SchedulerExits, cvars, userVars, attemptVars, clientVars, callVars, clientSet
    <2>2. EnumType'
      BY <2>1 DEF FieldType, EnumType
    <2>3. FlagType'
      BY <2>1, Zenon DEF FieldType, FlagType
    <2> QED BY <2>1, <2>2, <2>3, ClientFrame, ResFrame DEF FieldType
  <1>6. CASE Alone(WaitedForConnect(s))
    <2>1. ResType'
      BY <1>6, AnswerType DEF Alone, WaitedForConnect, Results, ErrorCodes
    <2> QED BY <1>6, <2>1, FieldFrame, ClientFrame
            DEF Alone, WaitedForConnect, fieldVars, clientSet, userVars, attemptVars, clientVars, svars
  <1>7. CASE Enters(s)
    BY <1>7, EntersTypes DEF Scheduler
  <1> QED BY <1>1, <1>2, <1>3, <1>4, <1>5, <1>6, <1>7 DEF Runs

\* What the user, the network and the system do.
LEMMA DisturbanceTypes ==
    ASSUME FieldType, ClientType, ResType, Disturbances
    PROVE  FieldType' /\ ClientType' /\ ResType'
  <1>1. CASE Alone(UserConnects)
    BY <1>1, FieldFrame, ClientFrame, ResFrame
       DEF Alone, UserConnects, fieldVars, clientSet, userVars, attemptVars, clientVars, svars
  <1>2. CASE Alone(CloseRequested) \/ Alone(DisconnectOnStall) \/ JobsChange \/ StartRequested
    <2>1. /\ UNCHANGED <<gaveUp, userAbort, pausing, entry>>
          /\ UNCHANGED <<status, lastErr, cred, cancel, holder, stage, health, resume>>
          /\ UNCHANGED clientSet /\ UNCHANGED res
      BY <1>2 DEF Alone, CloseRequested, DisconnectOnStall, JobsChange, StartRequested, cvars, userVars,
                  attemptVars, clientVars, callVars, clientSet, svars
    <2>2. /\ stallClose' \in {TRUE, stallClose} /\ closing' \in {TRUE, closing}
          /\ starting' \in {TRUE, starting} /\ jobs' \in BOOLEAN
      BY <1>2 DEF Alone, CloseRequested, DisconnectOnStall, JobsChange, StartRequested, cvars, userVars,
                  clientVars, svars, FieldType, FlagType
    <2>3. EnumType'
      BY <2>1 DEF FieldType, EnumType
    <2>4. FlagType'
      BY <2>1, <2>2 DEF FieldType, FlagType
    <2> QED BY <2>1, <2>3, <2>4, ClientFrame, ResFrame DEF FieldType
  <1>3. CASE Alone(Pause)
    <2>1. /\ pausing' = TRUE
          /\ UNCHANGED <<gaveUp, userAbort, stallClose, closing, starting, jobs, entry>>
          /\ status' \in {"disconnected", status} /\ lastErr' \in {"user-cancelled", lastErr}
          /\ UNCHANGED <<cred, cancel, holder, stage, health, resume>>
          /\ UNCHANGED clientSet /\ UNCHANGED res
      BY <1>3 DEF Alone, Pause, attemptVars, clientVars, callVars, clientSet, svars
    <2>2. EnumType'
      BY <2>1 DEF FieldType, EnumType, Statuses, ErrorCodes
    <2>3. FlagType'
      BY <2>1, Zenon DEF FieldType, FlagType
    <2> QED BY <2>1, <2>2, <2>3, ClientFrame, ResFrame DEF FieldType
  <1>4. CASE Alone(EnsureConnection) \/ SystemResumes \/ Alone(HealthChanges)
    <2>1. /\ entry' \in {FALSE, entry}
          /\ UNCHANGED <<gaveUp, userAbort, stallClose, closing, pausing, starting, jobs>>
          /\ cancel' \in {"fired", cancel} /\ resume' \in {"close", "attempt", resume}
          /\ health' \in {"good", "stalled", health}
          /\ UNCHANGED <<status, lastErr, cred, holder, stage>>
          /\ UNCHANGED clientSet /\ UNCHANGED res
      BY <1>4 DEF Alone, EnsureConnection, SystemResumes, HealthChanges, cvars, userVars, attemptVars,
                  clientVars, callVars, clientSet, svars
    <2>2. EnumType'
      BY <2>1 DEF FieldType, EnumType
    <2>3. FlagType'
      BY <2>1 DEF FieldType, FlagType
    <2> QED BY <2>1, <2>2, <2>3, ClientFrame, ResFrame DEF FieldType
  <1>5. CASE Alone(TransportDies)
    <2>1. ClientType'
      BY <1>5 DEF Alone, TransportDies, ClientType
    <2> QED BY <1>5, <2>1, FieldFrame, ResFrame
            DEF Alone, TransportDies, fieldVars, userVars, attemptVars, callVars, svars
  <1> QED BY <1>1, <1>2, <1>3, <1>4, <1>5 DEF Disturbances

\* The history variables.
LEMMA HistoryTypes ==
    ASSUME HistoryType, Next
    PROVE  HistoryType'
  <1>1. Remember
    BY DEF Next, Works
  <1>2. late' \subseteq Caller
    BY <1>1 DEF Remember, HistoryType
  <1>3. lost' \in BOOLEAN
    BY <1>1 DEF Remember
  <1>4. events' \in 0..MaxEvents
    <2>1. events' = events \/ (events < MaxEvents /\ events' = events + 1)
      BY DEF Next, Works
    <2>2. MaxEvents \in Nat /\ events \in 0..MaxEvents
      BY MaxEventsAssumption DEF HistoryType
    <2> QED BY <2>1, <2>2
  <1> QED BY <1>2, <1>3, <1>4 DEF HistoryType

\* The parts hold at first, and always.
LEMMA TypesAlways == Spec => [](FieldType /\ ClientType /\ ResType /\ HistoryType)
  <1> DEFINE Parts == FieldType /\ ClientType /\ ResType /\ HistoryType
  <1>1. Init => Parts
    <2> SUFFICES ASSUME Init PROVE Parts
      OBVIOUS
    <2>1. EnumType
      BY CredsAssumption DEF Init, CInit, EnumType, Statuses, ErrorCodes
    <2>2. FlagType
      BY DEF Init, CInit, FlagType
    <2>3. 1 \in Client /\ 0 \in 0..MaxClient /\ 1 \in 0..MaxClient /\ 0 \in 0..MaxDelayed
      BY DEF Client
    <2>4. ClientType
      BY <2>3 DEF Init, CInit, ClientType
    <2>5. ResType
      BY DEF Init, CInit, ResType, Results, ErrorCodes
    <2>6. HistoryType
      <3>1. events \in 0..MaxEvents
        BY MaxEventsAssumption DEF Init
      <3>2. late \subseteq Caller /\ lost \in BOOLEAN
        BY DEF Init
      <3> QED BY <3>1, <3>2 DEF HistoryType
    <2> QED BY <2>1, <2>2, <2>4, <2>5, <2>6 DEF FieldType
  <1>2. Parts /\ [Next]_vars => Parts'
    <2> SUFFICES ASSUME Parts, [Next]_vars PROVE Parts'
      OBVIOUS
    <2>1. CASE Next
      <3>1. FieldType' /\ ClientType' /\ ResType'
        BY <2>1, AttemptTypes, CallerTypes, ClientTypes, RunsTypes, DisturbanceTypes DEF Next, Works
      <3> QED BY <2>1, <3>1, HistoryTypes
    <2>2. CASE UNCHANGED vars
      BY <2>2, FieldFrame, ClientFrame, ResFrame
         DEF vars, cvars, svars, hvars, userVars, attemptVars, clientVars, callVars, fieldVars,
             clientSet, HistoryType
    <2> QED BY <2>1, <2>2
  <1> QED BY <1>1, <1>2, PTL DEF Spec

\* The connection, its callers and its schedulers keep their types.
THEOREM TypeCorrect == Spec => []TypeOK
  <1>1. FieldType /\ ClientType /\ ResType /\ HistoryType /\ SchedInv /\ StopInv => TypeOK
    BY DEF TypeOK, FieldType, EnumType, FlagType, ClientType, ResType, HistoryType, SchedInv, SchedType,
           StopInv
  <1> QED BY <1>1, TypesAlways, SchedAlways, StopAlways, PTL
=============================================================================
