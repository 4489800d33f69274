-------------------------- MODULE ReconnectScheduler --------------------------
(***************************************************************************)
(* pkg/jobcontroller/jobcontroller.go, the part that brings a connection   *)
(* back: reconnect schedulers, one goroutine each, started by a disconnect *)
(* that settled or by a connchange event, stopped by the user; and the     *)
(* fast path after the system wakes up.  Composed with ConnController.     *)
(*                                                                         *)
(* connectionReconnectSchedulers holds one flag per connection, "entry".   *)
(* A scheduler takes the flag down when it returns, whoever put it up.     *)
(***************************************************************************)
EXTENDS ConnController

Scheduler == Caller \ OneShot

CONSTANT MaxEvents  \* bound: things the user, the network and the system do
ASSUME MaxEventsAssumption == MaxEvents \in Nat

VARIABLES
    events,   \* how many of them happened
    entry,    \* the connection is in connectionReconnectSchedulers
    sched,    \* scheduler -> "off", "check", "attempt", "sleep", "exit"
    starting, \* a startReconnectScheduler is past its checks
    resume,   \* HandleSystemResume: "idle", "close", "attempt"
    jobs,     \* hasRunningDurableJobsForConn
    late,     \* history: the callers past their check when suppress went up
    lost      \* history: a connection was lost that the code means to heal

svars == <<entry, sched, starting, resume, jobs>>
hvars == <<late, lost>>
vars  == <<cvars, svars, hvars, events>>

Init ==
    /\ CInit
    /\ entry = FALSE /\ sched = [s \in Scheduler |-> "off"] /\ starting = FALSE
    /\ resume = "idle" /\ jobs = TRUE
    /\ late = {} /\ lost = FALSE /\ events = 0

\* The types of the connection, of its callers and of the schedulers.
TypeOK ==
    /\ status \in Statuses /\ client \in 0..MaxClient /\ live \subseteq Client
    /\ suppress \in BOOLEAN /\ userAbort \in BOOLEAN /\ cancel \in {"none", "set", "fired"}
    /\ holder \in Caller \union {Nobody} /\ stage \in {"none", "begun", "dial", "wsh"}
    /\ cred \in {"cached", "key", "asks"} /\ lastErr \in ErrorCodes /\ gaveUp \in BOOLEAN
    /\ health \in {"good", "stalled"} /\ waiting \subseteq Client /\ delayed \in 0..MaxDelayed
    /\ stallClose \in BOOLEAN /\ closing \in BOOLEAN /\ pausing \in BOOLEAN
    /\ pc \in [Caller -> {"idle", "prompt", "force", "want", "in", "wait", "back"}]
    /\ res \in [Caller -> Results]
    /\ entry \in BOOLEAN /\ sched \in [Scheduler -> {"off", "check", "attempt", "sleep", "exit"}]
    /\ starting \in BOOLEAN /\ resume \in {"idle", "close", "attempt"}
    /\ jobs \in BOOLEAN /\ late \subseteq Caller /\ lost \in BOOLEAN /\ events \in 0..MaxEvents

-----------------------------------------------------------------------------
(* Starting and stopping a scheduler *)

MayStart == CanReconnectWithoutPrompt /\ ~entry

Launch ==
    /\ entry' = TRUE
    /\ \E s \in Scheduler : /\ sched[s] = "off"
                            /\ sched' = [sched EXCEPT ![s] = "check"]

StartReconnectScheduler == IF MayStart THEN Launch ELSE UNCHANGED <<entry, sched>>

\* A scheduler whose attempt has ended, or that is on its way out.
Returning(s) == pc[s] = "back" \/ sched[s] = "exit"

\* Mutant: only the delayed event keeps auto-retry going.
MutHysteresisKicks ==
    /\ HysteresisEnds
    /\ \A s \in Scheduler : ~Returning(s)
    /\ IF status = "disconnected" THEN StartReconnectScheduler ELSE UNCHANGED <<entry, sched>>
    /\ UNCHANGED <<starting, resume, jobs>>

\* kickReconnectScheduler, under lifecycleLock.  The hysteresis window (1.5 s)
\* outlasts the return of a scheduler that saw the connection up before it.
HysteresisKicks ==
    /\ HysteresisEnds
    /\ \A s \in Scheduler : ~Returning(s)
    /\ StartReconnectScheduler
    /\ UNCHANGED <<starting, resume, jobs>>

\* onConnectionDown, from a connchange event handled late, and the start that
\* a failed startup asks for: the checks, and later the writes.
StartRequested ==
    /\ ~starting /\ MayStart /\ starting' = TRUE
    /\ UNCHANGED <<cvars, entry, sched, resume, jobs>>

StartsLate ==
    /\ starting /\ starting' = FALSE
    /\ Launch
    /\ UNCHANGED <<cvars, resume, jobs>>

\* The user's Close and Stop call StopReconnectScheduler.
UserCloses == Close /\ entry' = FALSE /\ UNCHANGED <<sched, starting, resume, jobs>>
UserStops  == PauseAborts /\ entry' = FALSE /\ UNCHANGED <<sched, starting, resume, jobs>>

-----------------------------------------------------------------------------
(* The loop of a scheduler *)

Goto(s, where) == sched' = [sched EXCEPT ![s] = where]

\* The checks at the top of the loop.  Time may be up whenever it runs.
SchedulerChecks(s) ==
    /\ sched[s] = "check"
    /\ \/ /\ suppress \/ status = "connected" \/ ~jobs
          /\ gaveUp' = (gaveUp /\ (suppress \/ status # "connected"))
          /\ Goto(s, "exit")
       \/ /\ ~suppress
          /\ gaveUp' = TRUE /\ Goto(s, "exit")
       \/ /\ ~suppress /\ status # "connected" /\ jobs
          /\ Goto(s, "attempt") /\ UNCHANGED gaveUp
    /\ UNCHANGED <<status, suppress, cred, lastErr, userVars, attemptVars, clientVars, callVars,
                   entry, starting, resume, jobs>>

SchedulerAttempts(s) ==
    /\ sched[s] = "attempt" /\ pc[s] = "idle"
    /\ AttemptReconnect(s)
    /\ UNCHANGED <<status, suppress, cred, lastErr, gaveUp, userVars, attemptVars, clientVars, svars>>

\* classifySchedulerAttemptError, between two looks at the suppress flag.
SchedulerLearns(s) ==
    /\ sched[s] = "attempt" /\ pc[s] = "back"
    /\ pc' = [pc EXCEPT ![s] = "idle"] /\ res' = [res EXCEPT ![s] = "none"]
    /\ LET r == IF status = "connected" THEN "ok" ELSE res[s]
           stopped == suppress \/ r = "suppressed" IN
       /\ Goto(s, IF stopped \/ r \in {"ok", "auth-failed", "permanent", "refused"}
                  THEN "exit" ELSE "sleep")
       /\ gaveUp' = IF stopped THEN gaveUp
                    ELSE IF r \in {"auth-failed", "refused"} THEN TRUE
                    ELSE gaveUp /\ r # "ok"
    /\ UNCHANGED <<status, suppress, cred, lastErr, userVars, attemptVars, clientVars,
                   entry, starting, resume, jobs>>

SchedulerWakes(s) ==
    /\ sched[s] = "sleep" /\ Goto(s, "check")
    /\ UNCHANGED <<cvars, entry, starting, resume, jobs>>

\* Mutant: a scheduler that is stopped leaves its flag to StopReconnectScheduler.
MutSchedulerExits(s) ==
    /\ sched[s] = "exit" /\ Goto(s, "off") /\ entry' = (entry /\ suppress)
    /\ UNCHANGED <<cvars, starting, resume, jobs>>

\* The deferred Delete.
SchedulerExits(s) ==
    /\ sched[s] = "exit" /\ Goto(s, "off") /\ entry' = FALSE
    /\ UNCHANGED <<cvars, starting, resume, jobs>>

-----------------------------------------------------------------------------
(* HandleSystemResume *)

SystemResumes ==
    /\ resume = "idle" /\ pc[Resume] = "idle"
    /\ CanReconnectWithoutPrompt /\ jobs
    /\ ~(status = "connected" /\ health = "good")
    /\ entry' = FALSE
    /\ resume' = IF status = "connected" THEN "close" ELSE "attempt"
    /\ UNCHANGED <<cvars, sched, starting, jobs>>

ResumeCloses ==
    /\ LockFree /\ resume = "close" /\ Settled
    /\ resume' = "attempt"
    /\ CloseInvoluntary
    /\ UNCHANGED <<suppress, cred, lastErr, gaveUp, userVars, attemptVars, waiting, stallClose,
                   callVars, entry, sched, starting, jobs>>

ResumeAttempts ==
    /\ resume = "attempt" /\ resume' = "idle"
    /\ AttemptReconnect(Resume)
    /\ UNCHANGED <<status, suppress, cred, lastErr, gaveUp, userVars, attemptVars, clientVars,
                   entry, sched, starting, jobs>>

\* A durable job starts on the connection; the last one ends.
JobsChange ==
    /\ jobs' = ~jobs /\ (jobs' => status = "connected")
    /\ UNCHANGED <<cvars, entry, sched, starting, resume>>

-----------------------------------------------------------------------------
Alone(A) == A /\ UNCHANGED svars

\* Connect, by the caller who has lifecycleLock or gets it.
Enters(c)    == Alone(ConnectBegins(c)) \/ Alone(ConnectRefused(c))
AttemptSteps ==
    \/ Alone(ConnectArms) \/ Alone(DialSucceeds) \/ Alone(ConnectSucceeds)
    \/ \E err \in DialErrors \union {"transient"} : Alone(ConnectFails(err))
CallerSteps ==
    \/ \E c \in OneShot : Enters(c)
    \/ Alone(EnsureRetries) \/ Alone(RepromptAnswered) \/ StartsLate
    \/ Alone(ForceBegins) \/ Alone(ForceNoOp)
    \/ UserCloses \/ UserStops
    \/ ResumeCloses \/ ResumeAttempts \/ Alone(WaitedForConnect(Resume))
ClientSteps ==
    \/ Alone(StallCloses)
    \/ \E k \in Client : Alone(WaiterStale(k)) \/ Alone(WaiterDisconnects(k))
Hysteresis == Alone(HysteresisHealed) \/ HysteresisKicks
Runs(s) ==
    \/ SchedulerChecks(s) \/ SchedulerAttempts(s) \/ SchedulerLearns(s)
    \/ SchedulerWakes(s) \/ SchedulerExits(s) \/ Alone(WaitedForConnect(s)) \/ Enters(s)

\* What the user, the network and the system do.
Disturbances ==
    \/ Alone(UserConnects) \/ Alone(CloseRequested) \/ Alone(Pause)
    \/ Alone(EnsureConnection) \/ SystemResumes \/ JobsChange \/ StartRequested
    \/ Alone(TransportDies) \/ Alone(HealthChanges) \/ Alone(DisconnectOnStall)

\* The history variables follow every step.
Remember ==
    /\ late' = IF suppress' /\ ~suppress THEN {c \in Caller : pc[c] = "want"}
               ELSE {c \in late : pc'[c] = "want"}
    /\ lost' = /\ status' # "connected" /\ CanReconnectWithoutPrompt' /\ ~gaveUp' /\ jobs'
               /\ lost \/ (status = "connected" /\ status' = "disconnected")

Works(A) == A /\ UNCHANGED events /\ Remember

Next ==
    \/ Works(AttemptSteps) \/ Works(CallerSteps) \/ Works(ClientSteps) \/ Works(Hysteresis)
    \/ \E s \in Scheduler : Works(Runs(s))
    \/ Disturbances /\ events < MaxEvents /\ events' = events + 1 /\ Remember

\* A goroutine that can run does.
Fairness ==
    /\ WF_vars(Works(AttemptSteps)) /\ WF_vars(Works(CallerSteps))
    /\ WF_vars(Works(ClientSteps)) /\ WF_vars(Works(Hysteresis))
    /\ \A s \in Scheduler : WF_vars(Works(Runs(s)))

Spec == Init /\ [][Next]_vars /\ Fairness

-----------------------------------------------------------------------------
\* Whenever lifecycleLock is free, the status says "connected" exactly when
\* there is a client: no closed or failed connection leaves one behind, and no
\* connection reported up has lost its own to a stale goroutine.
ClientMatchesStatus == LockFree => (client # 0 <=> status = "connected")

\* A connected status is left only because the client in use died, or because
\* the user, the stall monitor, ForceReconnect or a resume closed it.  The end
\* of an older client never takes the present one down.
DropsForCause ==
    [][status = "connected" /\ status' # "connected" =>
        \/ client \notin live
        \/ closing /\ ~closing'
        \/ stallClose /\ ~stallClose'
        \/ resume = "close" \/ pc[User] = "force"]_vars

\* Once the user has said Disconnect, Stop or Cancel, only an explicit Connect
\* takes that back, or an attempt that was past its check when he said it.
SuppressHolds ==
    [][suppress /\ ~suppress' => holder' = User \/ holder' \in late]_vars

\* The flag that keeps a second scheduler from starting stands for a scheduler:
\* a flag left behind would keep the connection from ever healing again.
EntryHasScheduler == entry => \E s \in Scheduler : sched[s] # "off"

\* A connection that dropped with jobs running on it, that may be healed
\* without a prompt, is tried again and again until it is up, the user stops
\* it, or a scheduler says that it gives up.
KeepsRetrying == lost ~> (~lost \/ status = "connecting")
=============================================================================
