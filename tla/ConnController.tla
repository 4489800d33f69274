---------------------------- MODULE ConnController ----------------------------
(***************************************************************************)
(* pkg/remote/conncontroller: one SSH connection.  conn.lock protects its  *)
(* fields; lifecycleLock is held through a whole Connect, from the status  *)
(* "connecting" to its outcome, and through a close.  Stop auto-retry and  *)
(* Cancel do not take lifecycleLock, so they run in the middle of an       *)
(* attempt.  A goroutine per client waits for its end (waitForDisconnect); *)
(* a hysteresis goroutine settles each involuntary disconnect.             *)
(*                                                                         *)
(* An action is one critical section of lifecycleLock, or of conn.lock     *)
(* where the code takes that one alone.  The actions say what happens to   *)
(* the connection; ReconnectScheduler composes them with the callers of    *)
(* Connect in pkg/jobcontroller.                                           *)
(***************************************************************************)
EXTENDS Naturals, FiniteSets

CONSTANTS
    Caller,      \* who may call Connect
    User,        \* the user's Connect and "Reconnect now" (ForceReconnect)
    Ensure,      \* EnsureConnection, from a block that becomes visible
    Reprompt,    \* requestPasswordRePrompt
    Resume,      \* the fast path of HandleSystemResume
    Nobody,      \* lifecycleLock is free, nobody is in Connect
    MaxClient,   \* bound: ssh clients told apart at one time
    MaxDelayed,  \* bound: hysteresis goroutines at one time
    Creds,       \* what a handshake may leave: "cached", "key", "asks"
    DialErrors   \* how a dial may fail

OneShot == {User, Ensure, Reprompt, Resume}  \* they do not look at the result

ASSUME CallerAssumption == OneShot \subseteq Caller /\ Nobody \notin Caller
ASSUME BoundAssumption == MaxClient \in Nat \ {0} /\ MaxDelayed \in Nat \ {0}
ASSUME CredsAssumption == Creds # {} /\ Creds \subseteq {"cached", "key", "asks"}
ASSUME DialErrorsAssumption ==
    DialErrors \subseteq {"transient", "refused", "auth-failed", "permanent"}

VARIABLES
    status,      \* conn.Status
    client,      \* conn.Client, 0 when nil
    live,        \* the clients whose transport still works
    suppress,    \* SuppressAutoReconnect
    userAbort,   \* userAbortConnect
    cancel,      \* connectCancel: "none", "set", "fired"
    holder,      \* who is in connectWithLifecycleLock
    stage,       \* how far: "none", "begun", "dial", "wsh"
    cred,        \* cached password, a key, or the user must be asked
    lastErr,     \* LastErrorCode
    gaveUp,      \* ReconnectGaveUp
    health,      \* ConnHealthStatus
    waiting,     \* the clients waitForDisconnect still waits for
    delayed,     \* hysteresis goroutines that have not run yet
    stallClose,  \* disconnectOnStall started a CloseInvoluntary
    closing,     \* the user's Close waits for lifecycleLock
    pausing,     \* between PauseAutoReconnect's flags and its AbortConnect
    pc,          \* caller -> "idle", "prompt", "force", "want", "in", "wait", "back"
    res          \* caller -> how its last AttemptReconnect ended

userVars    == <<closing, pausing>>
attemptVars == <<userAbort, cancel, holder, stage>>
clientVars  == <<client, live, health, waiting, delayed, stallClose>>
callVars    == <<pc, res>>
cvars == <<status, suppress, cred, lastErr, gaveUp, userVars, attemptVars,
           clientVars, callVars>>

Client     == 1..MaxClient
Statuses   == {"init", "connecting", "connected", "disconnected", "error"}
ErrorCodes == {"none", "transient", "refused", "auth-failed", "permanent", "user-cancelled"}
Results    == ErrorCodes \union {"ok", "suppressed"}

LockFree == holder = Nobody
Alive    == status \in {"connected", "connecting"}

\* canReconnectWithoutPromptLocked
CanReconnectWithoutPrompt ==
    /\ ~suppress /\ lastErr # "permanent"
    /\ \/ cred = "cached"
       \/ cred = "key" /\ lastErr \notin {"auth-failed", "user-cancelled"}

ClearedCache == IF cred = "cached" THEN "asks" ELSE cred

\* A connection nobody has asked for yet, or one that is up.
CInit ==
    /\ \/ status = "init" /\ client = 0 /\ live = {} /\ waiting = {}
       \/ status = "connected" /\ client = 1 /\ live = {1} /\ waiting = {1}
    /\ suppress = FALSE /\ lastErr = "none" /\ gaveUp = FALSE
    /\ cred \in Creds
    /\ closing = FALSE /\ pausing = FALSE
    /\ userAbort = FALSE /\ cancel = "none" /\ holder = Nobody /\ stage = "none"
    /\ health = "good" /\ delayed = 0
    /\ stallClose = FALSE
    /\ pc = [c \in Caller |-> "idle"] /\ res = [c \in Caller |-> "none"]

\* closeInternal_withlifecyclelock(nil): the resources are taken at once, the
\* client is closed by a goroutine.
CloseResources == client' = 0 /\ live' = live \ {client}

-----------------------------------------------------------------------------
(* Connect *)

\* The status check and the reset at the top of connectWithLifecycleLock.
Begin(c) ==
    /\ status' = "connecting" /\ suppress' = FALSE /\ gaveUp' = FALSE
    /\ holder' = c /\ stage' = "begun"
    /\ pc' = [pc EXCEPT ![c] = "in"]

\* Connect gets lifecycleLock and may begin.
ConnectBegins(c) ==
    /\ LockFree /\ pc[c] = "want" /\ ~Alive
    /\ Begin(c)
    /\ UNCHANGED <<cred, lastErr, userVars, userAbort, cancel, clientVars, res>>

\* The program counters and results once c's call has returned r.
Back(p, c)    == [p EXCEPT ![c] = IF c \in OneShot THEN "idle" ELSE "back"]
Answer(c, r)  == IF c \in OneShot THEN res ELSE [res EXCEPT ![c] = r]
\* requestPasswordRePrompt is started, unless a prompt is already shown.
Asking(p)     == [p EXCEPT ![Reprompt] = IF @ = "idle" THEN "prompt" ELSE @]

\* Connect finds the connection connected.  AttemptReconnect takes a peer's
\* success for its own.
ConnectRefused(c) ==
    /\ LockFree /\ pc[c] = "want" /\ Alive
    /\ pc' = Back(pc, c) /\ res' = Answer(c, "ok")
    /\ UNCHANGED <<status, suppress, cred, lastErr, gaveUp, userVars, attemptVars, clientVars>>

\* userAbortConnect is reset and connectCancel set, some way into Connect.
ConnectArms ==
    /\ stage = "begun"
    /\ stage' = "dial" /\ userAbort' = FALSE /\ cancel' = "set"
    /\ UNCHANGED <<status, suppress, cred, lastErr, gaveUp, userVars, holder, clientVars, callVars>>

\* ConnectToClient returns a client, which connectInternal stores; it starts
\* waitForDisconnect and a monitor for it.
DialSucceeds ==
    /\ stage = "dial" /\ cancel # "fired"
    /\ Client \ waiting # {}
    /\ client' = CHOOSE k \in Client \ waiting : TRUE
    /\ live' = live \union {client'} /\ waiting' = waiting \union {client'}
    /\ cred' \in Creds
    /\ stage' = "wsh" /\ health' = "good"
    /\ UNCHANGED <<status, suppress, lastErr, gaveUp, userVars, userAbort, cancel, holder,
                   delayed, stallClose, callVars>>

\* Connect releases lifecycleLock and returns r to its caller.
Leave(r, p) ==
    /\ holder' = Nobody /\ stage' = "none" /\ cancel' = "none"
    /\ pc' = Back(p, holder) /\ res' = Answer(holder, r)

\* connectInternal returns an error: its code is the user's abort, if there
\* was one, and decides what is forgotten and whether retries are suppressed.
\* A rejected credential asks the user again, unless retries are suppressed.
ConnectFails(err) ==
    /\ \/ stage = "dial" /\ err \in DialErrors /\ (cancel = "fired" => err = "transient")
       \/ stage = "wsh" /\ err = "transient"
    /\ LET code == IF userAbort THEN "user-cancelled" ELSE err IN
       /\ lastErr' = code
       /\ suppress' = (suppress \/ code \in {"permanent", "user-cancelled"})
       /\ cred' = IF code = "auth-failed" THEN ClearedCache ELSE cred
       /\ Leave(err, IF code = "auth-failed" /\ ~suppress' THEN Asking(pc) ELSE pc)
    /\ status' = IF status = "connecting" THEN "error" ELSE status
    /\ userAbort' = FALSE
    /\ CloseResources
    /\ UNCHANGED <<gaveUp, userVars, health, waiting, delayed, stallClose>>

\* connectInternal succeeds.  The status is set whatever it has become.
ConnectSucceeds ==
    /\ stage = "wsh"
    /\ status' = "connected" /\ lastErr' = "none" /\ gaveUp' = FALSE
    /\ Leave("ok", pc)
    /\ UNCHANGED <<suppress, cred, userVars, userAbort, clientVars>>

-----------------------------------------------------------------------------
(* Close, Stop, Cancel *)

\* What closeWithLifecycleLock(FALSE) does to the connection: a disconnect that
\* a reconnection may heal without a prompt is settled later.
CloseInvoluntary ==
    /\ status' = IF Alive THEN "disconnected" ELSE status
    /\ health' = "good"
    /\ CloseResources
    /\ delayed' = IF CanReconnectWithoutPrompt THEN delayed + 1 ELSE delayed

Settled == CanReconnectWithoutPrompt => delayed < MaxDelayed

\* ForceReconnect closes a stalled connection and connects under one lock.
ForceBegins ==
    /\ LockFree /\ pc[User] = "force" /\ Settled
    /\ status = "connected" => health = "stalled"
    /\ IF Alive THEN CloseResources /\ health' = "good"
                     /\ delayed' = IF CanReconnectWithoutPrompt THEN delayed + 1 ELSE delayed
                ELSE UNCHANGED <<client, live, health, delayed>>
    /\ Begin(User)
    /\ UNCHANGED <<cred, lastErr, userVars, userAbort, cancel, waiting, stallClose, res>>

ForceNoOp ==
    /\ LockFree /\ pc[User] = "force"
    /\ status = "connected" /\ health # "stalled"
    /\ pc' = [pc EXCEPT ![User] = "idle"]
    /\ UNCHANGED <<status, suppress, cred, lastErr, gaveUp, userVars, attemptVars, clientVars, res>>

\* The user disconnects: Close waits for lifecycleLock.
CloseRequested ==
    /\ ~closing /\ closing' = TRUE
    /\ UNCHANGED <<status, suppress, cred, lastErr, gaveUp, pausing, attemptVars, clientVars, callVars>>

Close ==
    /\ LockFree /\ closing
    /\ closing' = FALSE
    /\ status' = IF Alive THEN "disconnected" ELSE status
    /\ suppress' = TRUE /\ cred' = ClearedCache /\ health' = "good"
    /\ CloseResources
    /\ UNCHANGED <<lastErr, gaveUp, pausing, attemptVars, waiting, delayed, stallClose, callVars>>

\* PauseAutoReconnect and CancelAuthForConnection, first the flags ...
Pause ==
    /\ ~pausing /\ pausing' = TRUE
    /\ suppress' = TRUE
    /\ status' = IF status = "connecting" THEN "disconnected" ELSE status
    /\ lastErr' \in IF status = "connecting" THEN {"user-cancelled"}
                                             ELSE {lastErr, "user-cancelled"}
    /\ UNCHANGED <<cred, gaveUp, closing, attemptVars, clientVars, callVars>>

\* ... then AbortConnect, and the prompts are cancelled.
PauseAborts ==
    /\ pausing /\ pausing' = FALSE
    /\ userAbort' = TRUE
    /\ cancel' = IF cancel = "set" THEN "fired" ELSE cancel
    /\ pc' = [pc EXCEPT ![Reprompt] = IF @ = "prompt" THEN "idle" ELSE @]
    /\ UNCHANGED <<status, suppress, cred, lastErr, gaveUp, closing, holder, stage, clientVars, res>>

-----------------------------------------------------------------------------
(* The end of a client *)

TransportDies ==
    /\ client \in live
    /\ live' = live \ {client}
    /\ UNCHANGED <<status, suppress, cred, lastErr, gaveUp, userVars, attemptVars, client, health,
                   waiting, delayed, stallClose, callVars>>

\* The monitor of the present client finds it silent; an answer clears that.
HealthChanges ==
    /\ client # 0
    /\ health' \in {"good", "stalled"} \ {health}
    /\ UNCHANGED <<status, suppress, cred, lastErr, gaveUp, userVars, attemptVars, client, live,
                   waiting, delayed, stallClose, callVars>>

DisconnectOnStall ==
    /\ client # 0 /\ health = "stalled" /\ Alive /\ ~stallClose
    /\ stallClose' = TRUE
    /\ UNCHANGED <<status, suppress, cred, lastErr, gaveUp, userVars, attemptVars, client, live,
                   health, waiting, delayed, callVars>>

\* Its goroutine closes the connection, whichever client that has by then.
StallCloses ==
    /\ LockFree /\ stallClose /\ Settled
    /\ stallClose' = FALSE
    /\ CloseInvoluntary
    /\ UNCHANGED <<suppress, cred, lastErr, gaveUp, userVars, attemptVars, waiting, callVars>>

\* Mutant: the status changes although another client is connected.
MutWaiterStatus(k) ==
    /\ LockFree /\ k \in waiting \ live /\ client \notin {0, k}
    /\ waiting' = waiting \ {k}
    /\ status' = "disconnected"
    /\ UNCHANGED <<suppress, cred, lastErr, gaveUp, userVars, attemptVars, client, live,
                   health, delayed, stallClose, callVars>>

\* Mutant: ... and its resources are taken as well.
MutWaiterSteals(k) ==
    /\ LockFree /\ k \in waiting \ live /\ client \notin {0, k}
    /\ waiting' = waiting \ {k}
    /\ status' = "disconnected" /\ CloseResources
    /\ UNCHANGED <<suppress, cred, lastErr, gaveUp, userVars, attemptVars,
                   health, delayed, stallClose, callVars>>

\* waitForDisconnect wakes up for client k.  Another client is not its business.
WaiterStale(k) ==
    /\ LockFree /\ k \in waiting \ live /\ client \notin {0, k}
    /\ waiting' = waiting \ {k}
    /\ UNCHANGED <<status, suppress, cred, lastErr, gaveUp, userVars, attemptVars, client, live,
                   health, delayed, stallClose, callVars>>

WaiterDisconnects(k) ==
    /\ LockFree /\ k \in waiting \ live /\ client \in {0, k} /\ Settled
    /\ waiting' = waiting \ {k}
    /\ status' = IF CanReconnectWithoutPrompt
                 THEN IF Alive THEN "disconnected" ELSE status
                 ELSE IF status = "error" THEN status ELSE "disconnected"
    /\ delayed' = IF CanReconnectWithoutPrompt THEN delayed + 1 ELSE delayed
    /\ health' = "good"
    /\ client' = 0
    /\ UNCHANGED <<suppress, cred, lastErr, gaveUp, userVars, attemptVars, live, stallClose, callVars>>

\* The hysteresis window ends: a reconnection made it pointless.
HysteresisHealed ==
    /\ LockFree /\ delayed > 0 /\ client # 0
    /\ delayed' = delayed - 1
    /\ UNCHANGED <<status, suppress, cred, lastErr, gaveUp, userVars, attemptVars, client, live,
                   health, waiting, stallClose, callVars>>

\* Mutant: the timer's goroutine runs twice.
MutHysteresisEnds ==
    /\ LockFree /\ client = 0
    /\ delayed' = delayed - 1
    /\ UNCHANGED <<status, suppress, cred, lastErr, gaveUp, userVars, attemptVars, client, live,
                   health, waiting, stallClose, callVars>>

\* It ends with no client: kickReconnectScheduler, which the composition adds.
HysteresisEnds ==
    /\ LockFree /\ delayed > 0 /\ client = 0
    /\ delayed' = delayed - 1
    /\ UNCHANGED <<status, suppress, cred, lastErr, gaveUp, userVars, attemptVars, client, live,
                   health, waiting, stallClose, callVars>>

-----------------------------------------------------------------------------
(* The callers of Connect *)

UserConnects ==
    /\ pc[User] = "idle"
    /\ pc' \in {[pc EXCEPT ![User] = w] : w \in {"want", "force"}}
    /\ UNCHANGED <<status, suppress, cred, lastErr, gaveUp, userVars, attemptVars, clientVars, res>>

\* EnsureConnection: suppressed and connected are no business of it; a hung
\* attempt is cancelled without the user's abort, and tried again.
EnsureConnection ==
    /\ pc[Ensure] = "idle" /\ ~suppress
    /\ \/ status \in {"init", "disconnected", "error"}
          /\ pc' = [pc EXCEPT ![Ensure] = "want"] /\ UNCHANGED cancel
       \/ status = "connecting" /\ cancel = "set"
          /\ pc' = [pc EXCEPT ![Ensure] = "wait"] /\ cancel' = "fired"
    /\ UNCHANGED <<status, suppress, cred, lastErr, gaveUp, userVars, userAbort, holder, stage,
                   clientVars, res>>

EnsureRetries ==
    /\ pc[Ensure] = "wait" /\ status # "connecting"
    /\ pc' = [pc EXCEPT ![Ensure] = IF suppress \/ status = "connected" THEN "idle" ELSE "want"]
    /\ UNCHANGED <<status, suppress, cred, lastErr, gaveUp, userVars, attemptVars, clientVars, res>>

\* The user answers the prompt, which caches the password, or lets it time out.
RepromptAnswered ==
    /\ pc[Reprompt] = "prompt"
    /\ \/ /\ ~suppress
          /\ pc' = [pc EXCEPT ![Reprompt] = "want"] /\ cred' = "cached"
       \/ pc' = [pc EXCEPT ![Reprompt] = "idle"] /\ UNCHANGED cred
    /\ UNCHANGED <<status, suppress, lastErr, gaveUp, userVars, attemptVars, clientVars, res>>

\* Mutant: the suppress flag is not looked at.
MutAttemptReconnect(c) ==
    IF status = "connected" THEN pc' = Back(pc, c) /\ res' = Answer(c, "ok")
    ELSE pc' = [pc EXCEPT ![c] = IF status = "connecting" THEN "wait" ELSE "want"]
         /\ res' = res

\* AttemptReconnect, up to its call of Connect.
AttemptReconnect(c) ==
    IF suppress THEN pc' = Back(pc, c) /\ res' = Answer(c, "suppressed")
    ELSE IF status = "connected" THEN pc' = Back(pc, c) /\ res' = Answer(c, "ok")
    ELSE pc' = [pc EXCEPT ![c] = IF status = "connecting" THEN "wait" ELSE "want"]
         /\ res' = res

\* WaitForConnect looks at the status until the caller's deadline.
WaitedForConnect(c) ==
    /\ pc[c] = "wait" /\ c # Ensure
    /\ pc' = Back(pc, c)
    /\ res' = Answer(c, IF status = "connected" THEN "ok" ELSE "transient")
    /\ UNCHANGED <<status, suppress, cred, lastErr, gaveUp, userVars, attemptVars, clientVars>>
=============================================================================
