# RemoteTerm: a verification project

RemoteTerm is a terminal whose SSH sessions survive network drops, sleeping laptops and restarts of
the application. A *durable* session runs under a **job manager** on the remote host; the
application's **main server** connects to it, is disconnected from it and connects again, and the
terminal on the screen is expected to show everything the program wrote, once and in order. These
modules model that promise and the code that keeps it, check it with TLC and prove it with
TLAPS: the output stream (`src/pkg/jobmanager`, `src/pkg/streamclient`), the connection and the
schedulers that bring it back (`src/pkg/remote/conncontroller`), the reconnection of a job
(`src/pkg/jobcontroller`), the keys that go in (`src/pkg/utilds`) and the files that the output ends
up in (`src/pkg/filestore`).

* [1. The system](#1-the-system): its parts, their state, their operations, how they meet
* [2. The modules](#2-the-modules): which module models what, and how state and actions correspond
* [3. The runs](#3-the-runs): what each run checks, its bounds, what it shows
* [4. Fairness](#4-fairness), [5. Findings](#5-what-the-code-does-that-its-documents-do-not-say), [6. Proofs](#6-proofs)
* [7. What is not modelled](#7-what-is-not-modelled) and [8. The plan](#8-the-plan)

## 1. The system

```
 remote host                                            the user's machine
 program -> pty -> StreamManager ==packets==> broker -> Reader -> runOutputLoop -> terminal file
                   ring | disk file  <==acks==                    (jobcontroller)   (filestore)
                   JobManager        <==PrepareConnect, StartStream== restartStreaming
 program <- input queue <--JobInputCommand-- durable shell controller <- keys
                   route of the job  --up, down-->  ReconnectJob, ReconnectJobRoute
 sshd    <-------- one connection, status and client --------  conncontroller <- schedulers, user
```

| component | state | operations | hard because | correct means |
|---|---|---|---|---|
| ring buffer `CirBuf` (`jobmanager/cirbuf.go`) | ring, read and write position, count, total, window, mode, one parked writer | write, peek, consume, set window, set total | wrap-around, two modes, window below the ring's size, wake-ups | bytes come out as they went in; a writer sleeps only while the ring is full |
| `StreamManager` (`jobmanager/streammanager.go`) | ring, disk file and its positions, window and bytes in flight, end of stream, generation of drains | read loop, sender loop, drain goroutine per reconnection, ClientConnected, ClientDisconnected, RecvAck, SetRwndSize, send timeout | three kinds of goroutine write to the ring or the file outside the manager's lock | positions name the bytes they claim; nothing unacknowledged is dropped while connected; the end is announced last |
| `JobManager` (`jobmanager/jobmanager.go`, `mainserverconn.go`) | command, connected client, pending stream | StartJob, PrepareConnect, StartStream, socket client | calls of several connections, a dead connection that is not noticed | one stream at a time; a program is not blocked by a lost client |
| broker and `Reader` (`streamclient`) | readers and writers by stream id, expected position, buffer, packets out of order | RecvData, Read, UpdateNextSeq, DrainBuffered, Close; ack routing | late packets and acks of older streams, corked start | in-order delivery, no overrun of the buffer |
| `jobcontroller`: output | terminal file, its `totalGap`, current stream and reader, StreamDone | retirePrevStream, restartStreaming, runOutputLoop | restart while the old loop still runs; position reconciliation | the terminal file is the output, in order, and the gap counts what it lacks |
| `jobcontroller`: reconnection | per-job lock, connection status and stream record of the job, retries, cooldown, schedulers | route up and down, onConnectionUp, attemptAutoReconnect, the three restarts, exit and termination | timers, events and users retry the same job; old output loops overlap new ones | a stream recorded active is one; a working stream is kept; a job gets its stream back; a finished job's manager is ended |
| `conncontroller` | status, client, suppression, credentials, stall monitor | Connect, ForceReconnect, Close, Stop, Cancel, EnsureConnection, waitForDisconnect, hysteresis | some take the lock of a whole attempt, some run in the middle of it; goroutines outlive their client | status follows the connection; no resurrected connection; the user's stop holds |
| reconnect schedulers (`jobcontroller`) | a flag per connection, one goroutine each | start, loop, stop, system resume | started by two events, stopped by others, each checks before it writes | a flag stands for a goroutine; a lost connection is retried |
| input path (`utilds/quickreorderqueue.go`) | next number, held keys, timer, session order | QueueItem, timeout, session change | sends on a channel with the lock held; late keys after a timeout | in order, none twice, none stuck |
| RPC router and engine (`wshutil`) | routes, links, queued messages, pending requests | register, unregister, route, request, response, timeout | registration races with sends | answers reach their caller; nothing is routed to a dead link for good |
| file store (`filestore`) | write-back cache over SQL, circular files | append, write, read, flush, delete | flush races with appends, unflushed data lost by a kill, parts loaded or not | cache and database together are one file; a restart finds what it was at some time |
| block controllers | per-block controller and its status | start, stop, resync | replacement while the old one stops | one controller per block |
| the rest | | | | listed in [7](#7-what-is-not-modelled) |

**How they meet.** The read loop, a drain goroutine per reconnection and the sender loop share the
ring; `StreamManager.lock` protects everything else. `JobManager.lock` serialises PrepareConnect and
StartStream. Packets travel through one work queue and one connection and keep their order, so do
acknowledgements; calls run in goroutines of their own and keep no order with packets. The main
server restarts the stream after every reconnection, or when the user asks: it retires the old
reader, asks the job manager for the stream *from the end of its terminal file*, reconciles its
position with the reply, and starts the new loop. The connection announces itself with events that
are reconciled later, the job manager's route with others; both start reconnections of the job. A
lost connection is settled after a hysteresis window, which starts a scheduler; the scheduler calls
Connect as the user does. A key is numbered by the block's controller and goes to the job manager in
a call of its own; its echo is output, which is appended to the job's file and then to the block's,
the one that is shown.

## 2. The modules

| module | models | is |
|---|---|---|
| `FlowBufOps` | what `cirbuf.go` promises | operators on a buffer record, one per method |
| `FlowBuf` | the same, as a state machine | abstract specification |
| `CirBuf` | `cirbuf.go`: ring, positions, modes | implements `FlowBuf` |
| `StreamManager` | `streammanager.go` on `FlowBufOps` | component, open environment |
| `DurableStream` | `StreamManager` + job manager + network + reader + output loop + restart handshake | the composition |
| `OutputPipe` | what a durable terminal promises | abstract specification, implemented by `DurableStream` |
| `ConnController` | `conncontroller.go`: one SSH connection and the callers of Connect | component |
| `ReconnectScheduler` | the schedulers and the resume path of `jobcontroller.go`, on `ConnController` | composition |
| `JobReconnect` | `jobcontroller.go`: reconnection, stream record and end of one job | component, connection and job manager as environment |
| `ReorderQueue` | `quickreorderqueue.go` | component |
| `FileStore` | `blockstore.go`, `blockstore_cache.go`, `blockstore_dbops.go`: circular files | component |
| `StoredFile` | what `filestore` promises | abstract specification, implemented by `FileStore` within `Terminal` |
| `Terminal` | a key's way: controller, `ReorderQueue`, program, output loop, two files in `FileStore` | the composition |
| `MCCirBuf`, `MCDurableStream`, `MCConn`, `MCJobs`, `MCTerminal` | constants for TLC, and the byte loop of `WriteAvailable` as a reference | |
| `CirBufProofs`, `StreamManagerProofs` | theorems of `CirBuf` and `StreamManager` | proofs |
| `DurableProofs`, `CalmProofs`, `PipeProofs` | theorems of `DurableStream`: in all its behaviours, outside the windows, and its refinement of `OutputPipe` | proofs, each on the one before |
| `ReconnectProofs`, `JobReconnectProofs`, `TerminalProofs` | theorems of `ReconnectScheduler`, `JobReconnect` and `Terminal` | proofs |

**`CirBuf`.** One action per method; each holds the ring's lock from its first to its last line. A
parked writer is the channel in `waiterChan`; a second one is the panic in the code, after which
nothing happens. The byte loop of `WriteAvailable` is written in closed form (`WriteSome`).

**`StreamManager`.** An action is one critical section of `StreamManager.lock`, so the instants
between two sections of one goroutine are there: `rl` (read loop), `drains` (one drain goroutine per
connection), `sndPc` and `pkt` (sender loop) are the program counters and local variables. The ring
is written *outside* that lock, so `ClientConnected`, one critical section that calls the ring
several times, is three steps (`cc`) between which only the ring's writers can move. Data bytes are
numbers: byte *i* of the program's output is *i*, so a byte out of place is visible. A disk file is
named by the generation that created it (`diskFile`), a model of the pointer comparison in
`handleReadData`. `drainCond.Wait` is `sndPc = "park"`, `Signal` is the operator of that name.
In its own specification the environment connects, acknowledges and changes windows as it likes; its
theorems hold of that one. TLC checks the same invariants within `DurableStream`.

**`DurableStream`.** `dnet` and `anet` are the two ordered channels; `live` holds the streams whose
connection is still the present one (a stream keeps the connection it was started on); `attached`
are the streams whose acknowledgements the job manager's broker routes. `h` is the call that holds
`JobManager.lock`, which spans several critical sections of `StreamManager`; `cl` is the progress of
`restartStreaming`; `rd` is the reader; `file`, `gap` and `done` are the terminal file, `totalGap`
and `StreamDone`. `Restart` is `retirePrevStream` and what follows up to the request: close the old
reader, append what it still held, ask from the new end of the file. Faults are the members of
`Fault`: `drop` (the link fails, both ends keep running), `quit` (the application exits, flushing its
file cache as `doShutdown` does, and is started again), `restart` (by hand, on a live stream), `slow`
(a send times out although the packet arrives), `dead` (a send on a dead connection times out).

**Four windows.** The model found four instants in which the code lets a byte lose its place,
because ring and file are written outside `StreamManager.lock`. They are named:
`Straddles` (a disk file is opened while the read loop carries a chunk), `CutsDrain` (the client is
disconnected between a drain's check and its update), `Outruns` (the read loop overwrites the
ring's head while `ClientConnected` runs) and `Overfull` (the read loop carries a chunk that overwrites
the head of an asynchronous ring for which a disk file could have been opened: it filled the ring
between the disconnection and `activateDiskBuffering`, two consecutive calls in
`connectToStreamHelper_withlock`). The fourth came out of the attempt to prove the exact pipe: without
it the invariant that the ring's head never passes the reader is not inductive. `DSpec` is the system
with them. `CalmSpec` is the system in which they are not hit, and it is *this* specification that
implements `OutputPipe`: the windows are all that stands between the code and its promise, which
is a theorem ([6](#6-proofs)). What happens inside two of them is shown by violation runs
([5](#5-what-the-code-does-that-its-documents-do-not-say)). `Overfull` is stated with the ring's free
room, so a disconnection alone never hits it when the ring holds a congestion window and a packet,
as the code's sizes (2 MB, 64 KB, 4 KB) and every instance here do.

**`ConnController`.** An action is one critical section of `lifecycleLock`, or of `conn.lock` where the
code takes that one alone. Connect holds `lifecycleLock` throughout: `holder` is who, `stage` how far;
Stop and Cancel (`Pause`, then `PauseAborts`) do not take it and run in the middle. `waiting` are the
clients that a `waitForDisconnect` goroutine still watches, so a goroutine may wake up for a client
that was replaced long ago; such a goroutine has read its client before the attempt's startup ends.
`delayed` counts hysteresis goroutines, `cred` is what a reconnection could do without asking.

**`ReconnectScheduler`.** `entry` is the flag in `connectionReconnectSchedulers`, `sched` each
goroutine's place in its loop; `starting` is a start between its checks and its writes. The hysteresis
window of 1.5 s outlasts a scheduler that is only returning. `late` and `lost` are history: who was
past its check when the user said stop, and whether a connection was lost that the code means to heal.

**`JobReconnect`.** `lock`, `at` and `kind` are the call that has the job's lock, its place and what it
decided; `want` are the callers. A step ends where the code makes a remote call or takes a lock.
`health` is `jobStreamHealth`, `cur` `jobStreamIds`, `born` and `loops` the output loops: an old loop may
outlast `waitForStreamLoopExit`, but not the remote calls that follow (`OldLoopGone`); a goroutine makes
its first step before a remote call returns. `Converges` is what the repository demands of it, and it is
violated ([5](#5-what-the-code-does-that-its-documents-do-not-say)). `excused` is history of the ways in which that
happens: the code leaves a job alone (`LeftAlone`: a failed call nobody retries, the cooldown, an attempt that
joined one in flight) or reports a status of a route that is already lost (`Stale`).

**`ReorderQueue`, `Terminal`.** A key is a session and a number. An action is a critical section of the
queue's lock with all its sends; `aged` are the held keys that have waited for the timeout, in any
order. A timer that was stopped too late still fires (`stray`). In `Terminal` calls reorder freely and a
lost call is one that never arrives. The output of a key is `EchoLen` bytes, named by key and place,
so that a byte out of place is visible. `AppendJobFile` is a read of the output loop and the first append,
`AppendBlockFile` the second. Either may fail (`AppendJobFileFails`, which skips the second;
`AppendBlockFileFails`), and the loop goes on. `RestartStreaming` asks for the output from the size of the job's file
and its `totalgap` on (`Asked`) and gets it from there or from a later place, which is then recorded with
`WriteMeta`, unless that fails; it replaces a loop that runs (`StreamIsLost`) or one that ended with the server
(`StreamReturns`). `ServerRestarts` is a kill: files and `totalgap` are what was saved, and the position
with them. `mark` is history: for each file the place in the stream, and its size there, where it last
lost something (`Loses`: a failed append, a flush that gives up, a gap, a kill that loses the file's end or, when
`totalgap` does not account for it, its position) or was cleared.

**`FileStore`.** One action per operation, as each holds its entry's lock; a step of the flusher is one
entry, with the errors and the late commit its transaction may have. `Incomplete` and
`WithParts` are the rule that decides which parts are loaded before a write. `StoredFile` knows
contents now and contents saved, and neither cache nor parts.

## 3. The runs

| run | checks | bounds |
|---|---|---|
| `cirbuf` | types, `RingInv`, `PeekReadsContents`, refinement of `FlowBuf`, `WriteIsTheLoop` | ring of 3, 2 byte values, 2 writers, every chunk up to the ring's size, stream positions up to 4: every offset, wrap and fill |
| `durable_memory` | `KeepsUnacked`, `NotOverrun`, `OnlyAppends`, refinement of `OutputPipe` (lossy), `EventuallyDone` | no disk file can be created; ring of 3 and 4 bytes, so the ring overflows; 2 faults among drops and restarts by hand, 4 streams |
| `durable_disk` | `SeamMeets`, `NoPanic`, refinement of `OutputPipe` (exact), `EventuallyDone` | a disk file can always be created; ring of 2 and 3 bytes, window and packet of 1; 2 link drops, 4 streams |
| `durable_any` | types of both modules, `FlowControl`, `DiskInv`, `Aligned` | every fault and window, both ends of the stream, file creation and writes that fail; 1 fault, 3 streams, ring of 2, window of 2 packets, 3 bytes |
| `conn` | types, `ClientMatchesStatus`, `EntryHasScheduler`, `DropsForCause`, `SuppressHolds`, `KeepsRetrying` | 2 clients, 1 scheduler, 1 hysteresis goroutine, 3 disturbances (user, network, stall, resume), cached credentials that a failure may turn into asking, dials that fail for a time or are rejected |
| `jobs` | types, `ActiveHasLoop`, `NoNeedlessRestart`, `GetsStreamAgain`, `FinishedIsMarked` | 3 stream ids, 1 pending event of a kind, 2 disturbances, 2 failed calls |
| `terminal` | types, `NeverBlocks`, `HeldHasTimer`, `KeysOnce`, `FileIsOutput`, `MirrorMatches`, `InOrder`, refinement of `StoredFile`, `KeysComeBack`, `GetsSaved` | 2 sessions, 4 keys, channel of 3; files of 4 and 2 bytes in parts of 2, reads of at most 4, echo of 2, 1 flush error, 4 disturbances (keys, failing appends and flushes, clears, restarts) |
| `durable_straddle` | `PacketsInPlace`, violated | one restart by hand |
| `durable_error` | `KeepsReceived`, violated | no fault, the stream ends with an error |
| `durable_outrun` | `KeepsUnacked`, violated | one link drop, no disk file |
| `durable_freeze` | `BackpressureBreaks`, violated | one link drop, the link does not return |
| `jobs_stuck` | `Converges`, violated | 3 stream ids, 1 pending event of a kind, 2 disturbances, no failed call |

* `FlowControl`, `DiskInv`: the job manager's part, here with a real main server, late acknowledgements and
  failing files. The theorems say the same of an environment that does anything at any time.
* `Aligned` is the property the whole restart protocol rests on: file size + `totalGap` + bytes in the
  reader = the reader's expected position, at every instant. It holds in `DSpec`, in all windows
  and under all faults of that module, among which is no append to the terminal file that fails:
  `runOutputLoop` only logs that (jobcontroller.go:1897-1900), and the file is then short of the reader's position
  by what was lost. It is the main server's consistency with itself: what the job manager loses in
  a window, or with a failing disk file, the positions do not show.
* `OnlyAppends`: the terminal file grows by bytes of the output, in order and none twice, and no restart
  cuts it back: what was sent again and what came late are recognised, whoever was dropped in between.
* `KeepsUnacked`: a byte the reader does not have is still held by the connected job manager.
* `SeamMeets`: with no block in between, the ring ends where the drain continues.
* `NoPanic`: the comment of `WriteAvailable` allows one blocked writer; read loop and drain both write.
* `ImplementsOutputPipe`: `file` grows by the next bytes of the output, `gap` only when bytes may be
  lost, `done` only when everything is accounted for.
* `EventuallyDone`: from every state, the stream ends, and with the refinement, with all its output.
* `ClientMatchesStatus`, `DropsForCause`: whichever goroutine of an older client wakes up last, the
  status is that of the present one, and only its own end or a request takes it down.
* `SuppressHolds`: a stop by the user is undone by the user, or by a caller who was past its check
  (`late`); the code has that window, and the property allows nothing else.
* `EntryHasScheduler`, `KeepsRetrying`: the flag never outlives the goroutines it stands for, and a
  connection that dropped with jobs on it is tried again until it is up, stopped or given up.
* `ActiveHasLoop`, `NoNeedlessRestart`: a reconnection is skipped because the record says active, or
  made because it says not; both would be wrong if an old loop's clean-up hit a new stream's record.
* `Converges` is the repository's own demand: on a connected host every job becomes connected, with route
  and stream, or is over. The code breaks it. `GetsStreamAgain` says how much of it is left: what `Stale`
  and `LeftAlone` name are the only ways to break it. An excuse ends with the connection, so that the next one
  owes the stream anew.
* `FinishedIsMarked`: of exit handler and output loop, whichever writes last starts the termination.
* `NeverBlocks`: the queue sends with its lock held, so held keys must count against the channel.
  `InOrder`: no key overtakes a held one of its session, and none leaves early without a timeout.
* `FileIsOutput`: since its last loss the job's circular file has grown by what was read from the stream, byte for
  byte and through restarts of the stream and of the server; and no restart asks for output past the place that was
  read, or it would be skipped. `MirrorMatches`: the block's file gets every byte that the job's gets, since its
  own last loss: a failed append must not be followed by bytes out of order, a kill not by an echo, a read
  not by half of what it returned.
* `KeepsPromise`: cache, database, flusher, late commits and restarts together implement `StoredFile`.

**Bounds.** `MaxStreams` exceeds the restarts that the faults of a run can cause (each drop may also
fail the restart that follows it), so `cur < MaxStreams` never blocks a retry; `EventuallyDone`, which
would fail otherwise, shows it. `MaxBytes` against `CirBufSize` decides whether the ring can overflow:
in `durable_memory` and `durable_disk` it does, and in `durable_disk` it may only do so by way of the
disk file, which the window `Overfull` says; without it the "exact" pipe would not be what the code
promises. Restarts by hand with a disk file are left to `durable_any` and to the theorems, as both
kinds of fault together take TLC long. A window of 2 packets (`durable_memory`, `durable_any`) gives
packets in flight together;
one packet (`durable_disk`) is enough for the order of drain, read loop and sender. `AckStep` is the
fifth of the window below which `Read` sends no window update.
The specification of `StreamManager` has no run of its own: `durable_any` reaches all its actions, with
the calls that the code makes, and the open environment is a matter of proof.
In `conn` two clients are enough for an old goroutine to meet a new client; a second scheduler is
left to the theorems, which hold for any number. In `jobs` three stream ids are those of an old
loop, of the stream the job manager still sends on and of a new one. In `jobs_stuck` no call fails, so
that what it shows is no broken network's fault. In `terminal` a channel of 3
fills up, 8 bytes of echo wrap both files, and reads of 4 straddle parts of 2. Its disturbances include the keys:
4 are enough for a key, a loss, a restart after it and the next loss.

**Deadlock.** Every run sets `CHECK_DEADLOCK FALSE`: the ring stops after its panic or at its
position bound, and a job whose output ended, a connection nobody disturbs or a queue that is empty
has nothing left to do. That the system does not stop earlier is what `EventuallyDone`, `KeepsRetrying`,
`GetsStreamAgain`, `KeysComeBack` and `GetsSaved` say.

**Mutants.** Operators named `Mut...` are plausible mistakes in the code (a signal forgotten, a bound
off by one, a field not reset, a buffer not drained). They are used by no specification; substituted
for the operator they sit in front of, each makes the property listed with it in `PROJECT.json` fail.

## 4. Fairness

`Fairness` is weak fairness of single goroutines and of nothing else: the read loop (the program
writes or exits), the sender loop, each drain, the handler that holds `JobManager.lock`, the work
queues that deliver packets and acknowledgements, the output loop, and the job controller finishing
what it began. Go's scheduler gives that. `Restart` is fair only while the stream is *stranded*
(`onConnectionUp` and the reconnect scheduler retry a job whose stream is not running; nobody owes a
restart of a stream that runs). `LinkReturns` is fair in `LiveSpec` only: the user comes back online.
`OfflineSpec` has no such promise. Faults have no fairness; they are bounded by `MaxFaults`, so
"eventually" means "when faults stop". Each conjunct carries `Calm`, because a weak fairness that
forced a step through an excluded window would be unsatisfiable: it says that the goroutine runs in
some instant that is not in a window.

`conn`: weak fairness of the goroutines that are under way (the attempt, the callers of Connect, the
watchers of clients, the hysteresis, each scheduler). `jobs`: of the handlers of events, of the call that
has the lock, of the output loops and the end of the job; of noticing that a link has lost its end;
and of each waiting call's getting the lock, since Go's mutexes do not starve a waiter. `terminal`: of
time, of the program reading its input, of the appends and of the flusher; none of delivery. Nothing
the user or the network does is fair; it is bounded by `MaxEvents` and `MaxFails`.

## 5. What the code does that its documents do not say

1. **`durable_freeze`**: the deferred `disconnectFromStreamHelper` (jobmanager.go:441) runs when
   `handleJobDomainSocketClient` returns, which is at once. A socket that closes disconnects nothing.
   A send that is tried on the closed socket may fail at once and then disconnects the stream
   (wshrpc.go:774-776, mainserverconn.go:48-57, `handleSendFailure`); in the model that is the fault `dead`,
   which this run leaves out, as do `durable_memory` and `durable_disk`. But with the whole congestion window
   in flight the sender waits for an acknowledgement and tries no send, so nothing fails: a program with more
   output than the ring blocks until a main server is back; the design document says at most 5 seconds.
2. **`durable_straddle`**: `handleReadData` decides where a chunk goes under the lock and puts it there
   without. A restart in between opens a disk file whose positions overlap the chunk's; the ring's
   tail is then set back below its contents.
3. **`durable_outrun`**: `ClientConnected` computes the client's position from a head that the read loop
   may still move, because the ring becomes synchronous only at the end. The loss is in no gap.
4. **`durable_error`**: `Read` returns the stream's error before the bytes received ahead of it; with a
   Linux pty, whose reads end with EIO, the last output of a program is lost to the terminal file.
5. **`jobs_stuck`**: `src/.pi/specs/reconnection.md:447` demands that after Connected every job becomes
   connected, with its route up and an active stream, or done, "never silently stuck `Disconnected`". In the trace
   the job's link drops twice within the 30 s cooldown of the automatic reconnection (jobcontroller.go:667-681),
   the second time while a `ReconnectJob` is about to report success: `ReconnectJobRoute` finds a connected job with
   an active stream and skips it, the second RouteDown starts nothing, and the job stays disconnected while connection
   and job manager are up. The other ways in which the same demand is broken, all in `jobs` under `excused`:
   `doReconnectJob` sets the status last (2281), when the route may be lost again and the event handled (`Stale`: the
   status says connected and nobody retries); a `RestartBlockStream` or a `ReconnectJobRoute` that fails is
   not tried again; an attempt joins one in flight that looked at the job before. `GetsStreamAgain` shows
   that there are no more.

Seen while modelling, in the models as the code has it, and contradicted by no document:

* Stop and Cancel set the status to disconnected in the middle of an attempt; an attempt that is past
  its dial ends connected all the same (`ConnectSucceeds` sets the status whatever it is).
* A caller who was past its suppression check when the user stopped still connects (`late`).
* `JobInputCommand` ignores the queue's refusal, and the sender has used up the number: a key is lost
  and the next ones wait for the timeout.
* A kill loses the unflushed end of both files. The job's file is continued from its saved size, the
  block's only gets what comes after: they differ from then on.
* An append that fails is logged and the loop reads on (jobcontroller.go:1897-1900): the file gets the hole that the
  comment above it (1884-1888) wants to avoid, though for streams that are superseded. The hole is in no `totalgap`
  until the next restart, which asks for as many bytes again as the file lacks: it gets the last ones a second time,
  or counts them as a gap, and from then on file and position are in step again.

## 6. Proofs

TLC's runs are small instances; the theorems hold for every value of the constants that satisfies the
named assumptions (sizes positive, `NoWriter` not a writer, bytes `1..MaxBytes` among `Byte`, ...).

`CirBufProofs` proves, of `CirBuf`:
* `TypeCorrect`: `Spec => []TypeOK`. `TypeOK` is inductive; the work is in the ranges of the modular sums.
* `RingCorrect`: `Spec => []RingInv`, on top of `TypeOK`.
* `Refinement`: `Spec => ImplementsFlowBuf`. A lemma per method says what it does to the abstract contents
  (append and drop, drop a prefix, nothing); they rest on lemmas about `%`, on the ring's contents
  after a write of *n* bytes, and on sequences compared element by element.
* `PeekCorrect`: `Spec => []PeekReadsContents`: at every offset and length, across the end of the ring.

`StreamManagerProofs` proves, of `StreamManager`, under an environment that calls anything at any time:
* `TypeCorrect`: `Spec => []TypeOK`.
* `FlowControlCorrect`: `Spec => []FlowControl`. The bytes in flight stay in the buffer and within the
  congestion window, so `RecvAck`'s `Consume` cannot fail.
* `DiskCorrect`: `Spec => []DiskInv`. The disk file holds the positions it claims; one drain at most owns
  it, and carries the bytes that `diskRead` points at.

These three come from one inductive invariant, `IInv`. Beside the types and `FlowControl` it holds what the
code never states: a `ClientConnected` call in progress belongs to a manager without a client, and it
consumes only for a client that is past the head (`Locked`); a drain's generation never exceeds
`drainGen`, and one that has the current generation belongs to the open connection (`DrainOwner`);
between its write and its update a drain has written bytes that `diskRead` does not count yet
(`Carries`), which `DiskInv` alone says nothing of and which a step of `DrainUpdates` needs. Every
action that retires a file or a connection moves `drainGen`; that step is the lemma `GiveUp`. The
buffer's operators enter only through lemmas about their results (`ConsumeType`, `WindowType`,
`WriteType`).

`DurableProofs` proves, of `DurableStream` in *all* its behaviours (`DSpec`: every fault, both ends of the
stream, disk files that fail, all windows):
* `DurableTypes`: `DSpec => []DTypeOK`.
* `RecordsAlign`: `DSpec => []Aligned`, the property the restart protocol rests on.
* `ManagerInWhole`: the invariants of `StreamManager` hold within the whole, since every step of
  `DurableStream` is a step of `StreamManager` or leaves it alone.

The invariant `DInv` is large because the types of the two ends depend on each other: a position on its
way back is a natural number only because the packet it came with had data where the reader was. The
reader's stored packets have bounded positions, and what it takes from them is described without
recursion (`Taken`: those that follow, up to the first hole); `StoredEffect` shows that they join
on to each other, from the least packet that would be out of line (`NatLessThanWellFounded` and
`WFMin` of the library). `Aligned` needs that `Reconcile` moves the position of a reader that has
nothing yet: `CorkSend` and `CorkRead` say that a corked stream sends no data and that its reader and the
network hold none.

`CalmProofs` proves, of `CalmSpec` with every fault, `SeamHolds` (`SeamMeets`), `OneWaits` (`NoPanic`),
`UnackedKept` (`KeepsUnacked`) and `NeverOverrun` (`NotOverrun`). `MInv` is the manager's part. `OneStore`: the
read loop never carries a chunk for the ring while a disk file is open. `Seam` says how far ring and
file may be apart while a drain has written and not yet counted, or a `ClientConnected` is half done.
`Waits` names what a parked writer is doing, from which a second one is impossible. `WInv` is what both
ends keep: nothing in flight, nothing stored in the reader, and no window that an acknowledgement or the
manager holds reaches past `Limit`, the end of the terminal file plus the reader's window. Without
the windows `KeepsUnacked` fails: that is `durable_outrun`.

`PipeProofs` proves three theorems of `CalmSpec`, for every size, number of connections, drops,
restarts by hand, slow and dead sends, and for disk files that can always, sometimes or never be opened:
* `PlacesKept`: `CalmSpec => []PacketsInPlace`.
* `FileOnlyGrows`: `CalmSpec => OnlyAppends`. A restart never comes to `truncateJobFile`.
* `PipeIsKept`: `CalmSpec => ImplementsOutputPipe`, the refinement itself.

The first two assume only that writes to the disk file succeed: a failed one loses what the file held, in
no gap, and the positions after it name other bytes. Quits and both ends of the stream are in. The invariant
`SInv` adds to the above that every byte is in its place. `BInv`: byte *i* of the read loop's chunk, of the
ring and of the disk file is byte *i* of the output, and the first store ends where the chunk begins. So it is
with packets (`InFlight`) and with the reader and its stored packets (`Reads`); the position a restart
asks for is the file's, and the one it is told is neither behind the file nor past what is stored (`Asked`);
`Course` says in which phases there is a reader and an output loop; and the file is in order up to `Position`
(`Ascends`). That the manager is never behind the file is what keeps a restart from cutting it.

The refinement assumes `Faithful`: besides those writes, that the pty ends with EOF (after an error received
bytes are lost, finding 4) and that the application does not quit (received bytes are acknowledged before
they are appended; when the job manager has its last acknowledgement the next restart is told "done").
`RInv` adds `PInv`: no reader loses what it held (`Exact`); acknowledgements are not past the reader
(`AcksHold`); nobody takes the stream for complete before the reader has all of it (`Told`,
`Answers`); and while a disk file can always be opened the ring's head never passes the reader (`Kept`),
which makes the pipe exact. `StepSeen` maps each step: `ReadLoopRuns` to the pipe's write or close,
`LoopReads` and `Restart` to its append, `Reconcile` to its skip, `LoopEnds` and `AlreadyDone` to its end, the
others to a stutter. With these theorems every invariant that a passing run checks, except
`WriteIsTheLoop`, is proved.

`ReconnectProofs` proves, of `ReconnectScheduler`, for every set of callers and schedulers, of
credentials and of dial errors:
* `TypeCorrect`, by parts: most variables are enumerations (`EnumType`); `ClientType` needs that a free
  client exists where one is chosen; `ResType` that a call's result comes from `DialErrors`.
* `FlagStandsForScheduler`: `EntryHasScheduler` is inductive with the types of `sched`: the flag goes up
  with a goroutine, and a scheduler that leaves takes it down whoever put it up.
* `StatusTellsTheTruth` and `OnlyCausesDrop`: with `LockInv`. `ClientMatchesStatus` speaks of a free lock
  only, so the invariant says what holds in between: the lock is held exactly while an attempt is at
  some stage, the connection is then not connected (it is connecting, unless someone paused it), and
  it has a client from the end of the dial on.
* `StopIsObeyed`: with `StopInv`: while retries are suppressed, whoever is on the way to Connect
  is the user or in `late`.

`JobReconnectProofs` proves, of `JobReconnect`, `TypeCorrect`, `RecordStandsForLoop` and
`WorkingStreamIsKept`. `LoopInv` says that a record names a loop that runs, that the loop of the present
stream is the one that is recorded, and that a loop that is not yet running is that of the present
stream or superseded: then a job that works is recorded active whenever a call decides.

`TerminalProofs` proves, of `Terminal`, `SendsNeverBlock`, `TimerForHeld` and `KeysPassOnce`, for every
capacity, number of sessions and keys. `KeysInv` adds to them what makes them inductive: held keys belong to
sessions that were seen, a key on the wire was not taken before (`Sent`), and the keys that passed are
distinct and not held (`Once`). The lemma `SortedRun` carries them: what `sortBuffer` sends is an
injection onto the set of keys that leave, so the channel grows by as many as the buffer shrinks.

It proves, too, `KeysInOrder`: `Spec => InOrder`. The invariant is `Current`: held keys
are of the current session, and none is before `nextSeq`. It says "from `nextSeq` on", not "after it": a
timeout may pass the first held keys and leave the key that is then next held, with a timer of its own.
The lemmas relate the three ways of saying "next": keys that leave together are sorted (`RunAscends`), the
last one has the greatest number (`RunLast`), and those that follow the key that came are exactly
the numbers up to that last one (`FollowingRun`), so that adding their count to `nextSeq` passes them
and no other.

Of the files it proves `FilesKeepPromise`: `Spec => KeepsPromise`, the refinement of
`StoredFile`, for every size of file and part. `Entries` says that an entry is a record with a size, empty for
a file that is not in the cache. A byte of a circular file is at a place modulo `MaxSize`; two places
that are kept in the same byte are `MaxSize` apart (`OnePlace`), so no two of the last `MaxSize` places
collide. A part that an append touches is written in full or was counted incomplete and loaded
(`WholeParts`, where `LastVisit` settles a write that comes to a part twice), and what an entry does not hold
is read from the database (`Reads`). Hence each operation does one of five things to a file as a reader sees
it and as a restart would find it: `Grows`, `Clears`, `Saves`, `Returns` or `Stays`, and each of them is a
step of `StoredFile` or a stutter.

Of the output in them it proves `JobFileIsOutput` and `BlockFileMatches`, with appends that fail, gaps and
restarts. `Shows(c, keys, m, to)` says of contents `c` that since mark `m` they have grown by the output up to place
`to`. The invariant `OutInv` has four parts. `PosInv`: the place read is within the output, and `pend` is what lies
between the ends of both files. `MarkInv`: the marks are places in the output. `BlockInv`: the block's file shows it up to what the loop has in
hand. `JobInv` is why a restart can be trusted: not only the job's file, but what is *saved* of it shows the output,
if it was saved after the mark, since the server may be killed before the next flush; and size and `totalgap`,
those saved and those in the cache, never ask for output past the place read, so that nothing is skipped. A step that loses something moves the mark to the
file's end, after which there is nothing to show (`LosesAt`, `JobLost`, `BlockLost`); one that does not must keep the
contents since the mark (`JobKept`, `BlockKept`). An append moves the later place (`AppendShows`), and output
that was read is not changed by more of it (`EchoStays`, `OutputLonger`). Contents are described byte by byte there;
`ShownIsLast` makes the sequences of `FileIsOutput` of them. Last comes
`TypeCorrect`: the types of `Terminal` follow from the invariants of the four modules and from `FilesTyped`,
`NextTyped`, `TimerTyped` and `Bounded`. With it every invariant that the run `terminal` checks is a theorem.

Out of the prover's reach and left to TLC: everything under fairness (`EventuallyDone`,
`BackpressureBreaks`, `KeepsRetrying`, `GetsStreamAgain`, `FinishedIsMarked`, `KeysComeBack`, `GetsSaved`), and
that the byte loop computes the closed form (`WriteIsTheLoop`, an induction over data by a recursive
operator). `KeepsReceived` and `Converges` are false, as their runs show.

## 7. What is not modelled

* In `StreamManager`: `stallWatchdog` and `logRejectAck` (logging), `Close` (no caller outside tests),
  the drain's progress counters (display). In `JobManager`: authentication, signals, terminal size.
* Wall-clock time: a timeout is a step that may happen. In `DurableStream` the second that
  `waitForStreamLoopExit` waits is long enough: the old loop has ended when the restart goes on
  (`JobReconnect` lets it last longer, but has no bytes).
* `DurableStream`'s terminal file is an unbounded sequence, and an append to it succeeds: so do `Aligned`,
  `OnlyAppends` and the refinement of `OutputPipe` assume. `Terminal` has the append that fails and the file that
  is circular, but not the ring that the output comes from: a restart gets it from any place that the
  job manager may still have. It leaves out a failing `Stat`, `reconcileClientAheadSeq` and
  `truncateJobFile` (on a file that wrapped they are in neither module; outside the windows, while disk
  writes succeed, they are never reached: `FileOnlyGrows`), an old loop that outlasts `waitForStreamLoopExit`, and
  the gap markers, reset sequences and termination messages that are written into the block's file only.
* `drainDiskToCirBuf` gives up when `ReadAt` fails (streammanager.go:599-602); `DrainReads` succeeds.
  `SetTotalSize` of the ring takes any total (cirbuf.go:164-168); the model's has the guard that it is not
  less than the count, which its callers keep outside the window of finding 2. `Restart` of a stream that is
  done is left out: there is nothing more to come.
* The removal of a disk file by path, in a goroutine of its own, after a new one may exist.
* In `conncontroller`: the parts of `connectInternal` that set the connection server up, statistics and
  events, `pendingAuth` and the cooldown of EnsureConnection, the timeout of a prompt that asks again. A failed dial may use up the cached credentials
  or not, whatever its cause; that the user cancelled the prompt (1461), or that the password is cached although
  something else failed (2436-2439), is no case of its own.
* In `jobcontroller`: several jobs at once (they share the connection and little else), starting and
  deleting a job, the pruning of old ones. Exit and end of output are one `ended` of the program, so the reply
  that has one without the other (2524-2528) is no case of its own. `hasRunningDurableJobsForConn` says no when the
  database fails (1476-1480), which ends a scheduler without a trace: `KeepsRetrying` assumes that it
  does not.
* In the queue: `Close`, `SetNextSeqNum` and the number 0 have no caller. Two sessions first seen in the same
  millisecond are excluded by a comment at the top of the file. A stray `onTimeout` that replaces or clears
  `q.timer` (quickreorderqueue.go:194, 233) leaves a running timer behind, which fires once more and
  can only give up, a little before their timer, keys that have waited long enough; `StrayFires` forgets it.
* In `filestore`: `WriteAt`, ijson and non-circular files have no caller on a terminal's path; two
  `MakeFile` at once; a flush under way when the application stops.
* The router's queues and the RPC engine: a call returns or fails, an event is handled later.
* The components marked `not_modelled` in `PROJECT.json`: SSH client, process and pty handling, SQL
  store, configuration, secrets, prompts, web server, frontend and vendored code are I/O or outside
  the core; the others are the plan.

## 8. The plan

Order, by what the product promises:

1. (done) ring buffer, stream manager, durable stream end to end, first theorems.
2. (done) `JobReconnect`, which justifies the fairness of `Restart`, and its theorems.
3. (done) `ConnController` and `ReconnectScheduler`, and their theorems.
4. (done) `ReorderQueue`, `FileStore`, `StoredFile`, composed in `Terminal`; theorems about queue and files.
5. A circular terminal file and a failing append in `DurableStream`, and `truncateJobFile` on it.
6. `StreamClient`: the reader alone, with `UpdateNextSeq` and stored packets, and the generic writer.
7. `Router`: routes, links, queued messages; a block's controller and its replacement.
8. Proofs: what remains of `OutputPipe` when the application quits, with the losses named; lemmas of `Router`.
