------------------------------- MODULE Terminal -------------------------------
(***************************************************************************)
(* The way of a key through a durable terminal: the block's controller     *)
(* numbers it (pkg/blockcontroller/durableshellcontroller.go), the network *)
(* delivers the calls in any order, the job manager's input queue hands it *)
(* to the program, whose echo comes back as output and is appended to the  *)
(* file of the job and to that of its block (pkg/jobcontroller), which the *)
(* flusher saves.  An append may fail, and the loop goes on.  A restart of *)
(* the stream asks for the output from the size of the job's file and its  *)
(* totalgap on, and gets it from there or from some place after it.  When  *)
(* the server stops, the files are what was saved, and the new controller  *)
(* is a new session.                                                       *)
(*                                                                         *)
(* How a place in the stream is kept or lost on the way is DurableStream;  *)
(* here a restart waits for the old loop, and Stat does not fail.          *)
(***************************************************************************)
EXTENDS ReorderQueue, FileStore

CONSTANTS
    Job, Block,   \* the "term" files of the job and of its block
    EchoLen,      \* bytes of output for a key
    MaxRead,      \* the buffer of runOutputLoop, 4096 in the code
    MaxEvents     \* bound: what the user, the network and the system do

Bytes == Key \X (1..EchoLen)

ASSUME TerminalAssumption ==
    /\ Job # Block /\ File = {Job, Block} /\ Session \subseteq Nat
    /\ EchoLen \in Nat \ {0} /\ MaxRead \in Nat \ {0} /\ Byte = Bytes /\ MaxEvents \in Nat

VARIABLES
    session, count,  \* InputSessionId and inputSeqNum of the block's controller
    wire,            \* input calls under way
    shell,           \* what the program has read
    reading,         \* the output loop runs
    pos,             \* how much of its output has been read from the stream
    pend,            \* appended to the job's file, not yet to the block's
    events,
    taken,           \* history: the keys that QueueItem did not refuse
    mark             \* history: file -> where it was last cleared, or out of step

streamVars == <<reading, pos, pend, mark>>
tvars      == <<session, count, wire, shell, streamVars, events, taken>>
vars  == <<qvars, fvars, tvars>>

Init ==
    /\ QueueInit /\ FileInit
    /\ session \in Session /\ session = Min(Session) /\ count = 0 /\ wire = {}
    /\ shell = <<>> /\ reading = TRUE /\ pos = 0 /\ pend = <<>> /\ events = 0
    /\ taken = {} /\ mark = [f \in File |-> [at |-> 0, size |-> 0]]

Happens == events < MaxEvents /\ events' = events + 1

-----------------------------------------------------------------------------
(* Input *)

\* SendInput of the controller numbers the key, and calls.  A call that is
\* refused or lost is one that stays on the wire: nothing makes it arrive.
SendInput ==
    /\ Happens /\ count < MaxSeq
    /\ count' = count + 1
    /\ wire' = wire \union {[s |-> session, n |-> count']}
    /\ UNCHANGED <<qvars, fvars, session, shell, streamVars, taken>>

\* JobInputCommand does not look at the error of QueueItem.
JobInput(k) ==
    /\ k \in wire /\ wire' = wire \ {k}
    /\ QueueItem(k)
    /\ taken' = IF HasRoom THEN taken \union {k} ELSE taken
    /\ UNCHANGED <<fvars, session, count, shell, streamVars, events>>

QueueTime == (Ages \/ TimerFires \/ StrayFires) /\ UNCHANGED <<fvars, tvars>>

\* processInputQueue gives the key to the program, which echoes it.
HandleInput ==
    /\ Receive /\ shell' = Append(shell, Head(outCh))
    /\ UNCHANGED <<fvars, session, count, wire, streamVars, events, taken>>

-----------------------------------------------------------------------------
(* Output *)

\* The output between two places in the stream: the echo of each key.
OutputLen == Len(shell) * EchoLen
Output(from, to) ==
    [i \in 1..(to - from) |->
        LET at == from + i - 1 IN <<shell[at \div EchoLen + 1], (at % EchoLen) + 1>>]

inputVars == <<session, count, wire, shell, taken>>

\* The place in the stream that a file has come to.
End(f) == IF f = Job THEN pos ELSE pos - Len(pend)

\* What the files in `lost` have from here on is all that is said of them.
Loses(lost) ==
    mark' = [f \in File |-> IF f \in lost THEN [at |-> End(f)', size |-> ReadFile(f).size'] ELSE mark[f]]

\* Mutant: the output loop waits until its buffer is full.
MutReadStream ==
    /\ reading /\ pend = <<>> /\ pos + MaxRead <= OutputLen
    /\ pos' = pos + MaxRead
    /\ UNCHANGED reading

\* The output loop reads what there is, up to the size of its buffer.
ReadStream ==
    /\ reading /\ pend = <<>> /\ pos < OutputLen
    /\ pos' = Min({OutputLen, pos + MaxRead})
    /\ UNCHANGED reading

\* handleAppendJobFile, first the file of the job ...
AppendJobFile ==
    /\ ReadStream /\ pend' = Output(pos, pos')
    /\ AppendData(Job, pend')
    /\ UNCHANGED <<qvars, inputVars, events, mark>>

\* ... then that of the block, if it is still there.
AppendBlockFile ==
    /\ pend # <<>> /\ pend' = <<>>
    /\ IF CanAppend(Block) THEN AppendData(Block, pend) ELSE UNCHANGED fvars
    /\ UNCHANGED <<qvars, inputVars, reading, pos, events, mark>>

\* The first append fails, and with it the second; the loop only logs it.
AppendJobFileFails ==
    /\ Happens /\ ReadStream /\ pend' = <<>>
    /\ AppendFails(Job, Output(pos, pos'))
    /\ UNCHANGED <<qvars, inputVars>>
    /\ Loses(File)

\* The job is not read from the database, or the second append fails.
AppendBlockFileFails ==
    /\ Happens /\ pend # <<>> /\ pend' = <<>>
    /\ UNCHANGED fvars \/ AppendFails(Block, pend)
    /\ UNCHANGED <<qvars, inputVars, reading, pos>>
    /\ Loses({Block})

\* HandleTruncateBlockFile.
ClearBlock ==
    /\ Happens
    /\ WriteFile(Block, <<>>) \/ WriteGivesUp(Block)
    /\ UNCHANGED <<qvars, inputVars, reading, pos, pend>>
    /\ Loses({Block})

\* DeleteZone, when the block is closed.
CloseBlock ==
    /\ Happens /\ Block \in rows /\ DeleteFile(Block)
    /\ UNCHANGED <<qvars, inputVars, streamVars>>

Flushes == (FlushBegins \/ \E f \in File : FlushEntry(f)) /\ UNCHANGED <<qvars, tvars>>

FlushGoesWrong ==
    /\ Happens /\ UNCHANGED <<qvars, inputVars, reading, pos, pend>>
    /\ \E f \in File : \/ FlushStops(f) /\ UNCHANGED mark
                       \/ FlushGivesUp(f) /\ Loses({f})

\* Mutant: what the file lacks is forgotten.
MutAsked == ReadFile(Job).size

\* restartStreaming asks for the output from here on.
Asked == ReadFile(Job).size + ReadFile(Job).meta

\* The job's file, as it is or as it was saved, is in step with its position:
\* it follows the output since its mark, and totalgap is what it lacks.
InStep(file) == mark[Job].size <= file.size /\ mark[Job].size + file.meta = mark[Job].at

\* A new loop reads from place p on: the job manager may not have the output
\* any more from the place that was asked for.  What is skipped is added to
\* totalgap, unless WriteMeta fails, which is only logged.
RestartStreaming ==
    /\ pend = <<>> /\ reading' = TRUE /\ UNCHANGED <<qvars, inputVars, pend>>
    /\ \E p \in Asked..OutputLen :
        /\ pos' = p
        /\ UNCHANGED fvars \/ (p > Asked /\ WriteMeta(Job, p - ReadFile(Job).size))
        /\ Loses(IF p = Asked /\ InStep(ReadFile(Job)) THEN {} ELSE File)

StreamReturns == ~reading /\ RestartStreaming /\ UNCHANGED events
StreamIsLost  == Happens /\ RestartStreaming

\* The server is killed, and starts again: a new session, and the files and the
\* position that were saved.  The block's file was not saved with the job's.
ServerRestarts ==
    /\ Happens /\ session + 1 \in Session
    /\ Restart
    /\ session' = session + 1 /\ count' = 0
    /\ reading' = FALSE /\ pend' = <<>> /\ pos' = OnDisk(Job).size + OnDisk(Job).meta
    /\ Loses(IF InStep(OnDisk(Job)) THEN {Block} ELSE File)
    /\ UNCHANGED <<qvars, wire, shell, taken>>

-----------------------------------------------------------------------------
Delivers == \E k \in wire : JobInput(k)
Appends  == AppendJobFile \/ AppendBlockFile
Losses   ==
    \/ AppendJobFileFails \/ AppendBlockFileFails \/ FlushGoesWrong \/ StreamIsLost \/ ServerRestarts

Next ==
    \/ SendInput \/ Delivers \/ QueueTime \/ HandleInput
    \/ Appends \/ ClearBlock \/ CloseBlock \/ Flushes \/ StreamReturns \/ Losses

\* Time passes, each goroutine that can run does, and a stream that is lost is
\* restarted in the end (JobReconnect).
Fairness ==
    /\ WF_vars(QueueTime) /\ WF_vars(HandleInput)
    /\ WF_vars(Appends) /\ WF_vars(Flushes) /\ WF_vars(StreamReturns)

Spec == Init /\ [][Next]_vars /\ Fairness

-----------------------------------------------------------------------------
\* The types of the queue, of the file store and of what connects them.
TypeOK ==
    /\ QueueTypeOK /\ FileTypeOK
    /\ session \in Session /\ count \in 0..MaxSeq /\ wire \subseteq Key
    /\ shell \in Seq(Key) /\ events \in 0..MaxEvents /\ taken \subseteq Key
    /\ reading \in BOOLEAN /\ pos \in 0..OutputLen /\ pend \in Seq(Byte)
    /\ mark \in [File -> [at : 0..OutputLen, size : Nat]]

\* Every key that the queue took is in it, or was read by the program, once.
KeysOnce ==
    LET passed == shell \o outCh IN
    /\ taken = buffer \union Items(passed)
    /\ Cardinality(taken) = Cardinality(buffer) + Len(passed)

\* The keys that a step sends on outCh.
Departures == [i \in 1..Max({Len(outCh'), Len(outCh)}) - Len(outCh) |-> outCh'[Len(outCh) + i]]

\* A key does not overtake one of its session that the queue holds; and it
\* leaves before one that has not come only when a key has waited too long.
InOrder ==
    [][\A i \in DOMAIN Departures : LET k == Departures[i] IN
        /\ \A l \in buffer : l.s = k.s /\ l.n < k.n => l \in {Departures[j] : j \in 1..(i - 1)}
        /\ order' = order /\ IsCurrent(k.s) /\ aged = {} =>
               \A n \in nextSeq..k.n : [s |-> k.s, n |-> n] \in taken']_vars

\* The last n bytes of the output between two places.
Last(n, from, to) == Output(IF to < from + n THEN from ELSE to - n, to)

\* A file has followed the output since its mark: it has grown by as much, and
\* ends with it.
Follows(f) ==
    LET file == ReadFile(f)
        tail == Last(MaxSize[f], mark[f].at, End(f))
        kept == Len(file.data) - Len(tail)
    IN  /\ file.size - mark[f].size = End(f) - mark[f].at
        /\ SubSeq(file.data, kept + 1, Len(file.data)) = tail

\* The job's file is what was read from the stream, without a hole or an echo,
\* across restarts of the stream and of the server: from one failed append,
\* unsaved loss or gap, once totalgap has caught up with it, to the next.  And
\* no restart asks for output past the place that was read.
FileIsOutput == Follows(Job) /\ Asked <= pos

\* The block's file, which is the one that is shown, gets every byte that the
\* job's file gets, in order, whatever was lost or cleared before.
MirrorMatches == Block \in rows => Follows(Block)

\* What the operations of pkg/filestore see of the files, and what a restart
\* would find.
Promise == INSTANCE StoredFile WITH
    now <- [f \in File |-> ReadFile(f)], saved <- [f \in File |-> OnDisk(f)]

\* The cache and the database together are the file that pkg/filestore
\* promises, whatever appends, truncations, deletions, flushes and a restart
\* follow one another.
KeepsPromise == Promise!Spec

\* Keys that the queue took are echoed, and the loop comes to the place of their
\* echo in the stream, by reading it or over a gap, whatever happens before.
KeysComeBack == []<>(taken \subseteq {shell[i] : i \in 1..(pos \div EchoLen)})

\* What is written to a file is saved in the end.
GetsSaved == []<>(cached = {})
=============================================================================
