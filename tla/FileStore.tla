------------------------------- MODULE FileStore -------------------------------
(***************************************************************************)
(* pkg/filestore: circular files behind a write-back cache.  A file has a  *)
(* row of db_wave_file and rows of db_file_data, one per part; a cache     *)
(* entry with a File is dirty and overrides them.  A periodic flusher      *)
(* takes the keys of the dirty entries and writes them one by one, each in *)
(* one transaction.  Every operation holds its entry's lock, so an action  *)
(* is an operation, and a step of the flusher one entry.                   *)
(*                                                                         *)
(* WriteAt and the ijson files have no caller outside the tests; writeAt   *)
(* is given the end of the file or 0 here.  Of the metadata there is what  *)
(* pkg/jobcontroller keeps in it, totalgap: the bytes of the stream that   *)
(* the file lacks.                                                         *)
(***************************************************************************)
EXTENDS Naturals, Sequences, FiniteSets, FiniteSetsExt

CONSTANTS
    File,            \* cacheKey: a zone and a name
    Byte,
    NoByte,          \* what a part holds before it is written
    PartSize,        \* partDataSize, 64K in the code
    MaxSize,         \* Opts.MaxSize of each file
    MaxFlushErrors   \* flushes of an entry that may fail; 3 in the code

\* MakeFile rounds MaxSize up to whole parts.
ASSUME FileAssumption ==
    /\ PartSize \in Nat \ {0} /\ MaxFlushErrors \in Nat /\ NoByte \notin Byte
    /\ \A f \in File : MaxSize[f] \in Nat \ {0} /\ MaxSize[f] % PartSize = 0

VARIABLES
    rows,        \* the files in db_wave_file
    disk,        \* file -> size, metadata and parts in the database
    cached,      \* the entries whose File is set
    entry,       \* file -> the same in the cache, when cached
    errors,      \* file -> FlushErrors
    todo         \* the flusher's dirtyCacheKeys still to be written

fvars == <<rows, disk, cached, entry, errors, todo>>

Parts(f)  == 0..((MaxSize[f] \div PartSize) - 1)
Part      == [0..(PartSize - 1) -> Byte \union {NoByte}]
Blank     == [i \in 0..(PartSize - 1) |-> NoByte]
Empty     == [size |-> 0, meta |-> 0, parts |-> <<>>]

FileInit ==
    /\ rows = File /\ disk = [f \in File |-> Empty]
    /\ cached = {} /\ entry = [f \in File |-> Empty] /\ errors = [f \in File |-> 0]
    /\ todo = {}

\* partIdxAtOffset
PartAt(f, offset) == (offset \div PartSize) % (MaxSize[f] \div PartSize)

\* A row without its parts, and loadFileIntoCache.
Row(d)    == [d EXCEPT !.parts = <<>>]
Loaded(f) == IF f \in cached THEN entry[f] ELSE Row(disk[f])

\* The parts of a write of n bytes at offset that computePartMap counts as
\* incomplete.  Of two visits to a part the last one counts.
Incomplete(f, offset, n) ==
    LET starts    == {k * PartSize : k \in (offset \div PartSize)..((offset + n - 1) \div PartSize)}
        amount(t) == Min({offset + n, t + PartSize}) - Max({offset, t})
        last(p)   == Max({t \in starts : PartAt(f, t) = p})
    IN  {p \in {PartAt(f, t) : t \in starts} : amount(last(p)) # PartSize}

\* loadDataPartsIntoCache
WithParts(f, e, wanted) ==
    LET fetched == (wanted \intersect DOMAIN disk[f].parts) \ DOMAIN e.parts IN
    [e EXCEPT !.parts = [p \in DOMAIN e.parts \union fetched |->
                            IF p \in fetched THEN disk[f].parts[p] ELSE e.parts[p]]]

\* writeAt, at the end of the file or, to replace it, at 0: only what fits into
\* the circular file is written.
WriteAt(f, e, offset, data, replace) ==
    LET n      == Len(data)
        end    == offset + n
        places == Max({offset, end - Min({n, MaxSize[f]})})..(end - 1)
        base   == IF replace THEN <<>> ELSE e.parts
        spot(p, k) == {i \in places : PartAt(f, i) = p /\ i % PartSize = k}
        old(p, k)  == IF p \in DOMAIN base THEN base[p][k] ELSE NoByte
    IN  [size  |-> end,
         meta  |-> e.meta,
         parts |-> [p \in DOMAIN base \union {PartAt(f, i) : i \in places} |->
                       [k \in 0..(PartSize - 1) |->
                           IF spot(p, k) = {} THEN old(p, k)
                           ELSE data[(CHOOSE i \in spot(p, k) : TRUE) - offset + 1]]]]

-----------------------------------------------------------------------------
\* readAt of everything: the cache before the database, and zeros for a part
\* that neither has.
ByteAt(f, e, offset) ==
    LET p == PartAt(f, offset) IN
    IF p \in DOMAIN e.parts THEN e.parts[p][offset % PartSize]
    ELSE IF p \in DOMAIN disk[f].parts THEN disk[f].parts[p][offset % PartSize]
    ELSE NoByte

Contents(f, e) ==
    LET start == Max({e.size, MaxSize[f]}) - MaxSize[f] IN
    [size |-> e.size, meta |-> e.meta,
     data |-> SubSeq([i \in 1..(e.size - start) |-> ByteAt(f, e, start + i - 1)], 1, e.size - start)]

\* What ReadFile and Stat return, and what they would return after a restart.
ReadFile(f) == Contents(f, Loaded(f))
OnDisk(f)   == Contents(f, Row(disk[f]))

-----------------------------------------------------------------------------
CanAppend(f) == f \in rows \union cached

\* Mutant: the parts that are written in part are not loaded first.
MutAppendData(f, data) ==
    /\ CanAppend(f)
    /\ cached' = cached \union {f}
    /\ entry' = [entry EXCEPT ![f] = WriteAt(f, Loaded(f), Loaded(f).size, data, FALSE)]
    /\ UNCHANGED <<rows, disk, errors, todo>>

AppendData(f, data) ==
    /\ CanAppend(f)
    /\ cached' = cached \union {f}
    /\ entry' = [entry EXCEPT ![f] =
                    LET e == Loaded(f) IN
                    WriteAt(f, WithParts(f, e, Incomplete(f, e.size, Len(data))), e.size, data, FALSE)]
    /\ UNCHANGED <<rows, disk, errors, todo>>

\* It fails: the row is not read, or the parts that it needs are not, and then
\* the row stays in the cache.
AppendFails(f, data) ==
    LET e == Loaded(f) IN
    \/ f \notin cached /\ UNCHANGED fvars
    \/ /\ CanAppend(f) /\ ~(Incomplete(f, e.size, Len(data)) \subseteq DOMAIN e.parts)
       /\ cached' = cached \union {f} /\ entry' = [entry EXCEPT ![f] = e]
       /\ UNCHANGED <<rows, disk, errors, todo>>

\* WriteMeta, which merges one key; the only one here is totalgap.
WriteMeta(f, meta) ==
    /\ CanAppend(f)
    /\ cached' = cached \union {f} /\ entry' = [entry EXCEPT ![f] = [Loaded(f) EXCEPT !.meta = meta]]
    /\ UNCHANGED <<rows, disk, errors, todo>>

\* The transaction of dbWriteCacheEntry, for entry e of file f.
Stored(f, e, replace) ==
    [size  |-> e.size,
     meta  |-> e.meta,
     parts |-> IF replace THEN e.parts
               ELSE [p \in DOMAIN disk[f].parts \union DOMAIN e.parts |->
                        IF p \in DOMAIN e.parts THEN e.parts[p] ELSE disk[f].parts[p]]]

Cleared(f) ==
    /\ cached' = cached \ {f}
    /\ entry' = [entry EXCEPT ![f] = Empty] /\ errors' = [errors EXCEPT ![f] = 0]

\* Mutant: an off-by-one.
MutFlushFails(f) ==
    UNCHANGED errors \/ (errors[f] <= MaxFlushErrors /\ errors' = [errors EXCEPT ![f] = @ + 1])

\* flushToDB fails: its context has ended, or it counts an error, or it counts
\* one too many and gives the entry up.
FlushFails(f) ==
    UNCHANGED errors \/ (errors[f] < MaxFlushErrors /\ errors' = [errors EXCEPT ![f] = @ + 1])
GivesUp(f) == errors[f] = MaxFlushErrors /\ Cleared(f)

\* Its context ends after the commit: the entry stays dirty all the same.
CommitsLate(f, e, replace) ==
    /\ f \in rows /\ disk' = [disk EXCEPT ![f] = Stored(f, e, replace)]
    /\ UNCHANGED errors

\* WriteFile replaces the file, in the cache and, unless that fails, in the
\* database.
WriteFile(f, data) ==
    /\ CanAppend(f)
    /\ LET e == WriteAt(f, Loaded(f), 0, data, TRUE) IN
       \/ f \in rows /\ Cleared(f) /\ disk' = [disk EXCEPT ![f] = Stored(f, e, TRUE)]
       \/ /\ (FlushFails(f) /\ UNCHANGED disk) \/ CommitsLate(f, e, TRUE)
          /\ cached' = cached \union {f} /\ entry' = [entry EXCEPT ![f] = e]
    /\ UNCHANGED <<rows, todo>>

\* Its flush is the one that fails once too often.
WriteGivesUp(f) ==
    /\ CanAppend(f) /\ GivesUp(f)
    /\ UNCHANGED <<rows, disk, todo>>

DeleteFile(f) ==
    /\ rows' = rows \ {f} /\ disk' = [disk EXCEPT ![f] = Empty]
    /\ Cleared(f)
    /\ UNCHANGED todo

-----------------------------------------------------------------------------
(* FlushCache *)

FlushBegins ==
    /\ todo = {} /\ cached # {}
    /\ todo' = cached
    /\ UNCHANGED <<rows, disk, cached, entry, errors>>

\* Mutant: the entry stays dirty.
MutFlushKeeps(f) ==
    /\ f \in todo /\ (f \in cached => f \in rows)
    /\ todo' = todo \ {f}
    /\ disk' = IF f \in cached THEN [disk EXCEPT ![f] = Stored(f, entry[f], FALSE)] ELSE disk
    /\ UNCHANGED <<rows, cached, entry, errors>>

\* Mutant: a flush replaces the parts in the database, as WriteFile does.
MutFlushEntry(f) ==
    /\ f \in todo /\ (f \in cached => f \in rows)
    /\ todo' = todo \ {f}
    /\ disk' = IF f \in cached THEN [disk EXCEPT ![f] = Stored(f, entry[f], TRUE)] ELSE disk
    /\ Cleared(f)
    /\ UNCHANGED rows

\* An entry that is clean by now is skipped.
FlushEntry(f) ==
    /\ f \in todo /\ (f \in cached => f \in rows)
    /\ todo' = todo \ {f}
    /\ disk' = IF f \in cached THEN [disk EXCEPT ![f] = Stored(f, entry[f], FALSE)] ELSE disk
    /\ Cleared(f)
    /\ UNCHANGED rows

\* An error ends the flush, transient or not.
FlushStops(f) ==
    /\ f \in todo \intersect cached
    /\ todo' = {}
    /\ (FlushFails(f) /\ UNCHANGED disk) \/ CommitsLate(f, entry[f], FALSE)
    /\ UNCHANGED <<rows, cached, entry>>

FlushGivesUp(f) ==
    /\ f \in todo \intersect cached
    /\ todo' = {}
    /\ GivesUp(f)
    /\ UNCHANGED <<rows, disk>>

\* The process is killed, and starts again.
Restart ==
    /\ cached' = {} /\ entry' = [f \in File |-> Empty] /\ errors' = [f \in File |-> 0]
    /\ todo' = {}
    /\ UNCHANGED <<rows, disk>>

-----------------------------------------------------------------------------
FileTypeOK ==
    /\ rows \subseteq File /\ cached \subseteq File /\ todo \subseteq File
    /\ \A f \in File :
        /\ \A e \in {disk[f], entry[f]} :
            /\ e.size \in Nat /\ e.meta \in Nat /\ DOMAIN e.parts \subseteq Parts(f)
            /\ \A p \in DOMAIN e.parts : e.parts[p] \in Part
        /\ errors[f] \in 0..MaxFlushErrors
        /\ f \notin cached => entry[f] = Empty /\ errors[f] = 0
=============================================================================
