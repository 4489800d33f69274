----------------------------- MODULE OutputPipe -----------------------------
(***************************************************************************)
(* What a durable terminal promises, whatever its connections do: the      *)
(* program's output reaches the terminal file in order, each byte at most  *)
(* once; a byte that is skipped is accounted for; the stream is declared   *)
(* done when the program's output has ended and all of it is accounted     *)
(* for.  Byte i of the output is the number i.  With Lossy = FALSE nothing *)
(* may be skipped: the file is exactly the output.                         *)
(***************************************************************************)
EXTENDS Integers, Sequences

CONSTANT Lossy   \* a Boolean: may bytes be skipped?

VARIABLES
    written,   \* how many bytes the program wrote
    closed,    \* its output has ended
    log,       \* the terminal file
    skipped,   \* how many bytes of the output the file lacks
    ended      \* the stream is declared done

pipeVars == <<written, closed, log, skipped, ended>>

Position == Len(log) + skipped

Init == written = 0 /\ ~closed /\ log = <<>> /\ skipped = 0 /\ ~ended

Write ==
    /\ ~closed
    /\ written' \in Nat /\ written' > written
    /\ UNCHANGED <<closed, log, skipped, ended>>

Close == ~closed /\ closed' /\ UNCHANGED <<written, log, skipped, ended>>

\* The next n bytes of the output are appended.
Show(n) ==
    /\ ~ended
    /\ Position + n <= written
    /\ log' = log \o [i \in 1..n |-> Position + i]
    /\ UNCHANGED <<written, closed, skipped, ended>>

Skip(n) ==
    /\ Lossy /\ ~ended
    /\ Position + n <= written
    /\ skipped' = skipped + n
    /\ UNCHANGED <<written, closed, log, ended>>

End ==
    /\ closed /\ Position = written
    /\ ended'
    /\ UNCHANGED <<written, closed, log, skipped>>

Next ==
    \/ Write \/ Close \/ End
    \/ \E n \in 1..(written - Position) : Show(n) \/ Skip(n)

Spec == Init /\ [][Next]_pipeVars
=============================================================================
