------------------------------ MODULE StoredFile ------------------------------
(***************************************************************************)
(* What pkg/filestore promises of a circular file: it has contents now,    *)
(* and contents that are saved, its metadata with them.  Now grows at its  *)
(* end, keeping what still fits; what is saved is what the file was at     *)
(* some time since the last save; a restart, or a file that cannot be      *)
(* saved, goes back to that.                                               *)
(***************************************************************************)
EXTENDS Naturals, Sequences

CONSTANTS File, MaxSize

VARIABLES now, saved  \* file -> size: all there ever was, data: its last bytes, meta

Nothing == [size |-> 0, meta |-> 0, data |-> <<>>]

Init == now = [f \in File |-> Nothing] /\ saved = [f \in File |-> Nothing]

\* Byte i of all there ever was.
At(c, i) == c.data[i - (c.size - Len(c.data))]

\* A file grows: what it keeps of the old contents is unchanged.
Grown(old, new, max) ==
    /\ new.size > old.size /\ new.meta = old.meta
    /\ Len(new.data) = (IF new.size < max THEN new.size ELSE max)
    /\ \A i \in (new.size - Len(new.data) + 1)..old.size : At(new, i) = At(old, i)

Grow(f)   == saved'[f] = saved[f] /\ Grown(now[f], now'[f], MaxSize[f])
Clear(f)  ==
    /\ now'[f] \in {Nothing, [Nothing EXCEPT !.meta = now[f].meta]}
    /\ saved'[f] \in {saved[f], now'[f]}
Note(f)   == saved'[f] = saved[f] /\ now'[f] = [now[f] EXCEPT !.meta = now'[f].meta]
Save(f)   == now'[f] = now[f] /\ saved'[f] = now[f]
GiveUp(f) == now'[f] = saved[f] /\ saved'[f] = saved[f]

Others(f) == \A g \in File \ {f} : now'[g] = now[g] /\ saved'[g] = saved[g]
Restart   == now' = saved /\ saved' = saved

Next ==
    \/ \E f \in File : Others(f) /\ (Grow(f) \/ Clear(f) \/ Note(f) \/ Save(f) \/ GiveUp(f))
    \/ Restart

Spec == Init /\ [][Next]_<<now, saved>>
=============================================================================
