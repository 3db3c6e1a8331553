--------------------------- MODULE BackfillPromise ---------------------------
(***************************************************************************)
(* What the per-log backfill promises to whoever reads its tables: an      *)
(* outcome, once recorded, stays; a log, once closed, stays closed; and a  *)
(* log is closed only when every index of its window is recorded, and      *)
(* gains no unrecorded index afterwards.  The promise is off for a log     *)
(* that is excused.  Nothing is said of workers, claims or batches.        *)
(***************************************************************************)
CONSTANT Log

VARIABLES
    window,     \* the indices each log is to have outcomes for
    recorded,   \* the indices that have one
    closed,     \* the log is reported as complete
    excused     \* the promise no longer holds for the log

promise == <<window, recorded, closed, excused>>

Init ==
    /\ window = [l \in Log |-> {}]
    /\ recorded = [l \in Log |-> {}]
    /\ closed = [l \in Log |-> FALSE]
    /\ excused = [l \in Log |-> FALSE]

(* f changes at l at most. *)
OnlyAt(l, f, fNext) == \A k \in Log \ {l} : fNext[k] = f[k]

Record(l) ==
    /\ OnlyAt(l, recorded, recorded')
    /\ recorded[l] \subseteq recorded'[l]
    /\ UNCHANGED <<window, closed, excused>>

(* A window moves, and the move may be what excuses the log. *)
Move(l) ==
    /\ OnlyAt(l, window, window')
    /\ OnlyAt(l, excused, excused')
    /\ excused[l] => excused'[l]
    /\ closed[l] /\ ~ excused'[l] => window'[l] \subseteq recorded[l]
    /\ UNCHANGED <<recorded, closed>>

Close(l) ==
    /\ excused[l] \/ window[l] \subseteq recorded[l]
    /\ OnlyAt(l, closed, closed')
    /\ closed'[l]
    /\ UNCHANGED <<window, recorded, excused>>

Excuse(l) ==
    /\ OnlyAt(l, excused, excused')
    /\ excused'[l]
    /\ UNCHANGED <<window, recorded, closed>>

Next == \E l \in Log : Record(l) \/ Move(l) \/ Close(l) \/ Excuse(l)

Spec == Init /\ [][Next]_promise
=============================================================================
