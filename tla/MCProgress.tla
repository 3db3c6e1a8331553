----------------------------- MODULE MCProgress -----------------------------
(* Progress of ingestion under fairness: that of the backfill or that of   *)
(* the tail, which share nothing in their modules.  The one that has no    *)
(* part to play stays in its initial state, where its workers are down and *)
(* its fairness asks for nothing. *)
EXTENDS Integers, FiniteSets

CONSTANTS
    Worker, NoWorker, BatchSizes,
    Log, NoLog, Pivots, Heads, OldEntries, MaxAttempts, MaxExtensions,
    FailureKinds, ShortAnswers, HasLimit,
    InitFromEnd, MaxTree

VARIABLES
    part,
    rows, backfilled, backfiller, backfillDisturbed,
    lease, cursor, tailed, tailer, resetTo, tree, base, skipped, tailDisturbed

Backfill == INSTANCE PerLogBackfill WITH
    outcomes <- backfilled, worker <- backfiller,
    disturbed <- backfillDisturbed

Tail == INSTANCE TailIngest WITH
    outcomes <- tailed, worker <- tailer, disturbed <- tailDisturbed

backfillVars == <<rows, backfilled, backfiller, backfillDisturbed>>

tailVars == <<lease, cursor, tailed, tailer, resetTo, tree, base, skipped,
              tailDisturbed>>

vars == <<part, backfillVars, tailVars>>

Init ==
    /\ part \in {"backfill", "tail"}
    /\ Backfill!Init /\ Tail!Init
    /\ part = "backfill" => tree = 0

Next ==
    /\ UNCHANGED part
    /\ \/ part = "backfill" /\ Backfill!Next /\ UNCHANGED tailVars
       \/ part = "tail" /\ Tail!Next /\ UNCHANGED backfillVars

Spec == Init /\ [][Next]_vars /\ Backfill!Fairness /\ Tail!Fairness

---------------------------------------------------------------------------
(* A claim of a log that nobody works on is taken back (backfill). *)
OrphanReclaimed == Backfill!OrphanReclaimed

(* Every log with a window is completed once the backfill is calm. *)
CalmCompletes == Backfill!CalmCompletes

(* A lease left by a killed worker is taken over (tail). *)
LeaseReturns == Tail!LeaseReturns

(* The tail catches up with the log once it is calm. *)
TailCatchesUp == Tail!TailCatchesUp
=============================================================================
