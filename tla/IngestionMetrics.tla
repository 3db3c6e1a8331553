-------------------------- MODULE IngestionMetrics --------------------------
(***************************************************************************)
(* What the ingestion workers count (metrics.py): the counters of a batch  *)
(* are in the worker's memory, and go into a row of ingestion_metrics in a *)
(* transaction of their own, after the entries they count and beside the   *)
(* one that saves the progress (tail_worker.py, backfill_worker.py,        *)
(* backfill_per_log.py).  A batch whose progress is not saved is fetched   *)
(* again.                                                                  *)
(***************************************************************************)
EXTENDS Integers, FiniteSets, Functions

CONSTANTS
    Ingester,      \* workers
    TailIngester,  \* those that ingest the tail
    BatchLimit,    \* the entries of a batch, at most
    MaxStored      \* bound: entries that are stored

ASSUME MetricsAssumption ==
    /\ IsFiniteSet(Ingester) /\ TailIngester \subseteq Ingester
    /\ BatchLimit \in Nat /\ MaxStored \in Nat

VARIABLES
    batch,        \* the batch of each worker and its LogMetricsAccumulator
    metricTotal,  \* the sum over ingestion_metrics of certs_upserted
    storedTotal,  \* history: certificates stored, each time they are
    lost          \* history: counters were lost with a process or a
                  \* transaction

metricsVars == <<batch, metricTotal, storedTotal, lost>>

---------------------------------------------------------------------------
(* The certificates stored, and whether any other counter is not zero. *)
Counters == [stored : Nat, other : BOOLEAN]

NoCounts == [stored |-> 0, other |-> FALSE]

NoBatch == [pc |-> "idle", size |-> 0, left |-> 0, counts |-> NoCounts]

MetricsTypeOK ==
    /\ batch \in [Ingester ->
         [pc : {"idle", "entries", "persist", "progress", "failed"},
          size : 0 .. BatchLimit, left : 0 .. BatchLimit, counts : Counters]]
    /\ metricTotal \in Nat /\ storedTotal \in Nat /\ lost \in BOOLEAN

MetricsInit ==
    /\ batch = [w \in Ingester |-> NoBatch]
    /\ metricTotal = 0 /\ storedTotal = 0 /\ lost = FALSE

(* has_activity *)
HasActivity(counts) == counts # NoCounts

OnlyBatch(w, b) == /\ batch' = [batch EXCEPT ![w] = b]
                   /\ UNCHANGED <<metricTotal, storedTotal, lost>>

---------------------------------------------------------------------------
BeginBatch(w) ==
    /\ batch[w].pc = "idle"
    /\ \E n \in 1 .. BatchLimit :
          OnlyBatch(w, [pc |-> "entries", size |-> n, left |-> n,
                        counts |-> NoCounts])

(* persist_entry_with_retry, then record_entry_write_metrics *)
StoreAndRecord(w) ==
    /\ batch[w].pc = "entries" /\ batch[w].left > 0 /\ storedTotal < MaxStored
    /\ batch' = [batch EXCEPT ![w] =
           [batch[w] EXCEPT !.left = batch[w].left - 1,
                            !.counts.stored = batch[w].counts.stored + 1]]
    /\ storedTotal' = storedTotal + 1
    /\ UNCHANGED <<metricTotal, lost>>

(* An entry that cannot be parsed or stored. *)
RecordError(w) ==
    /\ batch[w].pc = "entries" /\ batch[w].left > 0
    /\ OnlyBatch(w, [batch[w] EXCEPT !.left = batch[w].left - 1,
                                     !.counts.other = TRUE])

(* What was fetched is counted last.  The tail saves its progress before   *)
(* the row, the backfills after it. *)
EndEntries(w) ==
    /\ batch[w].pc = "entries" /\ batch[w].left = 0
    /\ OnlyBatch(w, [batch[w] EXCEPT
           !.pc = IF w \in TailIngester THEN "progress" ELSE "persist",
           !.counts.other = TRUE])

(* The log does not answer; in a backfill, also the outcome of a failed    *)
(* entry or the progress cannot be saved. *)
BatchRaises(w) ==
    /\ batch[w].pc \in {"entries", "progress"}
    /\ w \in TailIngester => batch[w].pc = "entries" /\ batch[w].left = batch[w].size
    /\ \/ OnlyBatch(w, [batch[w] EXCEPT !.pc = "failed", !.counts.other = TRUE])
       \/ w \notin TailIngester /\ OnlyBatch(w, [batch[w] EXCEPT !.pc = "failed"])

SaveProgress(w) ==
    /\ batch[w].pc = "progress"
    /\ OnlyBatch(w, IF w \in TailIngester THEN [batch[w] EXCEPT !.pc = "persist"]
                                  ELSE NoBatch)

(* Fault: the counters go on after they are written. *)
KeptCounts(b) == b.counts

(* _reset *)
AfterPersist(b) == NoCounts

(* persist_snapshot: the row is added and the counters are reset, then the *)
(* transaction commits. *)
PersistRow(w, from, to) ==
    /\ batch[w].pc = from
    /\ batch' = [batch EXCEPT ![w] =
           IF to = "idle" THEN NoBatch
           ELSE [batch[w] EXCEPT !.pc = to, !.counts = AfterPersist(batch[w])]]
    /\ metricTotal' = metricTotal + batch[w].counts.stored
    /\ UNCHANGED <<storedTotal, lost>>

PersistBatch(w) == PersistRow(w, "persist", IF w \in TailIngester THEN "idle" ELSE "progress")

PersistFailure(w) == PersistRow(w, "failed", "idle")

(* The transaction fails after the reset. *)
PersistLost(w) ==
    /\ batch[w].pc \in {"persist", "failed"} /\ HasActivity(batch[w].counts)
    /\ batch' = [batch EXCEPT ![w] =
           IF batch[w].pc = "persist" /\ w \notin TailIngester
           THEN [batch[w] EXCEPT !.pc = "failed", !.counts = AfterPersist(batch[w])]
           ELSE NoBatch]
    /\ lost' = TRUE
    /\ UNCHANGED <<metricTotal, storedTotal>>

(* The process ends; in the tail, also by an error it does not handle. *)
IngesterDies(w) ==
    /\ batch[w].pc # "idle"
    /\ batch' = [batch EXCEPT ![w] = NoBatch]
    /\ lost' = TRUE
    /\ UNCHANGED <<metricTotal, storedTotal>>

MetricsNext ==
    \E w \in Ingester :
        \/ BeginBatch(w) \/ StoreAndRecord(w) \/ RecordError(w) \/ EndEntries(w)
        \/ BatchRaises(w) \/ SaveProgress(w) \/ PersistBatch(w)
        \/ PersistFailure(w) \/ PersistLost(w) \/ IngesterDies(w)

MetricsSpec == MetricsInit /\ [][MetricsNext]_metricsVars

---------------------------------------------------------------------------
(* Properties *)

Held == SumFunction([w \in Ingester |-> batch[w].counts.stored])

(* A certificate that is stored is counted in one row at most, through     *)
(* failures, the second row of a failed batch and restarts; and in exactly *)
(* one, as soon as its batch is over, unless a process or the transaction  *)
(* of a row was lost. *)
CountedOnce ==
    /\ metricTotal + Held <= storedTotal
    /\ lost \/ metricTotal + Held = storedTotal
=============================================================================
