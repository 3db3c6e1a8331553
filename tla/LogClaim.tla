------------------------------ MODULE LogClaim ------------------------------
(***************************************************************************)
(* The per-log row of ct_log_backfill_state and the SQL statements that    *)
(* worker_claim.py applies to it.  Each statement is an operator from the  *)
(* row it finds to the row it leaves, so that a transaction of a worker is *)
(* one application of it.                                                  *)
(*                                                                         *)
(* Abstractions of the data:                                               *)
(*   - a timestamp is only ever compared with "now": a heartbeat is        *)
(*     "fresh" until it is ct_worker_stale_seconds old and "stale"         *)
(*     afterwards, a retry deadline is "pending" and then "past", NULL is  *)
(*     "none";                                                             *)
(*   - observed_oldest_not_before is only compared with the coverage       *)
(*     target: it is "old" when it reaches the target, else "recent";      *)
(*   - error texts, claimed_at, updated_at, rate_limited_until and the     *)
(*     two lifetime error counters are written and never read by the       *)
(*     dispatcher; they are left out.                                      *)
(* The status "error" is in the code's list of non-claimable statuses, but *)
(* nothing ever writes it.  A log without a row has the status "absent".   *)
(***************************************************************************)
EXTENDS Integers

CONSTANTS
    Worker,      \* worker identities, "hostname:pid[:wN]"
    NoWorker     \* claimed_by IS NULL

ASSUME NoWorkerAssumption == NoWorker \notin Worker

Status == {"absent", "pending", "claimed", "processing", "retrying",
           "rate_limited", "degraded", "paused", "complete"}
Age    == {"none", "recent", "old"}

Row == [status     : Status,
        completed  : BOOLEAN,                    \* completed_at IS NOT NULL
        claimed_by : Worker \cup {NoWorker},
        heartbeat  : {"none", "fresh", "stale"},
        next_retry : {"none", "pending", "past"},
        start      : Nat,
        end        : Nat,
        checkpoint : Nat,
        retries    : Nat,
        extensions : Nat,
        observed   : Age]

AbsentRow == [status |-> "absent", completed |-> FALSE, claimed_by |-> NoWorker,
              heartbeat |-> "none", next_retry |-> "none", start |-> 0,
              end |-> 0, checkpoint |-> 0, retries |-> 0, extensions |-> 0,
              observed |-> "none"]

(* A row that is inserted and given its first window in one transaction. *)
NewRow(lo, hi) ==
    [AbsentRow EXCEPT !.status = "pending", !.start = lo, !.end = hi,
                      !.checkpoint = lo]

(* The window of an existing row, with the checkpoint the caller read. *)
SetWindow(r, lo, hi, checkpointRead) ==
    [r EXCEPT !.start = lo, !.end = hi, !.checkpoint = checkpointRead]

---------------------------------------------------------------------------
(* Claims *)

FreshClaim(r) == r.claimed_by # NoWorker /\ r.heartbeat = "fresh"

StaleClaim(r) == r.claimed_by # NoWorker /\ r.heartbeat = "stale"

(* Fault: a degraded log never becomes eligible again. *)
ClaimableUnlessDegraded(r) ==
    /\ r.status \notin {"absent", "paused", "complete", "degraded"}
    /\ ~ r.completed
    /\ ~ FreshClaim(r)

Claimable(r) ==
    /\ r.status \notin {"absent", "paused", "complete"}
    /\ ~ r.completed
    /\ ~ FreshClaim(r)
    /\ r.status = "degraded" => r.next_retry # "pending"

ClaimRow(r, w) ==
    [r EXCEPT !.claimed_by = w, !.heartbeat = "fresh", !.status = "claimed"]

ReleaseRow(r) ==
    [r EXCEPT !.claimed_by = NoWorker, !.heartbeat = "none",
              !.status = "pending"]

(* Fault: the reaper touches the heartbeat and leaves the owner. *)
ReapRowKeepsOwner(r) == [r EXCEPT !.heartbeat = "fresh", !.status = "pending"]

(* Fault: the reaper resets completed_at along with the claim. *)
ReapRowReopens(r) ==
    [r EXCEPT !.claimed_by = NoWorker, !.heartbeat = "none",
              !.status = "pending", !.completed = FALSE]

(* The UPDATE of reap_stale_log_claims: its WHERE names the log only. *)
ReapRow(r) ==
    [r EXCEPT !.claimed_by = NoWorker, !.heartbeat = "none",
              !.status = "pending"]

---------------------------------------------------------------------------
(* Updates whose WHERE clause asks for claimed_by = worker *)

IfOwned(r, w, new) == IF r.claimed_by = w THEN new ELSE r

ProgressRow(r, w, checkpoint) ==
    IfOwned(r, w, [r EXCEPT !.heartbeat = "fresh", !.status = "processing",
                            !.checkpoint = checkpoint, !.retries = 0,
                            !.next_retry = "none"])

RetryingRow(r, w, hinted) ==
    IfOwned(r, w, [r EXCEPT !.heartbeat = "fresh",
                            !.status = IF hinted THEN "rate_limited"
                                                 ELSE "retrying",
                            !.retries = @ + 1,
                            !.next_retry = IF hinted THEN "pending" ELSE @])

PausedRow(r, w) ==
    IfOwned(r, w, [r EXCEPT !.status = "paused", !.claimed_by = NoWorker,
                            !.heartbeat = "fresh"])

DegradedRow(r, w) ==
    IfOwned(r, w, [r EXCEPT !.status = "degraded", !.claimed_by = NoWorker,
                            !.heartbeat = "fresh", !.next_retry = "pending",
                            !.retries = 0])

---------------------------------------------------------------------------
(* Updates that do not look at claimed_by *)

CompleteRow(r) ==
    [r EXCEPT !.status = "complete", !.completed = TRUE,
              !.claimed_by = NoWorker]

(* Fault: the checkpoint is not moved back with the window. *)
ExtendRowKeepsCheckpoint(r, newStart, oldest) ==
    [r EXCEPT !.start = newStart, !.extensions = @ + 1,
              !.observed = IF oldest = "none" THEN @ ELSE oldest]

ExtendRow(r, newStart, oldest) ==
    [r EXCEPT !.start = newStart, !.checkpoint = newStart,
              !.extensions = @ + 1,
              !.observed = IF oldest = "none" THEN @ ELSE oldest]

ObserveRow(r, oldest) ==
    [r EXCEPT !.observed = IF @ = "none" \/ (@ = "recent" /\ oldest = "old")
                           THEN oldest ELSE @]
=============================================================================
