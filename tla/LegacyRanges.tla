---------------------------- MODULE LegacyRanges ----------------------------
(***************************************************************************)
(* The legacy range backfill of one CT log (backfill_worker.py,            *)
(* dispatcher_backfill.py, backfill_seeder.py).  A worker seeds the chunks *)
(* of a log without any, then claims pending chunks and runs one batch of  *)
(* each.  next_index is written when a row is inserted and never again, so *)
(* it is the start of the chunk, and claimed_by is never read, so a row    *)
(* does not name its owner.  The heartbeat matters while a row is          *)
(* in_progress only: such a row is "claimed" or, past the claim timeout,   *)
(* "stale".                                                                *)
(***************************************************************************)
EXTENDS Integers, FiniteSets

CONSTANTS
    Worker,      \* worker processes
    NoFinding,   \* repair_for_finding_id IS NULL: an ordinary range
    Copies,      \* bound: findings of one type about one span
    ChunkSize,   \* entries per range
    BatchSizes,  \* effective batch sizes (contention control, --limit)
    TreeSizes,   \* tree sizes the log reports
    Malformed,   \* indices of entries that cannot be parsed
    Pivots       \* first indices the estimate may yield

ASSUME LegacyAssumption ==
    /\ ChunkSize \in Nat \ {0}
    /\ BatchSizes \subseteq Nat \ {0} /\ BatchSizes # {}
    /\ TreeSizes \subseteq Nat /\ IsFiniteSet(TreeSizes)
    /\ Pivots \subseteq Nat

VARIABLES
    ranges,     \* ct_log_backfill_ranges: a row for each chunk
    outcomes,   \* ct_entry_outcomes: the outcome of each index
    findings,   \* ct_audit_findings that are not in a terminal state
    worker,     \* the local state of each worker
    deleted,    \* rows deleted so far: the next row has another id
    short,      \* history: chunks the log answered with too few entries
    disturbed   \* history: a claim outlived its timeout, or was taken back

legacyVars == <<ranges, outcomes, findings, worker, deleted,
                short, disturbed>>

---------------------------------------------------------------------------
Index == UNION {0 .. t - 1 : t \in TreeSizes}

(* A chunk is the pair of its first and last index. *)
Span == {c \in Index \X Index : c[1] <= c[2] /\ c[2] - c[1] < ChunkSize}

Type == {"stale_claim", "failed_range", "missing_outcomes", "observation"}

(* The identity of an audit finding: its type, what it is about, and a     *)
(* number that tells it from another with the same key. *)
Finding == [type : Type, span : Span, n : Copies]

(* "deleted" is no outcome any more, "observed" neither, but the           *)
(* observation of the entry is still there. *)
Outcome == {"none", "stored", "parse_error", "write_error", "deleted",
            "observed"}

HasRow(i) == outcomes[i] \in {"stored", "parse_error", "write_error"}

Active == {"pending", "claimed", "stale"}
InProgress == {"claimed", "stale"}

Row == [status  : {"absent", "complete", "failed"} \cup Active,
        id      : Nat,
        finding : Finding \cup {NoFinding}]

NoRow == [status |-> "absent", id |-> 0, finding |-> NoFinding]

NewRow(finding) == [status |-> "pending", id |-> deleted, finding |-> finding]

HasRanges == \E c \in Span : ranges[c].status # "absent"

(* The UPDATE ... WHERE id = ... that all handlers share; a row that was   *)
(* deleted is not found. *)
SetStatus(c, id, status) ==
    IF ranges[c].id = id /\ ranges[c].status # "absent"
    THEN [ranges EXCEPT ![c].status = status]
    ELSE ranges

(* The copy of the row a worker keeps from its claim to the end. *)
Job == [span : Span, id : Nat, finding : Finding \cup {NoFinding}]

Process ==
    [pc : {"down", "seed", "claim"}] \cup
    [pc : {"seeding"}, size : TreeSizes] \cup
    [pc : {"idle"}, limited : BOOLEAN] \cup
    [pc : {"start", "fetch", "fail", "requeue"}, job : Job] \cup
    [pc : {"persist"}, job : Job, pos : Nat, got : Nat]

At(pc) == [pc |-> pc]
Idle(limited) == [pc |-> "idle", limited |-> limited]

Busy(w) == worker[w].pc \in {"start", "fetch", "persist", "fail", "requeue"}

WorksOn(w, c) ==
    /\ Busy(w)
    /\ worker[w].job.span = c /\ worker[w].job.id = ranges[c].id

Become(w, p) == worker' = [worker EXCEPT ![w] = p]

LegacyInit ==
    /\ ranges = [c \in Span |-> NoRow]
    /\ outcomes = [i \in Index |-> "none"]
    /\ findings = [f \in Finding |-> NoFinding]
    /\ worker = [w \in Worker |-> At("down")]
    /\ deleted = 0
    /\ short = {} /\ disturbed = FALSE

---------------------------------------------------------------------------
(* seed_ranges_for_log *)

(* has_backfill_ranges: a log that has a range is left alone. *)
Start(w) ==
    /\ worker[w].pc = "down"
    /\ Become(w, IF HasRanges THEN Idle(FALSE) ELSE At("seed"))
    /\ UNCHANGED <<ranges, outcomes, findings, deleted,
                   short, disturbed>>

(* fetch_sth; on an error, or for an empty log, nothing is seeded. *)
ProbeTree(w) ==
    /\ worker[w].pc = "seed"
    /\ \/ Become(w, Idle(FALSE))
       \/ \E size \in TreeSizes :
             Become(w, IF size = 0 THEN Idle(FALSE)
                                   ELSE [pc |-> "seeding", size |-> size])
    /\ UNCHANGED <<ranges, outcomes, findings, deleted,
                   short, disturbed>>

(* Fault: the last chunk runs past the end. *)
ChunksPastEnd(first, last, size) ==
    {c \in (first .. last) \X (first .. last + size) :
        (c[1] - first) % size = 0 /\ c[2] = c[1] + size - 1}

(* create_backfill_ranges: consecutive chunks, the last one cut off. *)
Chunks(first, last, size) ==
    {c \in (first .. last) \X (first .. last) :
        /\ (c[1] - first) % size = 0
        /\ c[2] = IF c[1] + size - 1 < last THEN c[1] + size - 1 ELSE last}

(* compute_pivot_index yields an index of the log; rows that exist already *)
(* are left alone (ON CONFLICT DO NOTHING). *)
Seed(w) ==
    /\ worker[w].pc = "seeding"
    /\ \E first \in {p \in Pivots : p < worker[w].size} :
          LET new == Chunks(first, worker[w].size - 1, ChunkSize)
          IN  ranges' = [c \in Span |->
                  IF c \in new /\ ranges[c].status = "absent"
                  THEN NewRow(NoFinding) ELSE ranges[c]]
    /\ Become(w, Idle(FALSE))
    /\ UNCHANGED <<outcomes, findings, deleted, short,
                   disturbed>>

---------------------------------------------------------------------------
(* run_backfill_legacy *)

(* Fault: a fresh heartbeat does not save a claim. *)
ReapableAtOnce(row) == row.status \in InProgress

(* reap_stale_backfill_claims *)
Reapable(row) == row.status = "stale"

Requeue(row) == [row EXCEPT !.status = "pending"]

(* Reap what is stale, then ask the contention controller and sleep. *)
Reap(w) ==
    /\ worker[w].pc = "idle" /\ ~ worker[w].limited
    /\ ranges' = [c \in Span |->
           IF Reapable(ranges[c]) THEN Requeue(ranges[c]) ELSE ranges[c]]
    /\ Become(w, At("claim"))
    /\ UNCHANGED <<outcomes, findings, deleted, short,
                   disturbed>>

Claimable(row) == row.status = "pending"

(* claim_backfill_range: of the pending chunks, the one that starts last;  *)
(* without one the worker sleeps. *)
Claim(w) ==
    LET free == {c \in Span : Claimable(ranges[c])}
    IN  /\ worker[w].pc = "claim"
        /\ \/ /\ free = {}
              /\ Become(w, Idle(FALSE))
              /\ UNCHANGED ranges
           \/ \E c \in free :
              /\ \A d \in free : d[1] <= c[1]
              /\ ranges' = [ranges EXCEPT ![c].status = "claimed"]
              /\ Become(w, [pc |-> "start", job |->
                     [span |-> c, id |-> ranges[c].id,
                      finding |-> ranges[c].finding]])
        /\ UNCHANGED <<outcomes, findings, deleted, short,
                       disturbed>>

---------------------------------------------------------------------------
(* _run_one_range *)

(* update_range_heartbeat *)
Heartbeat(w) ==
    LET p == worker[w]
        row == ranges[p.job.span]
    IN  /\ p.pc = "start"
        /\ ranges' = IF row.status \in InProgress
                     THEN SetStatus(p.job.span, p.job.id, "claimed")
                     ELSE ranges
        /\ Become(w, [pc |-> "fetch", job |-> p.job])
        /\ UNCHANGED <<outcomes, findings, deleted, short,
                       disturbed>>

LastOf(job, size) ==
    IF job.span[1] + size - 1 < job.span[2] THEN job.span[1] + size - 1
                                            ELSE job.span[2]

(* The log answers with a prefix of what was asked for. *)
Fetch(w, size) ==
    LET p == worker[w]
        first == p.job.span[1]
    IN  /\ p.pc = "fetch"
        /\ \E got \in first .. LastOf(p.job, size) + 1 :
              /\ Become(w, [pc |-> "persist", job |-> p.job, pos |-> first,
                            got |-> got])
              /\ short' = IF got > LastOf(p.job, size)
                          THEN short ELSE short \cup {p.job.span}
        /\ UNCHANGED <<ranges, outcomes, findings, deleted,
                       disturbed>>

(* RateLimitError *)
RateLimited(w) ==
    /\ worker[w].pc = "fetch"
    /\ Become(w, [pc |-> "requeue", job |-> worker[w].job])
    /\ UNCHANGED <<ranges, outcomes, findings, deleted,
                   short, disturbed>>

(* An entry that can be parsed is stored with its observation, or leaves a *)
(* write_error. *)
OutcomesOf(i) == IF i \in Malformed THEN {"parse_error"}
                                    ELSE {"stored", "write_error"}

PersistEntry(w) ==
    LET p == worker[w]
    IN  /\ p.pc = "persist" /\ p.pos < p.got
        /\ \E outcome \in OutcomesOf(p.pos) :
              outcomes' = [outcomes EXCEPT ![p.pos] = outcome]
        /\ Become(w, [p EXCEPT !.pos = @ + 1])
        /\ UNCHANGED <<ranges, findings, deleted, short, disturbed>>

(* FetchError, or an exception on the way: the log row is gone, the        *)
(* outcome of a failure or the metrics cannot be written. *)
BatchFails(w) ==
    /\ worker[w].pc \in {"start", "fetch", "persist"}
    /\ Become(w, [pc |-> "fail", job |-> worker[w].job])
    /\ UNCHANGED <<ranges, outcomes, findings, deleted,
                   short, disturbed>>

(* resolve_repair_finding, a no-op for a finding in a terminal state. *)
Resolved(finding) ==
    IF finding = NoFinding THEN findings
                           ELSE [findings EXCEPT ![finding] = NoFinding]

BatchDone(p) == p.pc = "persist" /\ p.pos = p.got

(* mark_range_complete and, for a repair range, resolve_repair_finding.    *)
(* One batch completes the chunk, whatever its size. *)
Complete(w) ==
    LET job == worker[w].job
    IN  /\ worker[w].pc = "persist" /\ BatchDone(worker[w])
        /\ ranges' = SetStatus(job.span, job.id, "complete")
        /\ findings' = Resolved(job.finding)
        /\ Become(w, Idle(FALSE))
        /\ UNCHANGED <<outcomes, deleted, short, disturbed>>

(* Fault: the failure of a batch completes its chunk. *)
CompletedAllTheSame == "complete"

FailedStatus == "failed"

(* mark_range_failed *)
MarkFailed(w) ==
    LET job == worker[w].job
    IN  /\ worker[w].pc = "fail"
        /\ ranges' = SetStatus(job.span, job.id, FailedStatus)
        /\ Become(w, Idle(FALSE))
        /\ UNCHANGED <<outcomes, findings, deleted, short,
                       disturbed>>

(* mark_range_pending; this worker leaves the log alone for a while. *)
MarkPending(w) ==
    LET job == worker[w].job
    IN  /\ worker[w].pc = "requeue"
        /\ ranges' = SetStatus(job.span, job.id, "pending")
        /\ Become(w, Idle(TRUE))
        /\ UNCHANGED <<outcomes, findings, deleted, short,
                       disturbed>>

---------------------------------------------------------------------------
(* The environment *)

(* The process is killed, an error of the database ends it, or it leaves   *)
(* for --once, --limit or a full disk. *)
Crash(w) ==
    /\ worker[w].pc # "down"
    /\ Become(w, At("down"))
    /\ UNCHANGED <<ranges, outcomes, findings, deleted,
                   short, disturbed>>

LimitPasses(w) ==
    /\ worker[w].pc = "idle" /\ worker[w].limited
    /\ Become(w, Idle(FALSE))
    /\ UNCHANGED <<ranges, outcomes, findings, deleted,
                   short, disturbed>>

(* ct_backfill_claim_timeout_seconds have passed since the heartbeat. *)
ClaimExpires(c) ==
    /\ ranges[c].status = "claimed"
    /\ ranges' = [ranges EXCEPT ![c].status = "stale"]
    /\ disturbed' = (disturbed \/ \E w \in Worker : WorksOn(w, c))
    /\ UNCHANGED <<outcomes, findings, worker, deleted, short>>

---------------------------------------------------------------------------
WorkerStep(w) ==
    \/ Start(w) \/ ProbeTree(w) \/ Seed(w)
    \/ Reap(w) \/ Claim(w) \/ Heartbeat(w)
    \/ \E size \in BatchSizes : Fetch(w, size)
    \/ RateLimited(w) \/ BatchFails(w)
    \/ PersistEntry(w) \/ Complete(w) \/ MarkFailed(w) \/ MarkPending(w)

LegacyNext ==
    \/ \E w \in Worker : WorkerStep(w) \/ Crash(w) \/ LimitPasses(w)
    \/ \E c \in Span : ClaimExpires(c)
=============================================================================
