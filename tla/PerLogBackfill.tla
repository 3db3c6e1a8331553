--------------------------- MODULE PerLogBackfill ---------------------------
(***************************************************************************)
(* The per-log backfill dispatcher (backfill_per_log.py): workers claim a  *)
(* log, drive its checkpoint forward batch by batch, extend the window     *)
(* backward while the date coverage is not reached, and mark the log       *)
(* complete.  One action per database transaction or network call of the   *)
(* worker, so that other workers, the passing of time and crashes come     *)
(* between any two of them.                                                *)
(***************************************************************************)
EXTENDS LogClaim, FiniteSets

CONSTANTS
    Log,            \* the logs eligible for backfill
    NoLog,
    BatchSizes,     \* effective batch sizes (contention control, --limit)
    Pivots,         \* first indices a window probe may compute
    Heads,          \* last indices (tree_size - 1) a window probe may see
    OldEntries,     \* indices whose not_before reaches the coverage target
    MaxAttempts,    \* ct_batch_retry_max_attempts
    MaxExtensions,  \* _MAX_WINDOW_EXTENSIONS
    FailureKinds,   \* classes of batch failure that happen
    ShortAnswers,   \* a log may answer with fewer entries than asked for
    HasLimit        \* the workers run with --limit

ASSUME ConstantsAssumption ==
    /\ NoLog \notin Log
    /\ BatchSizes \subseteq Nat \ {0}
    /\ Pivots \subseteq Nat /\ Heads \subseteq Nat
    /\ \A p \in Pivots, h \in Heads : p <= h
    /\ OldEntries \subseteq Nat
    /\ MaxAttempts \in Nat \ {0}
    /\ MaxExtensions \in Nat
    /\ FailureKinds \subseteq {"rate_limit", "rate_limit_hint", "transient",
                               "fatal"}
    /\ ShortAnswers \in BOOLEAN
    /\ HasLimit \in BOOLEAN

VARIABLES
    rows,       \* ct_log_backfill_state, one row per log
    outcomes,   \* ct_entry_outcomes: the indices with a terminal outcome
    worker,     \* the local state of each worker process
    disturbed   \* history: what has come between a log and its driver

vars == <<rows, outcomes, worker, disturbed>>

---------------------------------------------------------------------------
(* What a worker keeps in memory between two awaits.  "cur" is its copy of *)
(* the claimed row; a batch asked for cur.checkpoint .. upto - 1, was      *)
(* answered with cur.checkpoint .. got - 1 and is persisted below pos.     *)

Snapshot == [start : Nat, end : Nat, checkpoint : Nat, retries : Nat,
             extensions : Nat]

SnapshotOf(r) == [start |-> r.start, end |-> r.end,
                  checkpoint |-> r.checkpoint, retries |-> r.retries,
                  extensions |-> r.extensions]

NoSnapshot == SnapshotOf(AbsentRow)

DrivePC == {"drive", "persist", "failed", "release", "observe", "decide",
            "refresh"}
PC == {"down", "init", "window", "loop", "reap", "claim"} \cup DrivePC

Process == [pc      : PC,
            log     : Log \cup {NoLog},
            cur     : Snapshot,
            pos     : Nat,
            got     : Nat,
            upto    : Nat,
            seen    : Age,          \* oldest not_before seen on this log
            hit     : Age,          \* oldest not_before of the batch
            fail    : FailureKinds \cup {"none"},
            list    : SUBSET Log,   \* logs to initialise, or to reap
            cooling : SUBSET Log]   \* logs in rate-limit cooldown

Down == [pc |-> "down", log |-> NoLog, cur |-> NoSnapshot, pos |-> 0,
         got |-> 0, upto |-> 0, seen |-> "none", hit |-> "none",
         fail |-> "none", list |-> {}, cooling |-> {}]

(* Back at the head of the dispatch loop: the batch is forgotten, the      *)
(* cooldowns are kept. *)
Looping(p) == [Down EXCEPT !.pc = "loop", !.cooling = p.cooling]

(* The start of an iteration of _drive_one_log with a fresh copy of the    *)
(* row.  (An action that changes several fields of a worker does so in one *)
(* EXCEPT of its record: [worker EXCEPT ![w] = [@ EXCEPT ...]].) *)
DriveFrom(p, r) ==
    [p EXCEPT !.pc = "drive", !.cur = SnapshotOf(r), !.pos = 0, !.got = 0,
              !.upto = 0, !.hit = "none"]

Drives(w, l) == worker[w].pc \in DrivePC /\ worker[w].log = l

Disturb(l, what, happened) ==
    disturbed' = IF happened THEN [disturbed EXCEPT ![l] = @ \cup {what}]
                             ELSE disturbed

Init ==
    /\ rows = [l \in Log |-> AbsentRow]
    /\ outcomes = [l \in Log |-> {}]
    /\ worker = [w \in Worker |-> Down]
    /\ disturbed = [l \in Log |-> {}]

---------------------------------------------------------------------------
(* Start of a worker process: _initialize_states *)

Start(w) ==
    /\ worker[w].pc = "down"
    /\ worker' = [worker EXCEPT ![w] = [@ EXCEPT !.pc = "init", !.list = Log]]
    /\ UNCHANGED <<rows, outcomes, disturbed>>

(* The tree-head probe failed, the tree is empty, or the log is complete. *)
SkipWindow(w, l) ==
    /\ worker[w].pc = "init" /\ l \in worker[w].list
    /\ worker' = [worker EXCEPT ![w].list = @ \ {l}]
    /\ UNCHANGED <<rows, outcomes, disturbed>>

CreateWindow(w, l, lo, hi) ==
    /\ worker[w].pc = "init" /\ l \in worker[w].list
    /\ rows[l].status = "absent"
    /\ rows' = [rows EXCEPT ![l] = NewRow(lo, hi)]
    /\ worker' = [worker EXCEPT ![w].list = @ \ {l}]
    /\ UNCHANGED <<outcomes, disturbed>>

(* initialize_log_window reads the row without a lock ...                  *)
ReadWindow(w, l) ==
    /\ worker[w].pc = "init" /\ l \in worker[w].list
    /\ rows[l].status \notin {"absent", "complete"}
    /\ worker' = [worker EXCEPT
                     ![w] = [@ EXCEPT !.pc = "window", !.log = l,
                                      !.cur = SnapshotOf(rows[l]),
                                      !.list = worker[w].list \ {l}]]
    /\ UNCHANGED <<rows, outcomes, disturbed>>

(* ... and writes the new bounds with the checkpoint it has read.  The     *)
(* window is realigned under somebody when it now starts below indices the *)
(* checkpoint already counts, or when its end moves while a worker drives  *)
(* the log or after its completion. *)
WriteWindow(w, lo, hi) ==
    LET l == worker[w].log
        r == rows[l]
    IN  /\ worker[w].pc = "window"
        /\ rows' = [rows EXCEPT ![l] =
                       SetWindow(r, lo, hi, worker[w].cur.checkpoint)]
        /\ worker' = [worker EXCEPT
                         ![w] = [@ EXCEPT !.pc = "init", !.log = NoLog,
                                          !.cur = NoSnapshot]]
        /\ Disturb(l, "realigned",
                   \/ lo < r.start \/ lo < worker[w].cur.start
                   \/ /\ hi # r.end
                      /\ r.completed \/ \E v \in Worker : Drives(v, l))
        /\ UNCHANGED outcomes

EnterLoop(w) ==
    /\ worker[w].pc = "init" /\ worker[w].list = {}
    /\ worker' = [worker EXCEPT ![w].pc = "loop"]
    /\ UNCHANGED <<rows, outcomes, disturbed>>

---------------------------------------------------------------------------
(* The dispatch loop: reap, then claim *)

(* reap_stale_log_claims selects the stale rows ... *)
ReapSelect(w) ==
    LET stale == {l \in Log : StaleClaim(rows[l])}
    IN  /\ worker[w].pc = "loop"
        /\ worker' = [worker EXCEPT
               ![w] = [@ EXCEPT !.pc = IF stale = {} THEN "claim" ELSE "reap",
                                !.list = stale]]
        /\ UNCHANGED <<rows, outcomes, disturbed>>

(* ... and updates them by id. *)
ReapUpdate(w) ==
    /\ worker[w].pc = "reap"
    /\ rows' = [l \in Log |-> IF l \in worker[w].list THEN ReapRow(rows[l])
                                                      ELSE rows[l]]
    /\ worker' = [worker EXCEPT ![w] = [@ EXCEPT !.pc = "claim", !.list = {}]]
    /\ UNCHANGED <<outcomes, disturbed>>

(* The ORDER BY prefers the oldest heartbeat, but SKIP LOCKED passes over  *)
(* a row another transaction holds: any eligible log may be the first. *)
Claim(w, l) ==
    /\ worker[w].pc = "claim"
    /\ l \notin worker[w].cooling
    /\ Claimable(rows[l])
    /\ rows' = [rows EXCEPT ![l] = ClaimRow(@, w)]
    /\ worker' = [worker EXCEPT
                     ![w] = [DriveFrom(@, rows[l]) EXCEPT
                               !.log = l, !.seen = rows[l].observed]]
    /\ Disturb(l, "overtaken", \E v \in Worker \ {w} : Drives(v, l))
    /\ UNCHANGED outcomes

NothingToClaim(w) ==
    /\ worker[w].pc = "claim"
    /\ \A l \in Log : l \in worker[w].cooling \/ ~ Claimable(rows[l])
    /\ worker' = [worker EXCEPT ![w].pc = "loop"]
    /\ UNCHANGED <<rows, outcomes, disturbed>>

---------------------------------------------------------------------------
(* One batch: _run_one_log_batch and _process_index_batch *)

(* One past the last index asked for: min(next + batch - 1, end) + 1. *)
BatchEnd(cur, size) ==
    IF cur.checkpoint + size <= cur.end + 1 THEN cur.checkpoint + size
                                            ELSE cur.end + 1

(* fetch_entries answers with a prefix of the range it was asked for; a    *)
(* range that is empty has no entries. *)
Fetch(w, size) ==
    LET from == worker[w].cur.checkpoint
        past == BatchEnd(worker[w].cur, size)
    IN  /\ worker[w].pc = "drive"
        /\ \E got \in {from} \cup (from .. past) :
              /\ got < past => ShortAnswers
              /\ worker' = [worker EXCEPT
                     ![w] = [@ EXCEPT !.pc = "persist", !.pos = from,
                                      !.got = got, !.upto = past]]
        /\ UNCHANGED <<rows, outcomes, disturbed>>

(* Stored, or recorded as a terminal failure of the entry, each in its own *)
(* transaction; only a stored entry counts towards the date coverage. *)
PersistEntry(w, stored) ==
    LET p == worker[w]
        date == IF p.pos \in OldEntries THEN "old" ELSE "recent"
    IN  /\ p.pc = "persist" /\ p.pos < p.got
        /\ outcomes' = [outcomes EXCEPT ![p.log] = @ \cup {p.pos}]
        /\ worker' = [worker EXCEPT
               ![w] = [@ EXCEPT !.pos = p.pos + 1,
                                !.hit = IF stored /\ p.hit # "old" THEN date
                                                                  ELSE p.hit]]
        /\ UNCHANGED <<rows, disturbed>>

(* The batch is done: its requested end becomes the checkpoint. *)
SaveProgress(w) ==
    LET p == worker[w]
    IN  /\ p.pc = "persist" /\ p.pos = p.got
        /\ rows' = [rows EXCEPT ![p.log] = ProgressRow(@, w, p.upto)]
        /\ worker' = [worker EXCEPT
               ![w] = [@ EXCEPT
                         !.pc = IF p.hit = "none" THEN "decide" ELSE "observe",
                         !.pos = 0, !.got = 0]]
        /\ Disturb(p.log, "short", p.got < p.upto)
        /\ UNCHANGED outcomes

(* Fault: a failed batch reports the end it was aiming at. *)
BatchFailsButAdvances(w, kind) ==
    /\ worker[w].pc \in {"drive", "persist"}
    /\ worker[w].pc = "persist" => kind = "transient"
    /\ worker' = [worker EXCEPT
                     ![w] = [@ EXCEPT !.pc = "failed", !.fail = kind,
                                      !.pos = 0, !.got = 0, !.hit = "none",
                                      !.upto = worker[w].cur.end + 1]]
    /\ UNCHANGED <<rows, outcomes, disturbed>>

(* The fetch, an outcome that cannot be written, or the progress update    *)
(* raises: the batch counts for nothing. *)
BatchFails(w, kind) ==
    /\ worker[w].pc \in {"drive", "persist"}
    /\ worker[w].pc = "persist" => kind = "transient"
    /\ worker' = [worker EXCEPT
                     ![w] = [@ EXCEPT !.pc = "failed", !.fail = kind,
                                      !.pos = 0, !.got = 0, !.hit = "none",
                                      !.upto = worker[w].cur.checkpoint]]
    /\ UNCHANGED <<rows, outcomes, disturbed>>

(* Fault: the attempt that has just failed is not counted. *)
FailedRowOneMore(r, w, kind, retriesRead) ==
    CASE kind = "fatal"                  -> PausedRow(r, w)
      [] kind # "fatal" /\ retriesRead >= MaxAttempts
                                         -> DegradedRow(r, w)
      [] OTHER -> RetryingRow(r, w, kind = "rate_limit_hint")

(* The row after _handle_batch_failure. *)
FailedRow(r, w, kind, retriesRead) ==
    CASE kind = "fatal"                  -> PausedRow(r, w)
      [] kind # "fatal" /\ retriesRead + 1 >= MaxAttempts
                                         -> DegradedRow(r, w)
      [] OTHER -> RetryingRow(r, w, kind = "rate_limit_hint")

HandleFailure(w) ==
    LET p == worker[w]
    IN  /\ p.pc = "failed"
        /\ rows' = [rows EXCEPT ![p.log] =
                       FailedRow(@, w, p.fail, p.cur.retries)]
        /\ worker' = [worker EXCEPT
               ![w] = [@ EXCEPT
                         !.fail = "none",
                         !.pc = IF p.fail \in {"rate_limit", "rate_limit_hint"}
                                THEN "release" ELSE "decide"]]
        /\ UNCHANGED <<outcomes, disturbed>>

---------------------------------------------------------------------------
(* After the batch: the rest of _drive_one_log *)

(* Rate limited: the claim is given back and this worker lets the log cool. *)
ReleaseClaim(w) ==
    LET p == worker[w]
    IN  /\ p.pc = "release"
        /\ rows' = [rows EXCEPT ![p.log] = ReleaseRow(@)]
        /\ worker' = [worker EXCEPT
               ![w] = [Looping(p) EXCEPT !.cooling = p.cooling \cup {p.log}]]
        /\ UNCHANGED <<outcomes, disturbed>>

ObserveOldest(w) ==
    LET p == worker[w]
    IN  /\ p.pc = "observe"
        /\ rows' = [rows EXCEPT ![p.log] = ObserveRow(@, p.hit)]
        /\ worker' = [worker EXCEPT
               ![w] = [@ EXCEPT !.pc = "decide", !.hit = "none",
                                !.seen = IF p.seen = "old" THEN p.seen
                                                           ELSE p.hit]]
        /\ UNCHANGED <<outcomes, disturbed>>

WindowDone(p) == p.upto > p.cur.end

MayExtend(p) ==
    /\ p.seen # "old"
    /\ p.cur.start > 0
    /\ p.cur.extensions < MaxExtensions

(* The estimate of the missing days is max(0, target - oldest): the oldest *)
(* date is after the target whenever the window is extended, so the        *)
(* estimate is always zero days and the extension always one entry. *)
ExtensionEntries == 1

(* Fault: the floor at index 0 is forgotten. *)
ExtendedStartUnfloored(start) == start - ExtensionEntries - 1

(* compute_extended_start *)
ExtendedStart(start) ==
    IF start > ExtensionEntries THEN start - ExtensionEntries ELSE 0

ExtendWindow(w) ==
    LET p == worker[w]
    IN  /\ p.pc = "decide" /\ WindowDone(p) /\ MayExtend(p)
        /\ rows' = [rows EXCEPT ![p.log] =
                       ExtendRow(@, ExtendedStart(p.cur.start), p.seen)]
        /\ worker' = [worker EXCEPT ![w].pc = "refresh"]
        /\ UNCHANGED <<outcomes, disturbed>>

MarkComplete(w) ==
    LET p == worker[w]
    IN  /\ p.pc = "decide" /\ WindowDone(p) /\ ~ MayExtend(p)
        /\ rows' = [rows EXCEPT ![p.log] = CompleteRow(@)]
        /\ worker' = [worker EXCEPT ![w] = Looping(p)]
        /\ UNCHANGED <<outcomes, disturbed>>

(* The bottom of the loop re-reads the row: a worker that is no longer its *)
(* owner stops driving it. *)
MayRefresh(p) == p.pc = "refresh" \/ (p.pc = "decide" /\ ~ WindowDone(p))

Refresh(w) ==
    LET p == worker[w]
        r == rows[p.log]
    IN  /\ MayRefresh(p)
        /\ worker' = [worker EXCEPT
                         ![w] = IF r.claimed_by = w THEN DriveFrom(p, r)
                                                    ELSE Looping(p)]
        /\ UNCHANGED <<rows, outcomes, disturbed>>

(* --limit is reached after the refresh: the worker returns to the loop    *)
(* with the log still claimed in its name. *)
LimitReached(w) ==
    /\ HasLimit
    /\ MayRefresh(worker[w])
    /\ worker' = [worker EXCEPT ![w] = Looping(@)]
    /\ UNCHANGED <<rows, outcomes, disturbed>>

---------------------------------------------------------------------------
(* The environment *)

(* The process exits (end of --once, critical disk, an exception outside   *)
(* the batch) or is killed; nothing gives its claim back. *)
Crash(w) ==
    /\ worker[w].pc # "down"
    /\ worker' = [worker EXCEPT ![w] = Down]
    /\ UNCHANGED <<rows, outcomes, disturbed>>

HeartbeatExpires(l) ==
    /\ FreshClaim(rows[l])
    /\ rows' = [rows EXCEPT ![l].heartbeat = "stale"]
    /\ UNCHANGED <<outcomes, worker, disturbed>>

CooldownExpires(l) ==
    /\ rows[l].next_retry = "pending"
    /\ rows' = [rows EXCEPT ![l].next_retry = "past"]
    /\ UNCHANGED <<outcomes, worker, disturbed>>

BackoffExpires(w, l) ==
    /\ l \in worker[w].cooling
    /\ worker' = [worker EXCEPT ![w].cooling = @ \ {l}]
    /\ UNCHANGED <<rows, outcomes, disturbed>>

---------------------------------------------------------------------------
WorkerStep(w) ==
    \/ Start(w)
    \/ \E l \in Log : SkipWindow(w, l)
    \/ \E l \in Log, lo \in Pivots, hi \in Heads : CreateWindow(w, l, lo, hi)
    \/ \E l \in Log : ReadWindow(w, l)
    \/ \E lo \in Pivots, hi \in Heads : WriteWindow(w, lo, hi)
    \/ EnterLoop(w)
    \/ ReapSelect(w) \/ ReapUpdate(w)
    \/ \E l \in Log : Claim(w, l)
    \/ NothingToClaim(w)
    \/ \E size \in BatchSizes : Fetch(w, size)
    \/ \E stored \in BOOLEAN : PersistEntry(w, stored)
    \/ SaveProgress(w)
    \/ \E kind \in FailureKinds : BatchFails(w, kind)
    \/ HandleFailure(w) \/ ReleaseClaim(w) \/ ObserveOldest(w)
    \/ ExtendWindow(w) \/ MarkComplete(w) \/ Refresh(w) \/ LimitReached(w)

Environment ==
    \/ \E w \in Worker : Crash(w)
    \/ \E l \in Log : HeartbeatExpires(l) \/ CooldownExpires(l)
    \/ \E w \in Worker, l \in Log : BackoffExpires(w, l)

Next == (\E w \in Worker : WorkerStep(w)) \/ Environment

Spec == Init /\ [][Next]_vars

---------------------------------------------------------------------------
(* Properties *)

TypeOK ==
    /\ rows \in [Log -> Row]
    /\ outcomes \in [Log -> SUBSET Nat]
    /\ worker \in [Worker -> Process]
    /\ disturbed \in [Log -> SUBSET {"overtaken", "realigned", "short"}]

Covered(l, lo, past) == lo .. past - 1 \subseteq outcomes[l]

(* Resuming from the durable checkpoint loses nothing: whatever the        *)
(* interleaving of workers, crashes, reaps and restarts, every index of    *)
(* the window below the checkpoint has a terminal outcome, unless the log  *)
(* was driven by two workers at once, its window was moved under its       *)
(* driver, or a short answer was taken for a full one. *)
CheckpointCovered ==
    \A l \in Log : disturbed[l] = {} =>
        Covered(l, rows[l].start, rows[l].checkpoint)

(* A log marked complete has an outcome for every index of its window,     *)
(* with the same three exceptions. *)
CompletionCovered ==
    \A l \in Log : disturbed[l] = {} /\ rows[l].completed =>
        Covered(l, rows[l].start, rows[l].end + 1)

(* However often a claim changes hands, the retry counter of a log stays   *)
(* below the attempts _handle_batch_failure grants: a log that keeps       *)
(* failing is always degraded and never retried without end. *)
RetryBudgetHeld == \A l \in Log : rows[l].retries < MaxAttempts

---------------------------------------------------------------------------
(* What the documents say and the code does not do *)

(* docs/ARCHITECTURE.md: "There is at most one worker per log at any time."*)
(* A batch that outlives the heartbeat is reaped while its worker goes on. *)
AtMostOneDriver ==
    \A l \in Log : \A v, w \in Worker : Drives(v, l) /\ Drives(w, l) => v = w

(* entry_persistence.py: "the cursor or backfill range can only advance    *)
(* after durable accounting exists."  A log that answers a batch with      *)
(* fewer entries than asked for moves the checkpoint over the rest. *)
ShortAnswersCovered ==
    \A l \in Log : disturbed[l] \subseteq {"short"} =>
        Covered(l, rows[l].start, rows[l].checkpoint)

(* config.py: a degraded log is "held off for this many seconds before any *)
(* worker picks it up again."  A log degraded by rate limiting is released *)
(* to pending in the next transaction, its deadline with nobody to heed it.*)
DegradedHeldOff ==
    \A l \in Log :
        rows[l].claimed_by = NoWorker /\ rows[l].next_retry = "pending"
            => ~ Claimable(rows[l])

---------------------------------------------------------------------------
(* The inductive invariant behind the two properties of coverage *)

(* What the copy of a row in a worker's memory is worth, at each point of  *)
(* the batch, for a log nothing has come between.  *)
SnapshotCovered(w) ==
    LET p == worker[w]
        l == p.log
    IN  p.log # NoLog /\ disturbed[l] = {} =>
          /\ Covered(l, p.cur.start, p.cur.checkpoint)
          /\ p.pc = "persist" =>
                /\ Covered(l, p.cur.checkpoint, p.pos)
                /\ p.pos <= p.got
          /\ p.pc \in {"failed", "release", "observe", "decide"} =>
                Covered(l, p.cur.start, p.upto)
          /\ p.pc \in DrivePC => ~ rows[l].completed
          /\ p.pc \in DrivePC \ {"refresh"} =>
                p.cur.start <= rows[l].start /\ p.cur.end = rows[l].end

(* Only a worker that initialises a window or drives a log has a log. *)
LogsInHand ==
    \A w \in Worker :
        worker[w].log \in Log <=> worker[w].pc \in DrivePC \cup {"window"}

(* A log somebody holds has its row. *)
HeldLogsExist ==
    \A w \in Worker :
        worker[w].log \in Log => rows[worker[w].log].status # "absent"

OneDriver ==
    \A l \in Log : disturbed[l] = {} =>
        \A v, w \in Worker : Drives(v, l) /\ Drives(w, l) => v = w

CoverageInv ==
    /\ TypeOK
    /\ LogsInHand
    /\ HeldLogsExist
    /\ OneDriver
    /\ CheckpointCovered
    /\ CompletionCovered
    /\ \A w \in Worker : SnapshotCovered(w)

(* The owner of a log counts its attempts from the row as it is. *)
CountsRight(w) ==
    LET p == worker[w]
    IN  p.pc \in {"drive", "persist", "failed"}
          /\ rows[p.log].claimed_by = w => p.cur.retries = rows[p.log].retries

OwnerCountsRight == \A w \in Worker : CountsRight(w)

(* The inductive invariant of the dispatcher: what CoverageInv and          *)
(* RetryBudgetHeld need to hold for each other's steps. *)
DispatchInv == CoverageInv /\ OwnerCountsRight /\ RetryBudgetHeld

---------------------------------------------------------------------------
(* The dispatcher keeps the promise of BackfillPromise *)

Window(l) == IF rows[l].status = "absent" THEN {}
                                          ELSE rows[l].start .. rows[l].end

Promise == INSTANCE BackfillPromise WITH
    window   <- [l \in Log |-> Window(l)],
    recorded <- outcomes,
    closed   <- [l \in Log |-> rows[l].completed],
    excused  <- [l \in Log |-> disturbed[l] # {}]

(* Every behaviour of the dispatcher is one of the abstract ledger: no     *)
(* step loses an outcome, reopens a complete log, completes it early, or   *)
(* lets its window grow past what is recorded, unless the log is excused.  *)
KeepsPromise == Promise!Spec

---------------------------------------------------------------------------
(* Liveness *)

(* A claim in the name of a worker that does not work on the log. *)
Orphaned(l) ==
    rows[l].claimed_by \in Worker /\ ~ Drives(rows[l].claimed_by, l)

(* Processes that are up keep running, clocks advance; a heartbeat need    *)
(* only ever grow stale when nobody is there to renew it. *)
Fairness ==
    /\ \A w \in Worker : WF_vars(worker[w].pc # "down" /\ WorkerStep(w))
    /\ \A l \in Log : WF_vars(Orphaned(l) /\ HeartbeatExpires(l))
    /\ \A l \in Log : WF_vars(CooldownExpires(l))
    /\ \A w \in Worker, l \in Log : WF_vars(BackoffExpires(w, l))

FairSpec == Spec /\ Fairness

(* A claim left behind by a worker that crashed, or that restarted under   *)
(* the same identity, never stays: as long as one worker stays up, the     *)
(* claim is eventually reaped or taken over. *)
OrphanReclaimed ==
    \A w \in Worker :
        <>[](worker[w].pc # "down") => \A l \in Log : []<>(~ Orphaned(l))

(* Nobody restarts, no batch outlives a heartbeat, and no batch fails but  *)
(* the one that asks for an exhausted window. *)
Calm(w) ==
    /\ worker[w].pc # "down"
    /\ \A v \in Worker : worker[v].pc \notin {"init", "window"}
    /\ \A v \in Worker : worker[v].pc = "failed" => WindowDone(worker[v])
    /\ \A l \in Log : StaleClaim(rows[l]) => Orphaned(l)

(* Whatever crashes, races, failures and half-finished restarts have left  *)
(* in the tables, once the system is calm every log that has a window is   *)
(* driven to completion. *)
CalmCompletes ==
    \A w \in Worker : <>[]Calm(w) =>
        \A l \in Log : rows[l].status # "absent" ~> rows[l].completed
=============================================================================
