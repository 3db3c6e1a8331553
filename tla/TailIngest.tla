----------------------------- MODULE TailIngest -----------------------------
(***************************************************************************)
(* Tail ingestion of one CT log (tail_worker.py, dispatcher_tail.py):      *)
(* workers take a persistent lease on the log, read its tree head, fetch   *)
(* and persist one batch from the cursor on, advance the cursor and give   *)
(* the lease back; an operator may reset the cursor to the tree edge.      *)
(* Logs share nothing but the time of their workers, so one log is enough. *)
(*                                                                         *)
(* One action per transaction or network call.  A heartbeat is "fresh"     *)
(* until it is ct_worker_stale_seconds old and "stale" afterwards.  A lease*)
(* that is refused leaves everything as it is and is not an action, and    *)
(* reap_stale_tail_leases, which frees stale leases, has no caller.        *)
(***************************************************************************)
EXTENDS Integers

CONSTANTS
    Worker,       \* worker identities
    NoWorker,     \* claimed_by IS NULL, or no lease row
    BatchSizes,   \* effective batch sizes (contention control, --limit)
    InitFromEnd,  \* --init-from-end
    MaxTree       \* bound: the log grows to this size

ASSUME TailAssumption ==
    /\ NoWorker \notin Worker
    /\ BatchSizes \subseteq Nat \ {0}
    /\ InitFromEnd \in Nat
    /\ MaxTree \in Nat

VARIABLES
    lease,      \* the row of ct_log_tail_leases
    cursor,     \* next_index of ct_log_tail_cursors
    outcomes,   \* ct_entry_outcomes: the indices with a terminal outcome
    worker,     \* the local state of each worker
    resetTo,    \* the tree size reset-tail-cursors is about to write
    tree,       \* the size of the log
    base,       \* history: the index the cursor was created at
    skipped,    \* history: the indices an operator has jumped over
    disturbed   \* history: a batch outlived its lease, a reset crossed one

vars == <<lease, cursor, outcomes, worker, resetTo, tree, base, skipped,
          disturbed>>

---------------------------------------------------------------------------
NoCursor == -1

Lease == [by : Worker \cup {NoWorker}, beat : {"none", "fresh", "stale"}]

FreeLease == [by |-> NoWorker, beat |-> "none"]

WorkPC == {"probe", "cursor", "fetch", "persist"}
PC == {"down", "start", "idle", "beat", "empty", "release"} \cup WorkPC

(* A batch starts at start, was answered up to got - 1 and is persisted    *)
(* below pos. *)
Process == [pc      : PC,
            seen    : Nat,       \* tree size of the last tree head
            start   : Nat,
            got     : Nat,
            pos     : Nat,
            backoff : BOOLEAN,   \* rate_limited_until, fetch_error_until
            dying   : BOOLEAN]   \* an exception is on its way out of run_tail

Down == [pc |-> "down", seen |-> 0, start |-> 0, got |-> 0, pos |-> 0,
         backoff |-> FALSE, dying |-> FALSE]

At(pc) == [Down EXCEPT !.pc = pc]

AtWork(w) == worker[w].pc \in WorkPC

(* A worker whose batch runs on a cursor it has read. *)
Reading(w) == worker[w].pc \in {"fetch", "persist"}

Disturb(what, happened) ==
    disturbed' = IF happened THEN disturbed \cup {what} ELSE disturbed

Init ==
    /\ lease = FreeLease
    /\ cursor = NoCursor
    /\ outcomes = {}
    /\ worker = [w \in Worker |-> Down]
    /\ resetTo = NoCursor
    /\ tree \in 0 .. MaxTree
    /\ base = 0
    /\ skipped = {}
    /\ disturbed = {}

---------------------------------------------------------------------------
(* run_tail *)

Start(w) ==
    /\ worker[w].pc = "down"
    /\ worker' = [worker EXCEPT ![w] = At("start")]
    /\ UNCHANGED <<lease, cursor, outcomes, resetTo, tree, base, skipped,
                   disturbed>>

Register(w) ==
    /\ worker[w].pc = "start"
    /\ worker' = [worker EXCEPT ![w] = At("idle")]
    /\ UNCHANGED <<lease, cursor, outcomes, resetTo, tree, base, skipped,
                   disturbed>>

(* Fault: a stale lease is not taken over. *)
ClaimableUnlessStale(w) == lease.by \in {NoWorker, w}

(* Fault: the owner of the lease is not looked at. *)
AlwaysClaimable(w) == lease.beat \in {"none", "fresh", "stale"}

Claimable(w) == lease.by \in {NoWorker, w} \/ lease.beat = "stale"

(* claim_tail_log *)
ClaimLease(w) ==
    /\ worker[w].pc = "idle" /\ ~ worker[w].backoff
    /\ Claimable(w)
    /\ lease' = [by |-> w, beat |-> "fresh"]
    /\ worker' = [worker EXCEPT ![w] = At("probe")]
    /\ UNCHANGED <<cursor, outcomes, resetTo, tree, base, skipped, disturbed>>

---------------------------------------------------------------------------
(* _process_log_batch *)

(* A log may serve a tree head that is behind its latest. *)
Probe(w) ==
    /\ worker[w].pc = "probe"
    /\ \E size \in 0 .. tree :
          worker' = [worker EXCEPT
                        ![w] = [@ EXCEPT !.pc = "cursor", !.seen = size]]
    /\ UNCHANGED <<lease, cursor, outcomes, resetTo, tree, base, skipped,
                   disturbed>>

(* RateLimitError or FetchError: no heartbeat, the lease is given back and *)
(* this worker leaves the log alone for a while. *)
RemoteFails(w) ==
    /\ worker[w].pc \in {"probe", "fetch"}
    /\ worker' = [worker EXCEPT
                     ![w] = [At("release") EXCEPT !.backoff = TRUE]]
    /\ UNCHANGED <<lease, cursor, outcomes, resetTo, tree, base, skipped,
                   disturbed>>

(* Fault: the floor at index 0 is forgotten. *)
FirstIndexUnfloored(size) == size - InitFromEnd

FirstIndex(size) == IF size > InitFromEnd THEN size - InitFromEnd ELSE 0

(* Fault: an existing cursor is initialised again. *)
CursorReset(size) == FirstIndex(size)

(* ensure_tail_cursor *)
CursorFor(size) == IF cursor = NoCursor THEN FirstIndex(size) ELSE cursor

(* Fault: the tree size is taken for the last index. *)
NothingNewOffByOne(start, size) == start + 1 >= size

NothingNew(start, size) == start >= size

EnsureCursor(w) ==
    LET size == worker[w].seen
        next == CursorFor(size)
    IN  /\ worker[w].pc = "cursor"
        /\ cursor' = next
        /\ base' = IF cursor = NoCursor THEN next ELSE base
        /\ worker' = [worker EXCEPT
               ![w] = IF NothingNew(next, size)
                      THEN At("beat")
                      ELSE [@ EXCEPT !.pc = "fetch", !.start = next]]
        /\ UNCHANGED <<lease, outcomes, resetTo, tree, skipped, disturbed>>

(* One past the last index asked for: min(start + batch - 1, tree_size - 1) *)
(* and one more. *)
BatchEnd(p, size) == IF p.start + size <= p.seen THEN p.start + size
                                                 ELSE p.seen

(* The log answers with a prefix of the range; without an entry the batch  *)
(* is over. *)
Fetch(w, size) ==
    LET p == worker[w]
    IN  /\ p.pc = "fetch"
        /\ \E got \in p.start .. BatchEnd(p, size) :
              worker' = [worker EXCEPT
                 ![w] = IF got = p.start
                        THEN At("empty")
                        ELSE [@ EXCEPT !.pc = "persist", !.got = got,
                                       !.pos = p.start]]
        /\ UNCHANGED <<lease, cursor, outcomes, resetTo, tree, base, skipped,
                       disturbed>>

(* Stored, or recorded as a terminal failure of the entry. *)
PersistEntry(w) ==
    LET p == worker[w]
    IN  /\ p.pc = "persist" /\ p.pos < p.got
        /\ outcomes' = outcomes \cup {p.pos}
        /\ worker' = [worker EXCEPT ![w].pos = p.pos + 1]
        /\ UNCHANGED <<lease, cursor, resetTo, tree, base, skipped, disturbed>>

(* Fault: the cursor moves to the tree size the worker has seen. *)
CursorPastTree(p) == p.seen

(* start + len(entries) *)
NextIndex(p) == p.got

(* advance_tail_cursor looks neither at the lease nor at the cursor. *)
Advance(w) ==
    LET p == worker[w]
    IN  /\ p.pc = "persist" /\ p.pos = p.got
        /\ cursor' = NextIndex(p)
        /\ worker' = [worker EXCEPT ![w] = At("beat")]
        /\ UNCHANGED <<lease, outcomes, resetTo, tree, base, skipped, disturbed>>

---------------------------------------------------------------------------
(* The rest of _tail_one_log *)

(* heartbeat_tail_lease *)
Heartbeat(w) ==
    /\ worker[w].pc \in {"beat", "empty"}
    /\ lease' = IF lease.by = w THEN [lease EXCEPT !.beat = "fresh"] ELSE lease
    /\ worker' = [worker EXCEPT ![w] = At("release")]
    /\ UNCHANGED <<cursor, outcomes, resetTo, tree, base, skipped, disturbed>>

(* Any other exception, or the cancellation of the task: the finally block *)
(* still releases the lease, then the worker is gone. *)
Die(w) ==
    /\ worker[w].pc \in WorkPC \cup {"beat", "empty", "release"}
    /\ worker' = [worker EXCEPT ![w] = [At("release") EXCEPT !.dying = TRUE]]
    /\ UNCHANGED <<lease, cursor, outcomes, resetTo, tree, base, skipped,
                   disturbed>>

(* Fault: whoever holds the lease, it is freed. *)
FreedByAnyone(w) == FreeLease

Released(w) == IF lease.by = w THEN FreeLease ELSE lease

(* release_tail_log *)
Release(w) ==
    LET p == worker[w]
    IN  /\ p.pc = "release"
        /\ lease' = Released(w)
        /\ worker' = [worker EXCEPT
               ![w] = IF p.dying THEN Down
                                 ELSE [At("idle") EXCEPT !.backoff = p.backoff]]
        /\ UNCHANGED <<cursor, outcomes, resetTo, tree, base, skipped,
                       disturbed>>

---------------------------------------------------------------------------
(* reset_tail_cursors: probe the log, then overwrite the cursor *)

ResetProbe ==
    /\ resetTo = NoCursor
    /\ resetTo' \in 0 .. tree
    /\ UNCHANGED <<lease, cursor, outcomes, worker, tree, base, skipped,
                   disturbed>>

(* A log without a cursor is passed over. *)
ResetWrite ==
    /\ resetTo # NoCursor
    /\ resetTo' = NoCursor
    /\ IF cursor = NoCursor
       THEN UNCHANGED <<cursor, skipped, disturbed>>
       ELSE /\ cursor' = resetTo
            /\ skipped' = skipped \cup (cursor .. resetTo - 1)
            /\ Disturb("reset", resetTo < cursor \/ \E w \in Worker : Reading(w))
    /\ UNCHANGED <<lease, outcomes, worker, tree, base>>

---------------------------------------------------------------------------
(* The environment *)

(* The process is killed, or leaves between two batches. *)
Crash(w) ==
    /\ worker[w].pc # "down"
    /\ worker' = [worker EXCEPT ![w] = Down]
    /\ UNCHANGED <<lease, cursor, outcomes, resetTo, tree, base, skipped,
                   disturbed>>

TreeGrows ==
    /\ tree < MaxTree
    /\ tree' = tree + 1
    /\ UNCHANGED <<lease, cursor, outcomes, worker, resetTo, base, skipped,
                   disturbed>>

LeaseExpires ==
    /\ lease.by # NoWorker /\ lease.beat = "fresh"
    /\ lease' = [lease EXCEPT !.beat = "stale"]
    /\ Disturb("slow", \E w \in Worker : lease.by = w /\ AtWork(w))
    /\ UNCHANGED <<cursor, outcomes, worker, resetTo, tree, base, skipped>>

BackoffExpires(w) ==
    /\ worker[w].pc = "idle" /\ worker[w].backoff
    /\ worker' = [worker EXCEPT ![w] = At("idle")]
    /\ UNCHANGED <<lease, cursor, outcomes, resetTo, tree, base, skipped,
                   disturbed>>

---------------------------------------------------------------------------
WorkerStep(w) ==
    \/ Start(w) \/ Register(w) \/ ClaimLease(w)
    \/ Probe(w) \/ RemoteFails(w) \/ EnsureCursor(w)
    \/ \E size \in BatchSizes : Fetch(w, size)
    \/ PersistEntry(w) \/ Advance(w)
    \/ Heartbeat(w) \/ Die(w) \/ Release(w)

Environment ==
    \/ ResetProbe \/ ResetWrite \/ TreeGrows \/ LeaseExpires
    \/ \E w \in Worker : Crash(w) \/ BackoffExpires(w)

Next == (\E w \in Worker : WorkerStep(w)) \/ Environment

Spec == Init /\ [][Next]_vars

---------------------------------------------------------------------------
(* Properties *)

TypeOK ==
    /\ lease \in Lease
    /\ cursor \in Nat \cup {NoCursor}
    /\ outcomes \in SUBSET Nat
    /\ worker \in [Worker -> Process]
    /\ resetTo \in Nat \cup {NoCursor}
    /\ tree \in Nat
    /\ base \in Nat
    /\ skipped \in SUBSET Nat
    /\ disturbed \in SUBSET {"slow", "reset"}

Covered(lo, past) == lo .. past - 1 \subseteq outcomes \cup skipped

(* Between the index the tail began at and its cursor every entry has an   *)
(* outcome, but for what an operator's reset has jumped over: whatever     *)
(* crashes, expires or runs beside each other, the unguarded write of the  *)
(* cursor never leaves a hole behind. *)
TailCovered == cursor # NoCursor => Covered(base, cursor)

(* The docstring of _tail_one_log: "only one worker processes a given CT   *)
(* log at a time."  True as long as no batch outlives its lease. *)
OneAtWork ==
    "slow" \notin disturbed =>
        \A v, w \in Worker : AtWork(v) /\ AtWork(w) => v = w

(* As long as no batch outlives its lease and no reset crosses a batch or  *)
(* goes back, the cursor only moves forward: no entry is fetched again.    *)
CursorForward == [][disturbed' = {} => cursor' >= cursor]_vars

---------------------------------------------------------------------------
(* The inductive invariant behind the three *)

(* What the indices in a worker's memory are worth. *)
BatchCovered(w) ==
    LET p == worker[w]
    IN  Reading(w) =>
          /\ cursor # NoCursor
          /\ Covered(base, p.start)
          /\ p.pc = "persist" => /\ p.start <= p.pos /\ p.pos <= p.got
                                 /\ Covered(p.start, p.pos)

(* The worker at work is the one with a fresh lease. *)
WorkerHoldsLease ==
    "slow" \notin disturbed =>
        \A w \in Worker : AtWork(w) => lease.by = w /\ lease.beat = "fresh"

(* The cursor stands where the batch in hand began. *)
BatchAtCursor ==
    disturbed = {} => \A w \in Worker : Reading(w) => cursor = worker[w].start

TailInv ==
    /\ TypeOK
    /\ TailCovered
    /\ \A w \in Worker : BatchCovered(w)
    /\ WorkerHoldsLease
    /\ BatchAtCursor

---------------------------------------------------------------------------
(* Liveness *)

(* A lease in the name of a worker that does not hold it any more. *)
Orphaned ==
    \E w \in Worker : lease.by = w /\ worker[w].pc \in {"down", "start", "idle"}

(* Processes that are up keep running, backoffs pass, and a lease grows    *)
(* stale when nobody is there to renew it. *)
Fairness ==
    /\ \A w \in Worker : WF_vars(worker[w].pc # "down" /\ WorkerStep(w))
    /\ WF_vars(Orphaned /\ LeaseExpires)
    /\ \A w \in Worker : WF_vars(BackoffExpires(w))

FairSpec == Spec /\ Fairness

(* A lease left by a killed worker never stays while another worker is up, *)
(* whatever fails: it goes stale and is taken over. *)
LeaseReturns ==
    \A w \in Worker : <>[](worker[w].pc # "down") => []<>(~ Orphaned)

(* The log answers with entries and with its latest tree head; nobody      *)
(* restarts, fails or resets; no batch outlives its lease. *)
Calm(w) ==
    /\ worker[w].pc # "down"
    /\ \A v \in Worker : LET p == worker[v] IN
          /\ p.pc \notin {"start", "empty"} /\ ~ p.backoff /\ ~ p.dying
          /\ p.pc \in {"cursor", "fetch", "persist"} => p.seen = tree
    /\ resetTo = NoCursor
    /\ lease.beat = "stale" => Orphaned

(* Once the system is calm the tail catches up with the log and stays with *)
(* it, whatever leases, cursors and half-done batches the past has left. *)
TailCatchesUp ==
    \A w \in Worker : <>[]Calm(w) => []<>(cursor >= tree)
=============================================================================
