-------------------------------- MODULE Audit --------------------------------
(***************************************************************************)
(* The integrity audit of the legacy ranges and its repairs                *)
(* (audit_checker.py, audit_repair.py, audit_repair_strategies.py), beside *)
(* the workers of LegacyRanges and the retention that deletes rows.        *)
(*                                                                         *)
(* A check reads the rows it is about, reads the keys that are known, and  *)
(* inserts the rest, in three statements: READ COMMITTED, and no unique    *)
(* constraint, so that checks of two commands (the maintenance loop's and  *)
(* an operator's) may interleave.  The checks of one command run one after *)
(* the other and commit together; here each is an actor of its own, which  *)
(* commits by itself.  A check that fails, and rolls its savepoint back,   *)
(* has changed nothing: it counts as one that did not begin.               *)
(* A repair runs in a savepoint of its own.  What changes between the      *)
(* loading of a finding and its repair might as well change after the one  *)
(* and before the other, so each repair is one action.                     *)
(* A finding in a terminal state is never read again: it leaves the model, *)
(* and its identity serves again once no range and no run refers to it.    *)
(* tail_cursor_gap and stats_inconsistency have no check that finds them.  *)
(***************************************************************************)
EXTENDS LegacyRanges

CONSTANTS
    Checker,     \* checks that may run side by side
    QueryLimit,  \* LIMIT of the query of a check, 500 in the code
    MaxOpen,     \* bound: keys under a finding at a time
    MaxDeleted,  \* bound: ranges that retention deletes
    MaxTaken     \* bound: outcomes deleted and findings waved aside

ASSUME AuditAssumption ==
    /\ QueryLimit \in Nat \ {0}
    /\ MaxOpen \in Nat /\ MaxDeleted \in Nat /\ MaxTaken \in Nat

VARIABLES
    check,  \* the check each checker is at
    taken   \* outcomes deleted and findings waved aside so far

vars == <<ranges, outcomes, findings, worker, deleted, short, disturbed,
          check, taken>>

---------------------------------------------------------------------------
NoRange == -1

(* The range is NoRange for an observation, and once the row is deleted    *)
(* (ON DELETE SET NULL). *)
Entry == [range : Nat \cup {NoRange}, status : {"open", "repair_attempted"},
          by : Checker]   \* history: the checker that inserted it

Live(f) == findings[f] # NoFinding

---------------------------------------------------------------------------
(* run_all_checks *)

(* Fault: a write_error passes for an outcome. *)
CountsAsOutcome(i) == HasRow(i)

Usable(i) == HasRow(i) /\ outcomes[i] # "write_error"

RowsWith(status) ==
    {<<c, ranges[c].id>> : c \in {d \in Span : ranges[d].status = status}}

(* Complete ranges with fewer usable outcomes than entries. *)
Missing(c) == {i \in c[1] .. c[2] : ~ Usable(i)}

Rows(type) ==
    CASE type = "stale_claim" -> RowsWith("stale")
      [] type = "failed_range" -> RowsWith("failed")
      [] type = "missing_outcomes" ->
            {r \in RowsWith("complete") : Missing(r[1]) # {}}
      [] type = "observation" ->
            {<<<<i, i>>, NoRange>> : i \in {j \in Index :
                                              outcomes[j] = "observed"}}

(* ORDER BY: the most missing first, the observations by index, the other  *)
(* two by times, which are not in the model. *)
Before(type, r, q) ==
    \/ /\ type = "missing_outcomes"
       /\ Cardinality(Missing(r[1])) > Cardinality(Missing(q[1]))
    \/ type = "observation" /\ r[1][1] < q[1][1]

(* The first QueryLimit rows, known or not. *)
Answers(type) ==
    {rows \in SUBSET Rows(type) :
        /\ Cardinality(rows) <= QueryLimit
        /\ rows # Rows(type) => Cardinality(rows) = QueryLimit
        /\ \A r \in rows, q \in Rows(type) \ rows : ~ Before(type, q, r)}

Checked == Span \X (Nat \cup {NoRange})

NoCheck == [pc |-> "idle"]

Check == {NoCheck} \cup
         [pc : {"keys", "insert"}, type : Type, rows : SUBSET Checked]

(* The query of a check that finds something. *)
QueryRows(k, type) ==
    /\ check[k].pc = "idle"
    /\ \E rows \in Answers(type) \ {{}} :
          check' = [check EXCEPT ![k] =
                        [pc |-> "keys", type |-> type, rows |-> rows]]
    /\ UNCHANGED <<ranges, outcomes, findings, worker, deleted, short,
                   disturbed, taken>>

(* Fault: a finding under repair is reported again. *)
KnownIfOpen(type, row) ==
    \E f \in Finding :
        /\ f.type = type /\ f.span = row[1] /\ Live(f)
        /\ findings[f].range = row[2] /\ findings[f].status = "open"

(* _existing_open_keys: neither open nor repair_attempted for this key. *)
Known(type, row) ==
    \E f \in Finding : /\ f.type = type /\ f.span = row[1] /\ Live(f)
                      /\ findings[f].range = row[2]

ReadKeys(k) ==
    LET new == {r \in check[k].rows : ~ Known(check[k].type, r)}
    IN  /\ check[k].pc = "keys"
        /\ check' = [check EXCEPT ![k] =
               IF new = {} THEN NoCheck
               ELSE [pc |-> "insert", type |-> check[k].type, rows |-> new]]
        /\ UNCHANGED <<ranges, outcomes, findings, worker, deleted, short,
                       disturbed, taken>>

(* Nothing refers to the identity any more. *)
Free(f) == /\ ~ Live(f)
           /\ \A c \in Span : ranges[c].finding # f
           /\ \A w \in Worker : Busy(w) => worker[w].job.finding # f

Identity(type, row) ==
    CHOOSE f \in Finding : f.type = type /\ f.span = row[1] /\ Free(f)

KeysUnderFinding ==
    {<<f.type, <<f.span, findings[f].range>>>> :
        f \in {g \in Finding : Live(g)}}

(* The foreign key of range_id. *)
Refers(row) ==
    row[2] # NoRange => /\ ranges[row[1]].status # "absent"
                        /\ ranges[row[1]].id = row[2]

Reported(k) ==
    [f \in Finding |->
        IF \E r \in check[k].rows : f = Identity(check[k].type, r)
        THEN LET r == CHOOSE r \in check[k].rows :
                          f = Identity(check[k].type, r)
             IN  [range |-> r[2], status |-> "open", by |-> k]
        ELSE findings[f]]

(* The rows that are not known get a finding; if one of them is gone, the  *)
(* check fails. *)
InsertFindings(k) ==
    LET t == check[k]
    IN  /\ t.pc = "insert"
        /\ \/ /\ \A r \in t.rows : Refers(r)
              /\ Cardinality(KeysUnderFinding
                                 \cup {<<t.type, r>> : r \in t.rows}) <= MaxOpen
              /\ \A r \in t.rows : \E f \in Finding :
                    f.type = t.type /\ f.span = r[1] /\ Free(f)
              /\ findings' = Reported(k)
           \/ /\ \E r \in t.rows : ~ Refers(r)
              /\ UNCHANGED findings
        /\ check' = [check EXCEPT ![k] = NoCheck]
        /\ UNCHANGED <<ranges, outcomes, worker, deleted, short, disturbed,
                       taken>>

---------------------------------------------------------------------------
(* run_fix_audit_findings *)

(* resolve_orphaned_repair_findings *)
Orphaned(f) ==
    /\ Live(f) /\ findings[f].status = "repair_attempted"
    /\ \A c \in Span : ranges[c].finding = f => ranges[c].status \notin Active

(* A transaction of its own, committed even when the rest is a dry run. *)
ResolveOrphans ==
    /\ \E f \in Finding : Orphaned(f)
    /\ findings' = [f \in Finding |->
           IF Orphaned(f) THEN NoFinding ELSE findings[f]]
    /\ UNCHANGED <<ranges, outcomes, worker, deleted, short, disturbed,
                   check, taken>>

(* Fault: a finding under repair is repaired again. *)
RepairableAgain(f) == Live(f)

(* fetch_repairable_findings; --severity and --include-warnings let the    *)
(* operator have any type. *)
Repairable(f) == Live(f) /\ findings[f].status = "open"

Close(f) == [findings EXCEPT ![f] = NoFinding]

(* Fault: the range keeps its status. *)
LeftAlone(f, from) == ranges

(* The range is put back to pending if it still has the status, whoever    *)
(* has claimed it in the meantime. *)
PutBack(f, from) ==
    IF findings[f].range # NoRange /\ ranges[f.span].status \in from
    THEN SetStatus(f.span, findings[f].range, "pending") ELSE ranges

(* repair_stale_backfill_claim *)
RepairStale(f) ==
    /\ f.type = "stale_claim"
    /\ ranges' = PutBack(f, InProgress)
    /\ disturbed' = (disturbed \/ /\ ranges' # ranges
                                  /\ \E w \in Worker : WorksOn(w, f.span))
    /\ findings' = Close(f)
    /\ UNCHANGED outcomes

(* repair_failed_backfill_range *)
RepairFailed(f) ==
    /\ f.type = "failed_range"
    /\ ranges' = PutBack(f, {"failed"})
    /\ findings' = Close(f)
    /\ UNCHANGED <<outcomes, disturbed>>

(* repair_missing_entry_outcomes: a repair range with the span of the      *)
(* finding, unless there is a range with that span. *)
RepairMissing(f) ==
    LET there == ranges[f.span].status # "absent"
    IN  /\ f.type = "missing_outcomes"
        /\ ranges' = IF there THEN ranges
                     ELSE [ranges EXCEPT ![f.span] = NewRow(f)]
        /\ findings' = [findings EXCEPT ![f] =
               [range |-> IF there THEN findings[f].range ELSE deleted,
                status |-> "repair_attempted", by |-> findings[f].by]]
        /\ UNCHANGED <<outcomes, disturbed>>

(* repair_missing_observations_without_outcome *)
RepairObservation(f) ==
    /\ f.type = "observation"
    /\ outcomes' = IF HasRow(f.span[1]) THEN outcomes
                   ELSE [outcomes EXCEPT ![f.span[1]] = "stored"]
    /\ findings' = Close(f)
    /\ UNCHANGED <<ranges, disturbed>>

(* apply_repair *)
Repair(f) ==
    /\ Repairable(f)
    /\ \/ RepairStale(f) \/ RepairFailed(f)
       \/ RepairMissing(f) \/ RepairObservation(f)
    /\ UNCHANGED <<worker, deleted, short, check, taken>>

(* mark_finding_ignored *)
Ignore(f) ==
    /\ Live(f) /\ taken < MaxTaken
    /\ findings' = Close(f)
    /\ taken' = taken + 1
    /\ UNCHANGED <<ranges, outcomes, worker, deleted, short, disturbed, check>>

---------------------------------------------------------------------------
(* Retention *)

(* _delete_completed_backfill_ranges *)
DeleteRange(c) ==
    /\ ranges[c].status = "complete" /\ deleted < MaxDeleted
    /\ ranges' = [ranges EXCEPT ![c] = NoRow]
    /\ deleted' = deleted + 1
    /\ findings' = [f \in Finding |->
           IF Live(f) /\ f.span = c /\ findings[f].range = ranges[c].id
           THEN [findings[f] EXCEPT !.range = NoRange] ELSE findings[f]]
    /\ UNCHANGED <<outcomes, worker, short, disturbed, check, taken>>

(* Entry outcomes past their retention are deleted; the observation of a   *)
(* stored entry, and of one stored before its write_error, may stay. *)
DeleteOutcome(i) ==
    /\ HasRow(i) /\ taken < MaxTaken
    /\ taken' = taken + 1
    /\ \E left \in {"deleted", "observed"} :
          /\ left = "observed" => outcomes[i] # "parse_error"
          /\ outcomes' = [outcomes EXCEPT ![i] = left]
    /\ UNCHANGED <<ranges, findings, worker, deleted, short, disturbed, check>>

---------------------------------------------------------------------------
Operators ==
    \/ \E k \in Checker :
          \/ \E type \in Type : QueryRows(k, type)
          \/ ReadKeys(k) \/ InsertFindings(k)
    \/ ResolveOrphans
    \/ \E f \in Finding : Repair(f) \/ Ignore(f)

Retention ==
    \/ \E c \in Span : DeleteRange(c)
    \/ \E i \in Index : DeleteOutcome(i)

Init == LegacyInit /\ check = [k \in Checker |-> NoCheck] /\ taken = 0

Next == (LegacyNext /\ UNCHANGED <<check, taken>>) \/ Operators \/ Retention

Spec == Init /\ [][Next]_vars

---------------------------------------------------------------------------
(* Properties *)

TypeOK ==
    /\ ranges \in [Span -> Row]
    /\ outcomes \in [Index -> Outcome]
    /\ findings \in [Finding -> Entry \cup {NoFinding}]
    /\ worker \in [Worker -> Process]
    /\ deleted \in 0 .. MaxDeleted
    /\ short \in SUBSET Span
    /\ disturbed \in BOOLEAN
    /\ check \in [Checker -> Check]
    /\ taken \in 0 .. MaxTaken

(* The chunks that create_backfill_ranges makes for a worker partition the *)
(* interval they are made for, whatever its length and that of a chunk:    *)
(* every index lies in exactly one of them, none is empty or longer than   *)
(* asked for.                                                              *)
ChunksPartition ==
    \A w \in Worker : worker[w].pc = "seeding" =>
        \A length \in {1, 3}, first \in {0, 2} :
            \A last \in first .. first + worker[w].size + 2 :
                LET made == Chunks(first, last, length)
                IN  /\ \A c \in made : c[1] <= c[2] /\ c[2] - c[1] < length
                    /\ UNION {c[1] .. c[2] : c \in made} = first .. last
                    /\ \A c, d \in made : c # d => c[2] < d[1] \/ d[2] < c[1]

(* An outcome was there, and only retention has deleted it. *)
HasOutcome(i) == outcomes[i] # "none"

SmallestBatch == CHOOSE n \in BatchSizes : \A m \in BatchSizes : n <= m

(* A complete range has outcomes for a batch of its first entries at       *)
(* least, but for what the log did not answer: neither a failure nor a     *)
(* worker that lost its claim, nor a repair ever completes a range nobody  *)
(* has processed. *)
CompletedHasBatch ==
    \A c \in Span : ranges[c].status = "complete" /\ c \notin short =>
        \A i \in c[1] .. LastOf([span |-> c], SmallestBatch) : HasOutcome(i)

(* Two workers run the same range only after a claim outlived its timeout  *)
(* under its worker, or a late repair took a live claim for a stale one.   *)
OneWorkerPerRange ==
    ~ disturbed => \A c \in Span : \A v, w \in Worker :
        WorksOn(v, c) /\ WorksOn(w, c) => v = w

(* The key of a finding, and two findings that share it. *)
SameKey(f, g) ==
    /\ f # g /\ f.type = g.type /\ f.span = g.span
    /\ Live(f) /\ Live(g) /\ findings[f].range = findings[g].range
    /\ f.type = "observation" \/ findings[f].range # NoRange

(* However checks, repairs and retention take turns, a checker does not    *)
(* report what it has reported already: two findings about the same thing  *)
(* come from checks that ran side by side.  With one check at a time there *)
(* is one finding, and there are never more than checks side by side.      *)
DuplicatesFromOverlap ==
    \A f, g \in Finding : SameKey(f, g) => findings[f].by # findings[g].by

---------------------------------------------------------------------------
(* Liveness *)

(* No check is put off for ever while it has something to find. *)
CheckedAgain(type) ==
    []<>(\/ Rows(type) = {}
         \/ \E k \in Checker : check[k].pc # "idle" /\ check[k].type = type)

(* Workers that are up keep running, a limit passes, and a claim whose     *)
(* worker is gone expires; the audit and fix-audit-findings are run again  *)
(* and again, come to an end and do not fail forever.  An action that      *)
(* disables itself is weakly fair just when it is disabled again and       *)
(* again, which is how the fairness of all but the workers' steps is       *)
(* written. *)
Overlooked(c) == ranges[c].status = "claimed" /\ ~ \E w \in Worker : WorksOn(w, c)

Fairness ==
    /\ \A w \in Worker :
          /\ WF_vars(worker[w].pc # "down" /\ WorkerStep(w)
                       /\ UNCHANGED <<check, taken>>)
          /\ []<>(worker[w] # Idle(TRUE))
    /\ \A c \in Span : []<>~ Overlooked(c)
    /\ \A k \in Checker : []<>(check[k].pc = "idle")
    /\ \A type \in Type : CheckedAgain(type)
    /\ []<>~ \E f \in Finding : Orphaned(f)
    /\ \A f \in Finding : []<>~ Repairable(f)

FairSpec == Spec /\ Fairness

(* A failed range does not stay failed: it is found, and put back to       *)
(* pending, also when it has failed and been repaired before; but for      *)
(* times when more ranges have failed than the check reads. *)
FailedRequeued ==
    \A c \in Span : []<>(ranges[c].status = "failed" =>
                            Cardinality(Rows("failed_range")) > QueryLimit)

(* A complete range that lacks the outcome of an entry, or has a           *)
(* write_error for it, always comes under a finding again, whatever        *)
(* findings the past has closed; but for times when there are more such    *)
(* ranges than the check reads, known ones included. *)
Lacking(i) == outcomes[i] \notin {"stored", "parse_error"}

GapReported ==
    \A c \in Span : []<>((/\ ranges[c].status = "complete"
                         /\ \E i \in c[1] .. c[2] : Lacking(i)
                         /\ Cardinality(Rows("missing_outcomes")) <= QueryLimit) =>
        \E f \in Finding :
            f.type = "missing_outcomes" /\ f.span = c /\ Live(f))

(* A worker that stays up and whose batches succeed, and no other worker    *)
(* in its way that fails or restarts for ever, completes every range there *)
(* is, those left behind by crashes and failures included. *)
Calm(w) ==
    /\ worker[w].pc # "down"
    /\ \A v \in Worker : worker[v].pc \notin {"fail", "requeue"}

Steady(v) == <>[](worker[v].pc = "down") \/ <>[](worker[v].pc # "down")

RangesComplete ==
    \A w \in Worker : (<>[]Calm(w) /\ \A v \in Worker : Steady(v)) =>
        \A c \in Span : []<>(ranges[c].status \in {"absent", "complete"})

---------------------------------------------------------------------------
(* What the code says of itself, and does not do *)

(* audit_checker.py:3-5: one open finding for each log, type, span and     *)
(* range; existing ones are not duplicated. *)
NoDuplicateFindings == \A f, g \in Finding : ~ SameKey(f, g)

(* entry_outcome.py:7-9: a backfill range may only advance after every     *)
(* index in the processed span has a row. *)
RangeAccounted ==
    \A c \in Span : ranges[c].status = "complete" /\ c \notin short =>
        \A i \in c[1] .. c[2] : HasOutcome(i)

(* outcome_constants.py:13-19: the repair process re-queues the range. *)
RepairRequeues ==
    [][\A f \in Finding :
          (Live(f) /\ findings[f].status = "open"
             /\ findings'[f] # NoFinding
             /\ findings'[f].status = "repair_attempted")
          => ranges'[f.span].status \in Active]_vars
=============================================================================
